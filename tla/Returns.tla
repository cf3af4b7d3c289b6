------------------------------- MODULE Returns -------------------------------
(***************************************************************************)
(* An order from the rider at the customer's door to the refund of its     *)
(* return: the hand-over by code (verifyHandoffOtpAndDeliver, validate-    *)
(* DeliveryOtp), and the return's own handlers in orderController.js and   *)
(* orderWorkflowController.js.                                             *)
(*                                                                         *)
(* Every handler reads the order, decides, and saves it later; Mongoose    *)
(* writes the fields the handler changed, whatever happened to the order   *)
(* meanwhile.  So a handler is a thread of several steps, and may start    *)
(* while another is half way; overlaps counts how often one did.           *)
(***************************************************************************)
EXTENDS HandoverCodes, FiniteSets

CONSTANTS
    Threads,
    Riders,
    NoRider,
    MaxCodes,       \* bound: codes the order has when another is requested
    MaxOverlaps,    \* bound: handlers that start while another is half way
    MaxEdits,       \* bound: statuses set out of their order
    MaxFaults       \* bound: handlers that throw or die half way

ASSUME NoRiderAssumption == NoRider \notin Riders
ASSUME BoundsAssumption ==
    MaxCodes \in Nat /\ MaxOverlaps \in Nat /\ MaxEdits \in Nat /\ MaxFaults \in Nat

VARIABLES
    doc,        \* the Order document
    codes,      \* its one-time codes
    thread,     \* thread[t]: what handler t is in the middle of
    delivered,  \* deliveries by verifyHandoffOtpAndDeliver, each settled
    refunds,    \* times the customer was credited
    commission, \* times a rider was credited for the return
    overlaps,
    edits,      \* statuses set by updateReturnStatus, or by acceptReturnPickup on an order
                \* that awaits no pick-up
    faults

Counts == <<delivered, refunds, commission>>
Bounds == <<edits, faults>>
vars == <<doc, codes, thread, Counts, overlaps, Bounds>>

ReturnStatus ==
    {"none", "return_requested", "return_approved", "return_rejected",
     "return_pickup_assigned", "return_in_transit", "return_drop_pending",
     "returned", "qc_passed", "qc_failed", "refund_completed"}

Early == {"none", "return_requested", "return_approved", "return_rejected",
          "return_pickup_assigned"}

Doc == [out : BOOLEAN, ret : ReturnStatus, rider : Riders \cup {NoRider}]

Door == [out |-> TRUE, ret |-> "none", rider |-> NoRider]

PC == {"idle", "save", "invalidate", "insert", "pend", "look", "mark", "handOver",
       "earn", "verdict", "refund", "pay", "close"}

\* snap is the order as the handler read it, want the order it is about to save; n is
\* the code it looked at, taken whether it was the right one; flow tells the two
\* implementations of the delivery code apart.
ThreadState == [pc : PC, snap : Doc, want : Doc, type : CodeType,
                flow : {"workflow", "service"}, n : Nat, attempts : Nat, taken : BOOLEAN]

Idle == [pc |-> "idle", snap |-> Door, want |-> Door, type |-> "delivery",
         flow |-> "service", n |-> 0, attempts |-> 0, taken |-> FALSE]

TypeOK ==
    /\ doc \in Doc
    /\ codes \in Seq(Code)
    /\ thread \in [Threads -> ThreadState]
    /\ delivered \in Nat /\ refunds \in Nat /\ commission \in Nat
    /\ overlaps \in 0 .. MaxOverlaps /\ edits \in 0 .. MaxEdits /\ faults \in 0 .. MaxFaults

Init ==
    /\ doc = Door
    /\ codes = << >>
    /\ thread = [t \in Threads |-> Idle]
    /\ delivered = 0 /\ refunds = 0 /\ commission = 0
    /\ overlaps = 0 /\ edits = 0 /\ faults = 0
-----------------------------------------------------------------------------
(* Steps of a handler.                                                     *)

At(t, pc) == thread[t].pc = pc

\* The credit of a pick-up goes on after the handler has answered.
Busy(t) == thread[t].pc \notin {"idle", "earn"}

Start(t, th) ==
    /\ At(t, "idle")
    /\ overlaps' = IF \E u \in Threads : Busy(u) THEN overlaps + 1 ELSE overlaps
    /\ overlaps' <= MaxOverlaps
    /\ thread' = [thread EXCEPT ![t] = th]

Goto(t, pc) == thread' = [thread EXCEPT ![t].pc = pc]

Finish(t) == thread' = [thread EXCEPT ![t] = Idle]

\* Mongoose saves the fields that differ from what was read.
Saved(snap, want) ==
    [f \in DOMAIN doc |-> IF want[f] = snap[f] THEN doc[f] ELSE want[f]]

\* The handlers that read the order, check it and save it.
Decide(t, want) ==
    /\ Start(t, [Idle EXCEPT !.pc = "save", !.snap = doc, !.want = want])
    /\ UNCHANGED <<doc, codes, Counts, Bounds>>

Save(t) ==
    /\ At(t, "save")
    /\ doc' = Saved(thread[t].snap, thread[t].want)
    /\ Finish(t)
    /\ UNCHANGED <<overlaps, codes, Counts, Bounds>>
-----------------------------------------------------------------------------
(* The return up to its pick-up.                                           *)

RequestReturn(t) ==
    /\ ~doc.out /\ doc.ret = "none"
    /\ Decide(t, [doc EXCEPT !.ret = "return_requested"])

ApproveReturn(t) ==
    /\ doc.ret = "return_requested"
    /\ Decide(t, [doc EXCEPT !.ret = "return_approved", !.rider = NoRider])

RejectReturn(t) ==
    /\ doc.ret = "return_requested"
    /\ Decide(t, [doc EXCEPT !.ret = "return_rejected"])

\* assignReturnDelivery, with a rider or for whoever accepts the broadcast.
AssignPickup(t, r) ==
    /\ doc.ret \in {"return_requested", "return_approved"}
    /\ Decide(t, [doc EXCEPT !.ret = "return_pickup_assigned", !.rider = r])

\* The goods are with the customer, and nobody has come for them.
AwaitsPickup == ~doc.out /\ doc.ret \in Early

\* acceptReturnPickup looks at the rider only: it takes any order whose return has none
\* for a return to be picked up, and where none awaits that, it is an edit of the status.
AcceptPickup(t, r) ==
    /\ doc.rider = NoRider
    /\ edits' = IF AwaitsPickup THEN edits ELSE edits + 1
    /\ edits' <= MaxEdits
    /\ Start(t, [Idle EXCEPT !.pc = "save", !.snap = doc,
                             !.want = [doc EXCEPT !.ret = "return_pickup_assigned",
                                                  !.rider = r]])
    /\ UNCHANGED <<doc, codes, Counts, faults>>

RejectPickup(t, r) ==
    /\ doc.rider = r /\ doc.ret = "return_pickup_assigned"
    /\ Decide(t, [doc EXCEPT !.ret = "return_approved", !.rider = NoRider])

Rank(ret) == CASE ret = "return_pickup_assigned" -> 1
               [] ret = "return_in_transit" -> 2
               [] ret = "returned" -> 3
               [] OTHER -> 0

\* updateReturnStatus, by an administrator or the rider, without any code.
EditReturn(t, ret) ==
    /\ edits < MaxEdits /\ edits' = edits + 1
    /\ Rank(ret) >= Rank(doc.ret)
    /\ Start(t, [Idle EXCEPT !.pc = "save", !.snap = doc, !.want = [doc EXCEPT !.ret = ret]])
    /\ UNCHANGED <<doc, codes, Counts, faults>>
-----------------------------------------------------------------------------
(* A code is requested.                                                    *)

RequestCode(t, ty, flow) ==
    /\ Len(codes) < MaxCodes
    /\ Start(t, [Idle EXCEPT !.pc = "invalidate", !.type = ty, !.flow = flow])
    /\ UNCHANGED <<doc, codes, Counts, Bounds>>

\* generateDeliveryOtp does not look at the status, requestHandoffOtpAtomic does.
RequestDeliveryCode(t, flow) ==
    /\ flow = "workflow" => doc.out
    /\ RequestCode(t, "delivery", flow)

RequestPickupCode(t) ==
    /\ doc.ret = "return_pickup_assigned"
    /\ RequestCode(t, "return_pickup", "service")

RequestDropCode(t) ==
    /\ doc.ret \in {"return_in_transit", "return_drop_pending"} /\ doc.rider # NoRider
    /\ RequestCode(t, "return_drop", "service")

\* Mutated form: the older codes stay valid.
InvalidateNone(t) ==
    /\ At(t, "invalidate")
    /\ Goto(t, "insert")
    /\ UNCHANGED <<overlaps, doc, codes, Counts, Bounds>>

\* What is not consumed of the type becomes so (the workflow deletes it, of any type),
Invalidate(t) ==
    /\ At(t, "invalidate")
    /\ codes' = IF thread[t].flow = "workflow" THEN Invalidated(codes, CodeType, "deleted")
                ELSE Invalidated(codes, {thread[t].type}, "consumed")
    /\ Goto(t, "insert")
    /\ UNCHANGED <<overlaps, doc, Counts, Bounds>>

\* a new record inserted,
Insert(t) ==
    /\ At(t, "insert")
    /\ codes' = Append(codes, Fresh(thread[t].type))
    /\ IF thread[t].type = "return_drop" THEN Goto(t, "pend") ELSE Finish(t)
    /\ UNCHANGED <<overlaps, doc, Counts, Bounds>>

\* and a return waits for its drop-off, whatever became of it.
Pend(t) ==
    /\ At(t, "pend")
    /\ doc' = [doc EXCEPT !.ret = "return_drop_pending"]
    /\ Finish(t)
    /\ UNCHANGED <<overlaps, codes, Counts, Bounds>>

Expire(n) ==
    /\ codes[n].state = "open"
    /\ codes' = [codes EXCEPT ![n].state = "expired"]
    /\ UNCHANGED <<overlaps, doc, thread, Counts, Bounds>>
-----------------------------------------------------------------------------
(* A code is entered.                                                      *)

Enter(t, ty, flow) ==
    /\ Start(t, [Idle EXCEPT !.pc = "look", !.type = ty, !.flow = flow,
                             !.snap = IF ty = "return_drop" THEN doc ELSE Door])
    /\ UNCHANGED <<doc, codes, Counts, Bounds>>

\* validateDeliveryOtp does not look at the status, verifyHandoffOtpAndDeliver does.
EnterDeliveryCode(t, flow) ==
    /\ flow = "workflow" => doc.out
    /\ Enter(t, "delivery", flow)

\* Neither the status nor the rider is looked at.
EnterPickupCode(t) == Enter(t, "return_pickup", "service")

EnterDropCode(t) == doc.rider # NoRider /\ Enter(t, "return_drop", "service")

\* The record is read and compared with what was entered.
Look(t, right) ==
    LET n == IF thread[t].flow = "workflow" THEN LatestOpen(codes)
             ELSE LatestOf(codes, thread[t].type) IN
    /\ At(t, "look")
    /\ IF n # 0 /\ Usable(codes[n])
       THEN thread' = [thread EXCEPT ![t].pc = "mark", ![t].n = n, ![t].taken = right,
                                     ![t].attempts = codes[n].attempts]
       ELSE Finish(t)
    /\ UNCHANGED <<overlaps, doc, codes, Counts, Bounds>>

\* A wrong entry is counted, by $inc in the workflow and otherwise by saving one more
\* than what was read; a right one consumes the record, whoever else has by now.
\* Saving a record that was deleted throws, updating it does nothing.
Mark(t) ==
    LET th == thread[t]
        lost == codes[th.n].state = "deleted" /\ th.flow = "service"
    IN
    /\ At(t, "mark")
    /\ codes' = IF lost THEN codes ELSE
           [codes EXCEPT ![th.n] =
               IF th.taken THEN Taken(@)
               ELSE Missed(@, 1 + IF th.flow = "workflow" THEN @.attempts
                                  ELSE th.attempts)]
    /\ IF th.taken /\ ~lost THEN Goto(t, "handOver") ELSE Finish(t)
    /\ UNCHANGED <<overlaps, doc, Counts, Bounds>>

\* Mutated form: the workflow writes without looking at the status again.
DeliverAnyway(t) ==
    /\ At(t, "handOver") /\ thread[t].type = "delivery"
    /\ doc' = [doc EXCEPT !.out = FALSE]
    /\ delivered' = IF thread[t].flow = "workflow" THEN delivered + 1 ELSE delivered
    /\ Finish(t)
    /\ UNCHANGED <<overlaps, codes, refunds, commission, Bounds>>

\* The workflow delivers an order that is still out, and settles it (Settlement); the
\* other endpoint writes it as delivered in any case.
HandOver(t) ==
    /\ At(t, "handOver") /\ thread[t].type = "delivery"
    /\ doc' = [doc EXCEPT !.out = FALSE]
    /\ delivered' = IF thread[t].flow = "workflow" /\ doc.out THEN delivered + 1
                    ELSE delivered
    /\ Finish(t)
    /\ UNCHANGED <<overlaps, codes, refunds, commission, Bounds>>

\* verifyReturnPickupOtp: whatever the status was, the goods are on their way.
PickUp(t) ==
    /\ At(t, "handOver") /\ thread[t].type = "return_pickup"
    /\ doc' = [doc EXCEPT !.ret = "return_in_transit"]
    /\ thread' = [thread EXCEPT ![t] = [Idle EXCEPT !.pc = "earn", !.snap = doc]]
    /\ UNCHANGED <<overlaps, codes, Counts, Bounds>>

\* Its commission, in the background; the flag that it was paid is not a field of the
\* schema, so that nobody ever finds it set.
Earn(t) ==
    /\ At(t, "earn")
    /\ commission' = IF thread[t].snap.rider = NoRider THEN commission ELSE commission + 1
    /\ Finish(t)
    /\ UNCHANGED <<overlaps, doc, codes, delivered, refunds, Bounds>>

\* verifyReturnDropOtp saves the order it read before it looked at the code.
DropOff(t) ==
    LET snap == thread[t].snap IN
    /\ At(t, "handOver") /\ thread[t].type = "return_drop"
    /\ doc' = Saved(snap, [snap EXCEPT !.ret = "returned"])
    /\ Finish(t)
    /\ UNCHANGED <<overlaps, codes, Counts, Bounds>>
-----------------------------------------------------------------------------
(* Inspection and refund.                                                  *)

\* Mutated form: goods may be inspected before they are back.
InspectEarly(t, verdict) ==
    /\ doc.ret \in {"return_in_transit", "returned"}
    /\ Start(t, [Idle EXCEPT !.pc = "verdict", !.snap = doc,
                             !.want = [doc EXCEPT !.ret = verdict]])
    /\ UNCHANGED <<doc, codes, Counts, Bounds>>

Inspect(t, verdict) ==
    /\ doc.ret = "returned"
    /\ Start(t, [Idle EXCEPT !.pc = "verdict", !.snap = doc,
                             !.want = [doc EXCEPT !.ret = verdict]])
    /\ UNCHANGED <<doc, codes, Counts, Bounds>>

\* updateReturnQcStatus saves the verdict; what a failure means to the seller's payout
\* is in Settlement.
SaveVerdict(t) ==
    LET th == thread[t] IN
    /\ At(t, "verdict")
    /\ doc' = Saved(th.snap, th.want)
    /\ IF th.want.ret = "qc_passed" THEN Goto(t, "refund") ELSE Finish(t)
    /\ UNCHANGED <<overlaps, codes, Counts, Bounds>>

\* Mutated form: completeReturnAndRefund ends with the credit.
RefundOnly(t) ==
    /\ At(t, "refund")
    /\ refunds' = refunds + 1
    /\ Finish(t)
    /\ UNCHANGED <<overlaps, doc, codes, delivered, commission, Bounds>>

\* completeReturnAndRefund: the customer is credited (the seller's side is in
\* Settlement),
RefundCustomer(t) ==
    /\ At(t, "refund")
    /\ refunds' = refunds + 1
    /\ Goto(t, "pay")
    /\ UNCHANGED <<overlaps, doc, codes, delivered, commission, Bounds>>

\* the rider gets his commission, again,
PayRider(t) ==
    /\ At(t, "pay")
    /\ commission' = IF thread[t].snap.rider = NoRider THEN commission ELSE commission + 1
    /\ Goto(t, "close")
    /\ UNCHANGED <<overlaps, doc, codes, delivered, refunds, Bounds>>

\* and the return is over.
CloseReturn(t) ==
    /\ At(t, "close")
    /\ doc' = [doc EXCEPT !.ret = "refund_completed"]
    /\ Finish(t)
    /\ UNCHANGED <<overlaps, codes, Counts, Bounds>>

\* A handler throws or its process dies.
Abandon(t) ==
    /\ ~At(t, "idle") /\ faults < MaxFaults
    /\ faults' = faults + 1
    /\ Finish(t)
    /\ UNCHANGED <<overlaps, doc, codes, Counts, edits>>
-----------------------------------------------------------------------------
Continue(t) ==
    \/ Save(t) \/ Invalidate(t) \/ Insert(t) \/ Pend(t)
    \/ \E right \in BOOLEAN : Look(t, right)
    \/ Mark(t) \/ HandOver(t) \/ PickUp(t) \/ Earn(t) \/ DropOff(t)
    \/ SaveVerdict(t) \/ RefundCustomer(t) \/ PayRider(t) \/ CloseReturn(t)

Arrive(t) ==
    \/ RequestReturn(t) \/ ApproveReturn(t) \/ RejectReturn(t)
    \/ \E r \in Riders : AcceptPickup(t, r) \/ RejectPickup(t, r)
    \/ \E r \in Riders \cup {NoRider} : AssignPickup(t, r)
    \/ \E ret \in {"return_pickup_assigned", "return_in_transit", "returned"} :
          EditReturn(t, ret)
    \/ \E flow \in {"workflow", "service"} :
          RequestDeliveryCode(t, flow) \/ EnterDeliveryCode(t, flow)
    \/ RequestPickupCode(t) \/ EnterPickupCode(t)
    \/ RequestDropCode(t) \/ EnterDropCode(t)
    \/ \E verdict \in {"qc_passed", "qc_failed"} : Inspect(t, verdict)

Next ==
    \/ \E t \in Threads : Arrive(t) \/ Continue(t) \/ Abandon(t)
    \/ \E n \in DOMAIN codes : Expire(n)

Spec == Init /\ [][Next]_vars
-----------------------------------------------------------------------------
(* Properties.                                                             *)

Redeemed(ty) == \E n \in DOMAIN codes : codes[n].type = ty /\ codes[n].redeemed > 0

\* verifyHandoffOtpAndDeliver delivers (and settles) an order once, however often one
\* code or two codes are submitted at the same time; and unless the return was edited
\* before there was one (the code of its pick-up would do), the order was delivered for
\* the delivery code its customer was given.
DeliveredOnce == delivered <= 1 /\ (edits = 0 /\ ~doc.out => Redeemed("delivery"))

\* As long as no two handlers have overlapped, a code opens one hand-over only,
\* and a new code is the only one of its type that is still open.
CodeUsedOnce ==
    overlaps = 0 => /\ \A n \in DOMAIN codes : codes[n].redeemed <= 1
                    /\ \A ty \in CodeType : Cardinality(Open(codes, ty)) <= 1

\* The goods were handed over twice by code: to the rider and to the seller.
RefundedForGoods ==
    refunds > 0 => Redeemed("return_pickup") /\ Redeemed("return_drop")

\* A handler that overlaps another, and a status set out of its order, costs one refund
\* more at most; without them the customer is refunded once, for goods handed over.
RefundOnce ==
    /\ refunds <= 1 + overlaps + edits
    /\ overlaps = 0 /\ edits = 0 => RefundedForGoods

\* The rider's commission for one return is credited once: completeReturnAndRefund is to
\* credit "only if it wasn't already paid" at the pick-up.
CommissionOnce == overlaps = 0 /\ edits = 0 => commission <= 1

\* A return that passed inspection is being refunded by some handler, unless that
\* handler was lost: nothing else will ever take it up.
PassedIsRefunded ==
    faults = 0 /\ doc.ret = "qc_passed" =>
        \E t \in Threads : thread[t].pc \in {"refund", "pay", "close"}
==============================================================================
