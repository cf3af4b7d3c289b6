---------------------------- MODULE OrderLifecycle ----------------------------
(***************************************************************************)
(* The life of the orders of one checkout group, from placement to         *)
(* delivery or cancellation: orderWorkflowService.js, orderCompensation.js,*)
(* the release half of stockService.js, the fallback job                   *)
(* orderAutoCancelJob.js, the side effects of a captured payment in        *)
(* paymentService.js, and the three controllers that write an order's      *)
(* status directly.                                                        *)
(*                                                                         *)
(* The store is MongoDB: one findOneAndUpdate is one step, and a handler   *)
(* that awaits between two calls is a thread that other threads interleave *)
(* with.  JobThreads run the timeout handlers (the Bull workers and the    *)
(* scheduler's tick, in any number of processes); RequestThreads run HTTP  *)
(* requests.  A clock reading taken just before the update that uses it is *)
(* taken with it; a deadline is the fact that it has passed.               *)
(*                                                                         *)
(* An order document keeps the fields control depends on.  Its items are   *)
(* the set Items, one unit each, all deducted from Product.stock by the    *)
(* placement transaction; what has been added back to Product.stock since  *)
(* is counted per item by released (releaseReservedStockForOrder) and      *)
(* corrected (updateOrderStatus).                                          *)
(***************************************************************************)
EXTENDS OrderStatus, Integers, FiniteSets

CONSTANTS
    Orders,         \* the orders of the checkout group, one per seller
    Items,          \* the lines of an order
    Riders,         \* the delivery partners
    NoRider,        \* deliveryBoy = null
    NoOrder,        \* an idle thread works on no order
    JobThreads,     \* instances of the timeout handlers
    RequestThreads, \* instances of the HTTP handlers
    Modes,          \* payment modes a checkout may use
    Edits,          \* bodies an administrator may PUT to /status/:orderId
    MaxAttempts,    \* DELIVERY_SEARCH_MAX_ATTEMPTS
    AttemptBound,   \* bound: no search window closes after this attempt
    MaxCrashes,     \* bound: handlers abandoned half way
    MaxEdits        \* bound: status edits by an administrator

Keep == "keep"      \* an edit that leaves the status field out

EditBody == [status : LegacyStatuses \cup {Keep}, rider : Riders \cup {NoRider}]

ASSUME AttemptsAssumption ==
    MaxAttempts \in Nat \ {0} /\ AttemptBound \in Nat \ {0}
ASSUME BoundsAssumption == MaxCrashes \in Nat /\ MaxEdits \in Nat
ASSUME ModesAssumption == Modes \subseteq {"COD", "ONLINE"}
ASSUME EditsAssumption == Edits \subseteq EditBody
ASSUME NoValuesAssumption == NoRider \notin Riders /\ NoOrder \notin Orders
ASSUME ThreadsAssumption == JobThreads \cap RequestThreads = {}

VARIABLES
    order,       \* order[o]: the order document
    released,    \* released[o][i]: units given back by compensation
    corrected,   \* corrected[o][i]: units given back by status edits
    group,       \* the CheckoutGroup document
    offered,     \* orders whose broadcast is open on the riders' screens
    paymentOpen, \* a Payment exists that the customer may complete
    thread,      \* thread[t]: what handler t is in the middle of
    crashes,     \* handlers abandoned so far
    edits        \* status edits so far

vars == <<order, released, corrected, group, offered, paymentOpen, thread,
          crashes, edits>>

Threads == JobThreads \cup RequestThreads

\* Where a handler can be between two of its awaits.
PC == {"idle", "seller_timeout", "payment_timeout", "delivery_timeout",
       "compensate", "release", "count_active", "close_group",
       "capture", "move", "broadcast", "retract", "skip", "otp_deliver",
       "correct"}

NoEdit == [status |-> Keep, rider |-> NoRider]

Idle == [pc |-> "idle", o |-> NoOrder, items |-> {}, rest |-> {},
         seen |-> 0, rider |-> NoRider, edit |-> NoEdit]

OrderDoc ==
    [ws : WorkflowStatus, status : LegacyStatuses,
     mode : {"COD", "ONLINE"}, pay : {"DUE", "PAID"},
     stock : {"RESERVED", "COMMITTED", "RELEASED"},
     expired : BOOLEAN, rider : Riders \cup {NoRider},
     skipped : SUBSET Riders, attempt : Nat, escalated : BOOLEAN]

GroupDoc ==
    [status : {"CREATED", "PAYMENT_PENDING", "PAID", "CANCELLED"},
     stock : {"RESERVED", "COMMITTED", "RELEASED"}]

\* A handler past its first read works on an order, a skip for a rider.
ThreadState ==
    {th \in [pc : PC, o : Orders \cup {NoOrder}, items : SUBSET Items,
             rest : SUBSET Orders, seen : Nat, rider : Riders \cup {NoRider},
             edit : EditBody] :
        /\ th.pc \notin {"idle", "capture"} => th.o \in Orders
        /\ th.pc = "skip" => th.rider \in Riders}

TypeOK ==
    /\ order \in [Orders -> OrderDoc]
    /\ released \in [Orders -> [Items -> Nat]]
    /\ corrected \in [Orders -> [Items -> Nat]]
    /\ group \in GroupDoc
    /\ offered \in SUBSET Orders
    /\ paymentOpen \in BOOLEAN
    /\ thread \in [Threads -> ThreadState]
    /\ crashes \in 0 .. MaxCrashes
    /\ edits \in 0 .. MaxEdits
-----------------------------------------------------------------------------
(* What placeOrderAtomic commits: every order of the checkout, its stock   *)
(* deducted, waiting for the seller (COD) or for the payment (ONLINE).     *)

PlacedOrder(mode) ==
    [ws        |-> IF mode = "COD" THEN "SELLER_PENDING" ELSE "CREATED",
     status    |-> "pending",
     mode      |-> mode,
     pay       |-> "DUE",
     stock     |-> IF mode = "ONLINE" THEN "RESERVED" ELSE "COMMITTED",
     expired   |-> FALSE,
     rider     |-> NoRider,
     skipped   |-> {},
     attempt   |-> 0,
     escalated |-> FALSE]

PlacedGroup(mode) ==
    [status |-> IF mode = "ONLINE" THEN "PAYMENT_PENDING" ELSE "CREATED",
     stock  |-> IF mode = "ONLINE" THEN "RESERVED" ELSE "COMMITTED"]

Init ==
    /\ \E mode \in Modes :
          /\ order = [o \in Orders |-> PlacedOrder(mode)]
          /\ group = PlacedGroup(mode)
    /\ released = [o \in Orders |-> [i \in Items |-> 0]]
    /\ corrected = [o \in Orders |-> [i \in Items |-> 0]]
    /\ offered = {}
    /\ paymentOpen = FALSE
    /\ thread = [t \in Threads |-> Idle]
    /\ crashes = 0
    /\ edits = 0
-----------------------------------------------------------------------------
(* Steps of a thread.                                                      *)

At(t, pc) == thread[t].pc = pc

\* An idle thread starts a handler on order o, up to its first await.
Begin(t, pc, o) ==
    /\ At(t, "idle")
    /\ thread' = [thread EXCEPT ![t] = [Idle EXCEPT !.pc = pc, !.o = o]]

Goto(t, pc) == thread' = [thread EXCEPT ![t].pc = pc]

Finish(t) == thread' = [thread EXCEPT ![t] = Idle]

Put(o, doc) == order' = [order EXCEPT ![o] = doc]

\* An order document with its workflow status and legacy status both set.
Moved(o, w) == [order[o] EXCEPT !.ws = w, !.status = LegacyStatus(w)]

Budgets == <<crashes, edits>>
Stock == <<released, corrected>>
-----------------------------------------------------------------------------
(* Deadlines: the payment reservation, the seller's minute, the current    *)
(* search window.  Only the one that belongs to the order's status is read.*)

DeadlinePasses(o) ==
    /\ ~order[o].expired
    /\ \/ order[o].ws \in {"CREATED", "SELLER_PENDING"}
       \/ order[o].ws = "DELIVERY_SEARCH" /\ order[o].attempt < AttemptBound
    /\ Put(o, [order[o] EXCEPT !.expired = TRUE])
    /\ UNCHANGED <<Stock, group, offered, paymentOpen, thread, Budgets>>
-----------------------------------------------------------------------------
(* Payment.                                                                *)

Eligible(o) ==
    /\ order[o].mode = "ONLINE"
    /\ order[o].ws \notin {"CANCELLED", "DELIVERED"}
    /\ order[o].status \notin {"cancelled", "delivered"}
    /\ order[o].pay # "PAID"

\* createPaymentOrderForOrderRef: from here on the customer may pay at any time.
CreatePayment ==
    /\ \A o \in Orders : Eligible(o)
    /\ ~paymentOpen
    /\ paymentOpen' = TRUE
    /\ UNCHANGED <<order, Stock, group, offered, thread, Budgets>>

\* verifyRazorpayPaymentStatus with a valid signature; may be repeated.
VerifyPayment(t) ==
    /\ paymentOpen
    /\ At(t, "idle")
    /\ thread' = [thread EXCEPT ![t] =
                     [Idle EXCEPT !.pc = "capture", !.rest = Orders]]
    /\ UNCHANGED <<order, Stock, group, offered, paymentOpen, Budgets>>

\* Mutated form: the transaction ends without saving the order.
CaptureFinanceUnsaved(t, o) ==
    /\ At(t, "capture")
    /\ o \in thread[t].rest
    /\ thread' = [thread EXCEPT ![t].pc = "move", ![t].o = o,
                                ![t].rest = thread[t].rest \ {o}]
    /\ UNCHANGED <<order, Stock, group, offered, paymentOpen, Budgets>>

\* handleOnlineOrderFinance, one transaction: it does not look at the workflow.
CaptureFinance(t, o) ==
    /\ At(t, "capture")
    /\ o \in thread[t].rest
    /\ Put(o, [order[o] EXCEPT !.pay = "PAID"])
    /\ thread' = [thread EXCEPT ![t].pc = "move", ![t].o = o,
                                ![t].rest = thread[t].rest \ {o}]
    /\ UNCHANGED <<Stock, group, offered, paymentOpen, Budgets>>

\* moveOrderToSellerPendingAfterPayment: a new seller deadline with the move.
CaptureMove(t) ==
    LET o == thread[t].o IN
    /\ At(t, "move")
    /\ Goto(t, "capture")
    /\ IF order[o].ws = "CREATED" /\ order[o].mode = "ONLINE"
       THEN Put(o, [order[o] EXCEPT !.ws = "SELLER_PENDING", !.expired = FALSE])
       ELSE UNCHANGED order
    /\ UNCHANGED <<Stock, group, offered, paymentOpen, Budgets>>

\* updateCheckoutGroupPaymentStatus(CAPTURED), after the last order.
CaptureGroup(t) ==
    /\ At(t, "capture")
    /\ thread[t].rest = {}
    /\ group' = [status |-> "PAID", stock |-> "COMMITTED"]
    /\ Finish(t)
    /\ UNCHANGED <<order, Stock, offered, paymentOpen, Budgets>>
-----------------------------------------------------------------------------
(* The seller and the customer.                                            *)

SellerAccept(o) ==
    /\ order[o].ws = "SELLER_PENDING"
    /\ ~order[o].expired
    /\ order[o].mode # "ONLINE" \/ order[o].pay = "PAID"
    /\ Put(o, Moved(o, "SELLER_ACCEPTED"))
    /\ UNCHANGED <<Stock, group, offered, paymentOpen, thread, Budgets>>

SellerReject(t, o) ==
    /\ order[o].ws = "SELLER_PENDING"
    /\ ~order[o].expired
    /\ Put(o, Moved(o, "CANCELLED"))
    /\ Begin(t, "compensate", o)
    /\ UNCHANGED <<Stock, group, offered, paymentOpen, Budgets>>

CustomerCancel(t, o) ==
    /\ order[o].ws = "SELLER_PENDING"
    /\ Put(o, Moved(o, "CANCELLED"))
    /\ Begin(t, "compensate", o)
    /\ UNCHANGED <<Stock, group, offered, paymentOpen, Budgets>>

\* processToDeliveryAtomic up to its last await; Broadcast is the rest.
ProcessToDelivery(t, o) ==
    /\ order[o].ws = "SELLER_ACCEPTED"
    /\ Put(o, [Moved(o, "DELIVERY_SEARCH") EXCEPT !.expired = FALSE,
                                                  !.attempt = 1])
    /\ Begin(t, "broadcast", o)
    /\ UNCHANGED <<Stock, group, offered, paymentOpen, Budgets>>
-----------------------------------------------------------------------------
(* Timeouts: read the order, and only then update it.                      *)

\* Mutated form: only orders whose stock is still reserved are looked at.
SellerTimeoutReadReserved(t, o) ==
    /\ order[o].ws = "SELLER_PENDING"
    /\ order[o].expired
    /\ order[o].stock = "RESERVED"
    /\ Begin(t, "seller_timeout", o)
    /\ UNCHANGED <<order, Stock, group, offered, paymentOpen, Budgets>>

SellerTimeoutRead(t, o) ==
    /\ order[o].ws = "SELLER_PENDING"
    /\ order[o].expired
    /\ Begin(t, "seller_timeout", o)
    /\ UNCHANGED <<order, Stock, group, offered, paymentOpen, Budgets>>

\* Mutated form: the update has lost the status from its filter.
SellerTimeoutCancelBlind(t) ==
    LET o == thread[t].o IN
    /\ At(t, "seller_timeout")
    /\ Put(o, Moved(o, "CANCELLED"))
    /\ Goto(t, "compensate")
    /\ UNCHANGED <<Stock, group, offered, paymentOpen, Budgets>>

\* The update's filter: the status alone, the deadline is not checked again.
SellerTimeoutCancel(t) ==
    LET o == thread[t].o IN
    /\ At(t, "seller_timeout")
    /\ IF order[o].ws = "SELLER_PENDING"
       THEN Put(o, Moved(o, "CANCELLED")) /\ Goto(t, "compensate")
       ELSE UNCHANGED order /\ Finish(t)
    /\ UNCHANGED <<Stock, group, offered, paymentOpen, Budgets>>

PaymentTimeoutFind(t, o) ==
    /\ order[o].ws = "CREATED"
    /\ order[o].mode = "ONLINE"
    /\ order[o].pay # "PAID"
    /\ order[o].stock # "RELEASED"
    /\ order[o].expired
    /\ Begin(t, "payment_timeout", o)
    /\ UNCHANGED <<order, Stock, group, offered, paymentOpen, Budgets>>

\* Mutated form: the update has lost the payment from its filter.
PaymentTimeoutCancelPaid(t) ==
    LET o == thread[t].o IN
    /\ At(t, "payment_timeout")
    /\ IF order[o].ws = "CREATED"
       THEN Put(o, Moved(o, "CANCELLED")) /\ Goto(t, "compensate")
       ELSE UNCHANGED order /\ Finish(t)
    /\ UNCHANGED <<Stock, group, offered, paymentOpen, Budgets>>

PaymentTimeoutCancel(t) ==
    LET o == thread[t].o IN
    /\ At(t, "payment_timeout")
    /\ IF order[o].ws = "CREATED" /\ order[o].pay # "PAID"
       THEN Put(o, Moved(o, "CANCELLED")) /\ Goto(t, "compensate")
       ELSE UNCHANGED order /\ Finish(t)
    /\ UNCHANGED <<Stock, group, offered, paymentOpen, Budgets>>

DeliveryTimeoutRead(t, o) ==
    /\ order[o].ws = "DELIVERY_SEARCH"
    /\ order[o].expired
    /\ At(t, "idle")
    /\ thread' = [thread EXCEPT ![t] =
                     [Idle EXCEPT !.pc = "delivery_timeout", !.o = o,
                                  !.seen = order[o].attempt]]
    /\ UNCHANGED <<order, Stock, group, offered, paymentOpen, Budgets>>

\* The next ring, from the attempt read before; the update's outcome is unused.
WidenSearch(t) ==
    LET o == thread[t].o IN
    /\ At(t, "delivery_timeout")
    /\ thread[t].seen < MaxAttempts
    /\ IF order[o].ws = "DELIVERY_SEARCH"
       THEN Put(o, [order[o] EXCEPT !.expired = FALSE,
                                    !.attempt = thread[t].seen + 1])
       ELSE UNCHANGED order
    /\ Goto(t, "broadcast")
    /\ UNCHANGED <<Stock, group, offered, paymentOpen, Budgets>>

\* Mutated form: an escalated order gets no new window.
EscalateSearchOnce(t) ==
    LET o == thread[t].o IN
    /\ At(t, "delivery_timeout")
    /\ thread[t].seen >= MaxAttempts
    /\ IF order[o].ws = "DELIVERY_SEARCH"
       THEN /\ Put(o, [order[o] EXCEPT !.escalated = TRUE])
            /\ Goto(t, "broadcast")
       ELSE UNCHANGED order /\ Finish(t)
    /\ UNCHANGED <<Stock, group, offered, paymentOpen, Budgets>>

\* Past the last ring the order is escalated and the search goes on.
EscalateSearch(t) ==
    LET o == thread[t].o IN
    /\ At(t, "delivery_timeout")
    /\ thread[t].seen >= MaxAttempts
    /\ IF order[o].ws = "DELIVERY_SEARCH"
       THEN /\ Put(o, [order[o] EXCEPT !.expired = FALSE, !.escalated = TRUE,
                                       !.attempt = thread[t].seen + 1])
            /\ Goto(t, "broadcast")
       ELSE UNCHANGED order /\ Finish(t)
    /\ UNCHANGED <<Stock, group, offered, paymentOpen, Budgets>>

\* emitDeliveryBroadcastForSeller: sent without another look at the status.
Broadcast(t) ==
    /\ At(t, "broadcast")
    /\ offered' = offered \cup {thread[t].o}
    /\ Finish(t)
    /\ UNCHANGED <<order, Stock, group, paymentOpen, Budgets>>
-----------------------------------------------------------------------------
(* compensateOrderCancellation, after the update that cancelled the order. *)

\* Mutated form: a committed reservation counts as nothing to release.
CompensateReadCommitted(t) ==
    LET o == thread[t].o IN
    /\ At(t, "compensate")
    /\ thread' = IF order[o].stock # "RESERVED"
                 THEN [thread EXCEPT ![t].pc = "count_active"]
                 ELSE [thread EXCEPT ![t].pc = "release", ![t].items = Items]
    /\ UNCHANGED <<order, Stock, group, offered, paymentOpen, Budgets>>

CompensateRead(t) ==
    LET o == thread[t].o IN
    /\ At(t, "compensate")
    /\ thread' = IF order[o].stock = "RELEASED"
                 THEN [thread EXCEPT ![t].pc = "count_active"]
                 ELSE [thread EXCEPT ![t].pc = "release", ![t].items = Items]
    /\ UNCHANGED <<order, Stock, group, offered, paymentOpen, Budgets>>

ReleaseItem(t, i) ==
    /\ At(t, "release")
    /\ i \in thread[t].items
    /\ released' = [released EXCEPT ![thread[t].o][i] = @ + 1]
    /\ thread' = [thread EXCEPT ![t].items = thread[t].items \ {i}]
    /\ UNCHANGED <<order, corrected, group, offered, paymentOpen, Budgets>>

\* Mutated form: the save does not wait for the items.
CompensateSaveEarly(t) ==
    LET o == thread[t].o IN
    /\ At(t, "release")
    /\ Put(o, [order[o] EXCEPT !.stock = "RELEASED"])
    /\ Goto(t, "count_active")
    /\ UNCHANGED <<Stock, group, offered, paymentOpen, Budgets>>

\* existing.save(): the reservation becomes RELEASED only after the items.
CompensateSave(t) ==
    LET o == thread[t].o IN
    /\ At(t, "release")
    /\ thread[t].items = {}
    /\ Put(o, [order[o] EXCEPT !.stock = "RELEASED"])
    /\ Goto(t, "count_active")
    /\ UNCHANGED <<Stock, group, offered, paymentOpen, Budgets>>

\* Mutated form: orders past the seller's answer are not counted.
ActivePending == {o \in Orders : order[o].status = "pending"}

Active == {o \in Orders : order[o].status # "cancelled" /\ order[o].ws # "CANCELLED"}

CountActive(t) ==
    /\ At(t, "count_active")
    /\ IF Active = {} THEN Goto(t, "close_group") ELSE Finish(t)
    /\ UNCHANGED <<order, Stock, group, offered, paymentOpen, Budgets>>

CloseGroup(t) ==
    /\ At(t, "close_group")
    /\ group' = [status |-> "CANCELLED", stock |-> "RELEASED"]
    /\ Finish(t)
    /\ UNCHANGED <<order, Stock, offered, paymentOpen, Budgets>>
-----------------------------------------------------------------------------
(* The rider.                                                              *)

\* Mutated form: an order that has its rider may be accepted again.
DeliveryAcceptTaken(t, o, r) ==
    /\ order[o].ws \in {"DELIVERY_SEARCH", "DELIVERY_ASSIGNED"}
    /\ ~order[o].expired
    /\ r \notin order[o].skipped
    /\ Put(o, [Moved(o, "DELIVERY_ASSIGNED") EXCEPT !.rider = r])
    /\ Begin(t, "retract", o)
    /\ UNCHANGED <<Stock, group, offered, paymentOpen, Budgets>>

\* deliveryAcceptAtomic up to its update; RetractOffer is the rest.
DeliveryAccept(t, o, r) ==
    /\ order[o].ws = "DELIVERY_SEARCH"
    /\ order[o].rider = NoRider
    /\ ~order[o].expired
    /\ r \notin order[o].skipped
    /\ Put(o, [Moved(o, "DELIVERY_ASSIGNED") EXCEPT !.rider = r])
    /\ Begin(t, "retract", o)
    /\ UNCHANGED <<Stock, group, offered, paymentOpen, Budgets>>

RetractOffer(t) ==
    /\ At(t, "retract")
    /\ offered' = offered \ {thread[t].o}
    /\ Finish(t)
    /\ UNCHANGED <<order, Stock, group, paymentOpen, Budgets>>

SkipRead(t, o, r) ==
    /\ order[o].ws = "DELIVERY_SEARCH"
    /\ r \notin order[o].skipped
    /\ At(t, "idle")
    /\ thread' = [thread EXCEPT ![t] =
                     [Idle EXCEPT !.pc = "skip", !.o = o, !.rider = r]]
    /\ UNCHANGED <<order, Stock, group, offered, paymentOpen, Budgets>>

SkipSave(t) ==
    LET o == thread[t].o IN
    /\ At(t, "skip")
    /\ Put(o, [order[o] EXCEPT !.skipped = @ \cup {thread[t].rider}])
    /\ Finish(t)
    /\ UNCHANGED <<Stock, group, offered, paymentOpen, Budgets>>

\* Each of the next three reads first, but its update repeats the whole guard.
MarkArrivedAtStore(o) ==
    /\ order[o].ws = "DELIVERY_ASSIGNED"
    /\ order[o].rider # NoRider
    /\ Put(o, Moved(o, "PICKUP_READY"))
    /\ UNCHANGED <<Stock, group, offered, paymentOpen, thread, Budgets>>

ConfirmPickup(o) ==
    /\ order[o].ws \in {"DELIVERY_ASSIGNED", "PICKUP_READY"}
    /\ order[o].rider # NoRider
    /\ Put(o, Moved(o, "OUT_FOR_DELIVERY"))
    /\ UNCHANGED <<Stock, group, offered, paymentOpen, thread, Budgets>>

VerifyHandoffOtp(o) ==
    /\ order[o].ws = "OUT_FOR_DELIVERY"
    /\ order[o].rider # NoRider
    /\ Put(o, Moved(o, "DELIVERED"))
    /\ UNCHANGED <<Stock, group, offered, paymentOpen, thread, Budgets>>

\* validateDeliveryOtp of deliveryController: the rider holds a valid code ...
OtpEndpointRead(t, o) ==
    /\ order[o].rider # NoRider
    /\ Begin(t, "otp_deliver", o)
    /\ UNCHANGED <<order, Stock, group, offered, paymentOpen, Budgets>>

\* ... and the order is delivered whatever its status is by now.
OtpEndpointDeliver(t) ==
    LET o == thread[t].o IN
    /\ At(t, "otp_deliver")
    /\ Put(o, Moved(o, "DELIVERED"))
    /\ Finish(t)
    /\ UNCHANGED <<Stock, group, offered, paymentOpen, Budgets>>
-----------------------------------------------------------------------------
(* updateOrderStatus by an administrator: it writes the legacy status and  *)
(* the rider, never the workflow status or the reservation.                *)

\* A field set to the value already read is not written by save().
ChangesOf(e, doc) ==
    [status |-> IF e.status = doc.status THEN Keep ELSE e.status,
     rider  |-> IF e.rider = doc.rider THEN NoRider ELSE e.rider]

EditRead(t, o, e) ==
    /\ edits < MaxEdits
    /\ At(t, "idle")
    /\ thread' = [thread EXCEPT ![t] =
          [Idle EXCEPT
              !.pc = "correct", !.o = o, !.edit = ChangesOf(e, order[o]),
              !.items = IF e.status = "cancelled" /\ order[o].status # "cancelled"
                        THEN Items ELSE {}]]
    /\ edits' = edits + 1
    /\ UNCHANGED <<order, Stock, group, offered, paymentOpen, crashes>>

CorrectItem(t, i) ==
    /\ At(t, "correct")
    /\ i \in thread[t].items
    /\ corrected' = [corrected EXCEPT ![thread[t].o][i] = @ + 1]
    /\ thread' = [thread EXCEPT ![t].items = thread[t].items \ {i}]
    /\ UNCHANGED <<order, released, group, offered, paymentOpen, Budgets>>

EditSave(t) ==
    LET o == thread[t].o
        e == thread[t].edit
    IN
    /\ At(t, "correct")
    /\ thread[t].items = {}
    /\ Put(o, [order[o] EXCEPT
                 !.status = IF e.status = Keep THEN @ ELSE e.status,
                 !.rider  = IF e.rider = NoRider THEN @ ELSE e.rider])
    /\ Finish(t)
    /\ UNCHANGED <<Stock, group, offered, paymentOpen, Budgets>>
-----------------------------------------------------------------------------
\* The process dies, or a call of the handler throws: the rest is never run.
Crash(t) ==
    /\ crashes < MaxCrashes
    /\ ~At(t, "idle")
    /\ Finish(t)
    /\ crashes' = crashes + 1
    /\ UNCHANGED <<order, Stock, group, offered, paymentOpen, edits>>

\* What a job starts by itself, and what any started handler goes on to do.
JobStart(t, o) ==
    \/ SellerTimeoutRead(t, o)
    \/ PaymentTimeoutFind(t, o)
    \/ DeliveryTimeoutRead(t, o)

Continue(t) ==
    \/ SellerTimeoutCancel(t) \/ PaymentTimeoutCancel(t)
    \/ WidenSearch(t) \/ EscalateSearch(t) \/ Broadcast(t)
    \/ CompensateRead(t) \/ CompensateSave(t)
    \/ CountActive(t) \/ CloseGroup(t)
    \/ \E i \in Items : ReleaseItem(t, i) \/ CorrectItem(t, i)
    \/ \E o \in Orders : CaptureFinance(t, o)
    \/ CaptureMove(t) \/ CaptureGroup(t)
    \/ RetractOffer(t) \/ SkipSave(t) \/ OtpEndpointDeliver(t) \/ EditSave(t)

\* What people send: the first step of a request.
Request(t, o) ==
    \/ SellerReject(t, o) \/ CustomerCancel(t, o) \/ ProcessToDelivery(t, o)
    \/ \E r \in Riders : DeliveryAccept(t, o, r) \/ SkipRead(t, o, r)
    \/ OtpEndpointRead(t, o)
    \/ \E e \in Edits : EditRead(t, o, e)

OneStepRequest(o) ==
    \/ SellerAccept(o) \/ MarkArrivedAtStore(o)
    \/ ConfirmPickup(o) \/ VerifyHandoffOtp(o)

Next ==
    \/ CreatePayment
    \/ \E o \in Orders : DeadlinePasses(o) \/ OneStepRequest(o)
    \/ \E t \in RequestThreads : VerifyPayment(t)
    \/ \E t \in RequestThreads, o \in Orders : Request(t, o)
    \/ \E t \in JobThreads, o \in Orders : JobStart(t, o)
    \/ \E t \in Threads : Continue(t) \/ Crash(t)

Spec == Init /\ [][Next]_vars

(* Time passes, a tick of the job visits every expired order, and a        *)
(* started handler goes on.  Nobody has to send a request.                 *)
Fairness ==
    /\ \A o \in Orders :
          /\ WF_vars(DeadlinePasses(o))
          /\ WF_vars(\E t \in JobThreads : JobStart(t, o))
    /\ \A t \in Threads : WF_vars(Continue(t))

FairSpec == Spec /\ Fairness
-----------------------------------------------------------------------------
(* Properties.                                                             *)

\* Compensation gives each unit of an order back at most once, whichever of
\* the four cancelling handlers won and whichever of them died half way
\* (releaseReservedStockForOrder has no guard of its own against a second run).
ReleaseOnce == \A o \in Orders, i \in Items : released[o][i] <= 1

\* No unit of an order that is still being prepared or carried is back on
\* sale: a late timeout or a racing cancel never compensates a live order.
GoodsGivenBackNotLive ==
    \A o \in Orders : order[o].ws \in LiveStatus =>
        \A i \in Items : released[o][i] = 0

\* stockReservation.status = RELEASED is never ahead of the stock itself: it
\* is what later compensations trust instead of looking at the products.
ReservationHonest ==
    \A o \in Orders : order[o].stock = "RELEASED" =>
        \A i \in Items : released[o][i] > 0

\* An ONLINE order the seller can see and work on has been paid, though the
\* payment and the move to the seller are two separate writes.
PaidBeforeSeller ==
    \A o \in Orders :
        order[o].mode = "ONLINE" /\ order[o].ws \in LiveStatus \ {"CREATED"} =>
            order[o].pay = "PAID"

\* What makes the first three hold, whatever is interleaved with what: which
\* thread may still give units of an order back, and how far it has come.
Compensating(t, o) ==
    thread[t].pc \in {"compensate", "release"} /\ thread[t].o = o

CompensationInv ==
    /\ \A t \in Threads, o \in Orders : Compensating(t, o) =>
          /\ order[o].ws \notin LiveStatus
          /\ \A u \in Threads : Compensating(u, o) => u = t
          /\ \A i \in Items :
                released[o][i] = IF At(t, "release") /\ i \notin thread[t].items
                                 THEN 1 ELSE 0
    /\ ReleaseOnce
    /\ GoodsGivenBackNotLive
    /\ ReservationHonest

\* What makes the fourth hold: a capture moves an order only once it is paid.
PaymentInv ==
    /\ \A t \in Threads, o \in Orders :
          At(t, "move") /\ thread[t].o = o => order[o].pay = "PAID"
    /\ PaidBeforeSeller

\* While no administrator edits a status, a checkout group marked CANCELLED
\* has no order left alive (compensation counts, and only later writes).
GroupCancelledOnlyWhenDead ==
    edits = 0 /\ group.status = "CANCELLED" =>
        \A o \in Orders : order[o].ws = "CANCELLED"

\* "First delivery partner to accept wins": once an order has a rider no other
\* accept, skip or timeout replaces or removes him.
FirstRiderKeeps ==
    [][\A o \in Orders :
          order[o].rider # NoRider => order'[o].rider = order[o].rider]_vars

\* A waiting order does not wait for ever: the seller's answer, the customer's
\* cancel or the timeout moves it on, and an unpaid ONLINE order is paid or cancelled
\* in the end, also when a handler dies half way.
Answered ==
    \A o \in Orders :
        /\ order[o].ws = "SELLER_PENDING" ~> order[o].ws # "SELLER_PENDING"
        /\ order[o].mode = "ONLINE" /\ order[o].ws = "CREATED"
               ~> order[o].ws # "CREATED" \/ order[o].pay = "PAID"

\* A search window that closed is opened again ("keep searching infinitely until
\* admin intervenes or a driver accepts"), and the order is put in front of the
\* riders, also when the handler that should do it dies: the next timeout does.
SearchGoesOn ==
    \A o \in Orders :
        /\ order[o].ws = "DELIVERY_SEARCH" /\ order[o].expired
               ~> order[o].ws # "DELIVERY_SEARCH" \/ ~order[o].expired
        /\ order[o].ws = "DELIVERY_SEARCH"
               ~> order[o].ws # "DELIVERY_SEARCH" \/ o \in offered

\* A payment recorded for an order that still waits for it brings the order to its
\* seller: the payment timeout, which may have found it unpaid, does not cancel it in
\* between, and no handler is cut off half way.  (One recorded for an order already
\* cancelled is the business of PaymentCapture.)
PaidOrderReachesSeller ==
    \A o \in Orders :
        order[o].pay = "PAID" /\ order[o].ws = "CREATED"
            ~> order[o].ws \in LiveStatus \ {"CREATED"} \/ crashes > 0

\* "Reverse stock ... when an order is cancelled": every unit comes back, if no
\* handler is cut off half way (nothing looks at a cancelled order again).
StockReturned ==
    \A o \in Orders :
        order[o].ws = "CANCELLED"
            ~> (\A i \in Items : released[o][i] > 0) \/ crashes > 0
=============================================================================
