----------------------------- MODULE ReturnsProofs -----------------------------
(***************************************************************************)
(* For every set of handlers and riders, and however often a code may be   *)
(* tried: the types, and the properties of Returns.                        *)
(*                                                                         *)
(* The invariant has four parts: what always holds (HandlerOK, Passed-     *)
(* IsRefunded), what holds until a return's status is edited (DoorInv),    *)
(* until two handlers overlap (AloneInv), and until either (BackInv).      *)
(***************************************************************************)
EXTENDS Returns, FiniteSetTheorems, SequenceTheorems, TLAPS

Pickup == "return_pickup"
Drop == "return_drop"

Moving == {"return_in_transit", "return_drop_pending"}
Back == {"returned", "qc_passed", "qc_failed", "refund_completed"}

Live == DOMAIN codes \ Gone(codes)

\* What is known of a handler whatever the others do.
HandlerOK(th) ==
    /\ th.flow = "workflow" => th.type = "delivery"
    /\ th.pc = "mark" => /\ th.n \in DOMAIN codes
                         /\ th.flow = "service" => codes[th.n].type = th.type
    /\ th.pc \in {"save", "verdict"} => th.want.out = th.snap.out
    /\ th.pc = "save" => th.want.ret # "qc_passed"
    /\ th.pc = "verdict" => /\ th.want.ret \in {"qc_passed", "qc_failed"}
                            /\ th.snap.ret = "returned"

HandlersOK == \A t \in Threads : HandlerOK(thread[t])

\* A handler that exists only because the order was delivered,
Returning(th) ==
    \/ th.pc \in {"save", "verdict", "refund", "pay", "close", "earn", "pend"}
    \/ th.pc \in {"invalidate", "insert", "mark", "handOver"} /\ th.type # "delivery"

\* and one that delivers it.
Delivering(th) == th.pc = "handOver" /\ th.type = "delivery"

\* As long as no return was edited.
DoorInv ==
    /\ doc.ret # "none" => ~doc.out
    /\ \A n \in DOMAIN codes : codes[n].type # "delivery" => ~doc.out
    /\ \A t \in Threads : Returning(thread[t]) => ~doc.out
    /\ \A t \in Threads : Delivering(thread[t]) => Redeemed("delivery")
    /\ ~doc.out => Redeemed("delivery")

\* The codes, while one handler runs at a time.
CodesOnce ==
    /\ \A n \in DOMAIN codes :
           codes[n].redeemed > 0 => codes[n].redeemed = 1 /\ codes[n].state = "consumed"
    /\ \A n, m \in Live : codes[n].type = codes[m].type => n = m

AloneOK(th) ==
    /\ th.pc = "insert" => \A n \in Live : codes[n].type # th.type
    /\ th.pc = "mark" => th.n \in Live

AloneInv ==
    /\ \A t, u \in Threads : Busy(t) /\ Busy(u) => t = u
    /\ CodesOnce
    /\ \A t \in Threads : AloneOK(thread[t])

\* How far the return is, and what follows from it.
StageInv ==
    /\ \A n \in Live : /\ codes[n].type = Pickup => doc.ret \in Early
                       /\ codes[n].type = Drop => doc.ret \in Moving
    /\ doc.ret \notin Early => Redeemed(Pickup)
    /\ doc.ret \in Back => Redeemed(Drop)
    /\ refunds <= 1
    /\ refunds = 1 => doc.ret \in {"qc_passed", "refund_completed"}

StageOK(th) ==
    /\ th.pc = "save" =>
           th.snap = doc /\ doc.ret \in Early /\ th.want.ret \in Early
    /\ th.pc \in {"invalidate", "insert"} =>
           /\ th.type = Pickup => doc.ret \in Early
           /\ th.type = Drop => doc.ret \in Moving
    /\ th.pc = "pend" => doc.ret \in Moving
    /\ th.pc \in {"look", "mark", "handOver"} /\ th.type = Drop => th.snap = doc
    /\ th.pc = "handOver" =>
           /\ \A n \in Live : th.type # "delivery" => codes[n].type # th.type
           /\ th.type = Pickup => doc.ret \in Early /\ Redeemed(Pickup)
           /\ th.type = Drop => doc.ret \in Moving /\ Redeemed(Drop)
    /\ th.pc = "verdict" => th.snap = doc /\ doc.ret = "returned"
    /\ th.pc \in {"refund", "pay", "close"} => doc.ret = "qc_passed"
    /\ th.pc = "refund" => refunds = 0
    /\ th.pc = "pay" => refunds = 1

BackInv == StageInv /\ \A t \in Threads : StageOK(thread[t])

ReturnsInv ==
    /\ TypeOK
    /\ HandlersOK
    /\ PassedIsRefunded
    /\ delivered <= 1 /\ (delivered = 1 => ~doc.out)
    /\ edits = 0 => DoorInv
    /\ overlaps = 0 => AloneInv
    /\ overlaps = 0 /\ edits = 0 => BackInv
-----------------------------------------------------------------------------
(* The records of the codes.                                               *)

Below == {p \in Nat \X Nat : p[1] < p[2]}

LEMMA BelowWellFounded == IsWellFoundedOn(Below, Nat)
<1>1. Below = OpToRel(<, Nat)
  BY DEF Below, OpToRel
<1> QED BY <1>1, NatLessThanWellFounded

\* The newest of some records is one of them.
LEMMA NewestIsOne ==
    ASSUME NEW k \in Nat, NEW ns, ns \subseteq 1 .. k, Newest(ns) # 0
    PROVE  Newest(ns) \in ns
<1> DEFINE T == {k - n : n \in ns}
<1>1. T \subseteq Nat /\ ns # {}
  BY DEF Newest
<1>2. T # {}
  BY <1>1
<1>3. PICK x \in T : \A y \in T : ~ (<<y, x>> \in Below)
  <2> HIDE DEF T
  <2> QED BY <1>1, <1>2, BelowWellFounded, WFMin
<1>4. PICK m \in ns : x = k - m
  BY <1>3
<1>5. ASSUME NEW n \in ns PROVE m >= n
  <2>1. k - n \in T /\ k - n \in Nat /\ x \in Nat
    BY <1>1, <1>3
  <2>2. ~ (k - n < x)
    <3> HIDE DEF T
    <3> QED BY <2>1, <1>3 DEF Below
  <2> QED BY <2>2, <1>4
<1>6. \E z \in ns : \A n \in ns : z >= n
  BY <1>5
<1> QED BY <1>1, <1>6 DEF Newest, Max

LEMMA CodesAre ==
    ASSUME NEW cs \in Seq(Code)
    PROVE  /\ Len(cs) \in Nat
           /\ DOMAIN cs = 1 .. Len(cs)
           /\ \A n \in DOMAIN cs : cs[n] \in Code
BY LenProperties, ElementOfSeq

\* A function on the places of a sequence of codes is one.
LEMMA CodesFrom ==
    ASSUME NEW k \in Nat, NEW cs \in [1 .. k -> Code]
    PROVE  cs \in Seq(Code)
BY SeqDef

LEMMA AppendedCode ==
    ASSUME NEW cs \in Seq(Code), NEW ty \in CodeType
    PROVE  LET new == Append(cs, Fresh(ty))
           IN  /\ new \in Seq(Code)
               /\ DOMAIN cs \subseteq DOMAIN new
               /\ \A n \in DOMAIN cs : new[n] = cs[n]
               /\ \A n \in DOMAIN new \ DOMAIN cs : new[n] = Fresh(ty)
<1>1. Fresh(ty) \in Code
  BY DEF Fresh, Code
<1> QED BY <1>1, CodesAre, AppendProperties

\* What an invalidation leaves of a record.
LEMMA InvalidatedCodes ==
    ASSUME NEW cs \in Seq(Code), NEW types, NEW st \in {"consumed", "deleted"}
    PROVE  LET new == Invalidated(cs, types, st)
           IN  /\ new \in Seq(Code)
               /\ DOMAIN new = DOMAIN cs
               /\ \A n \in DOMAIN cs :
                      /\ new[n].type = cs[n].type /\ new[n].redeemed = cs[n].redeemed
                      /\ n \in Gone(cs) => new[n] = cs[n]
                      /\ new[n].type \in types => n \in Gone(new)
<1> DEFINE new == Invalidated(cs, types, st)
<1>1. Len(cs) \in Nat /\ DOMAIN cs = 1 .. Len(cs) /\ \A n \in DOMAIN cs : cs[n] \in Code
  BY CodesAre
<1>2. DOMAIN new = DOMAIN cs
  BY DEF Invalidated
<1>3. ASSUME NEW n \in DOMAIN cs
      PROVE  /\ new[n] \in Code
             /\ new[n].type = cs[n].type /\ new[n].redeemed = cs[n].redeemed
             /\ n \in Gone(cs) => new[n] = cs[n]
             /\ new[n].type \in types => new[n].state \in {"consumed", "deleted"}
  BY <1>1 DEF Invalidated, Gone, Code
<1>4. new \in [1 .. Len(cs) -> Code]
  BY <1>1, <1>2, <1>3 DEF Invalidated
<1>5. new \in Seq(Code)
  BY <1>1, <1>4, CodesFrom
<1>6. \A n \in DOMAIN cs : new[n].type \in types => n \in Gone(new)
  BY <1>2, <1>3 DEF Gone
<1> QED BY <1>2, <1>3, <1>5, <1>6

LEMMA ReplacedCode ==
    ASSUME NEW cs \in Seq(Code), NEW k \in DOMAIN cs, NEW c \in Code
    PROVE  LET new == [cs EXCEPT ![k] = c]
           IN  /\ new \in Seq(Code)
               /\ DOMAIN new = DOMAIN cs
               /\ \A n \in DOMAIN cs : new[n] = IF n = k THEN c ELSE cs[n]
BY CodesAre, ExceptSeq
-----------------------------------------------------------------------------
(* Handlers.                                                               *)

LEMMA IdleTyped ==
    /\ Idle \in ThreadState
    /\ Idle.pc = "idle" /\ Idle.snap = Door /\ Idle.flow = "service"
    /\ Idle.type = "delivery"
    /\ Door \in Doc
<1>1. Door \in Doc
  BY DEF Door, Doc, ReturnStatus
<1> QED BY <1>1 DEF Idle, ThreadState, PC, CodeType

\* Handler t becomes th, and the others do not move.
Moves(t, th) ==
    /\ th \in ThreadState
    /\ thread' \in [Threads -> ThreadState]
    /\ thread'[t] = th
    /\ \A u \in Threads : u # t => thread'[u] = thread[u]

LEMMA Assigned ==
    ASSUME TypeOK, NEW t \in Threads, NEW th \in ThreadState,
           thread' = [thread EXCEPT ![t] = th]
    PROVE  Moves(t, th)
BY DEF TypeOK, Moves

LEMMA Finished ==
    ASSUME TypeOK, NEW t \in Threads, Finish(t)
    PROVE  \E th : Moves(t, th) /\ th.pc = "idle" /\ th.flow = "service"
<1>1. PICK th \in ThreadState : th = Idle
  BY IdleTyped
<1>2. thread' = [thread EXCEPT ![t] = th]
  BY <1>1 DEF Finish
<1> QED BY <1>1, <1>2, Assigned, IdleTyped

LEMMA WentOn ==
    ASSUME TypeOK, NEW t \in Threads, NEW pc \in PC, Goto(t, pc)
    PROVE  \E th : /\ Moves(t, th) /\ th.pc = pc
                   /\ th.snap = thread[t].snap /\ th.want = thread[t].want
                   /\ th.type = thread[t].type /\ th.flow = thread[t].flow
                   /\ th.n = thread[t].n
<1>1. PICK old \in ThreadState : old = thread[t]
  BY DEF TypeOK
<1>2. PICK th : th = [old EXCEPT !.pc = pc]
  OBVIOUS
<1>3. /\ th \in ThreadState /\ th.pc = pc
      /\ th.snap = old.snap /\ th.want = old.want
      /\ th.type = old.type /\ th.flow = old.flow /\ th.n = old.n
  BY <1>1, <1>2 DEF ThreadState
<1>4. thread' = [thread EXCEPT ![t] = th]
  BY <1>1, <1>2 DEF Goto
<1> QED BY <1>1, <1>3, <1>4, Assigned

\* What saving a document makes of the order.
LEMMA SavedDoc ==
    ASSUME doc \in Doc, NEW snap \in Doc, NEW want \in Doc
    PROVE  /\ Saved(snap, want) \in Doc
           /\ want.out = snap.out => Saved(snap, want).out = doc.out
           /\ Saved(snap, want).ret = IF want.ret = snap.ret THEN doc.ret ELSE want.ret
           /\ snap = doc => Saved(snap, want).ret = want.ret
BY DEF Saved, Doc
-----------------------------------------------------------------------------
(* Handlers that begin.                                                    *)

\* What a handler that begins knows, by what it checked.
Began(th) ==
    /\ th.pc \in {"save", "invalidate", "look", "verdict"}
    /\ HandlerOK(th)
    /\ edits' = 0 /\ Returning(th) => ~doc.out \/ doc.ret # "none"
    /\ edits' = 0 => StageOK(th)

Arrived(t, th) ==
    /\ Moves(t, th) /\ At(t, "idle")
    /\ UNCHANGED <<doc, codes, Counts, faults>>
    /\ edits' \in edits .. MaxEdits
    /\ overlaps' \in overlaps .. MaxOverlaps
    /\ overlaps' = 0 => \A u \in Threads : ~Busy(u)
    /\ Began(th)

LEMMA Started ==
    ASSUME TypeOK, NEW t \in Threads, NEW th \in ThreadState, Start(t, th),
           UNCHANGED <<doc, codes, Counts, faults>>, edits' \in edits .. MaxEdits,
           Began(th)
    PROVE  Arrived(t, th)
<1>1. overlaps' \in overlaps .. MaxOverlaps
  BY BoundsAssumption DEF TypeOK, Start
<1>2. overlaps' = 0 => \A u \in Threads : ~Busy(u)
  BY DEF TypeOK, Start
<1> QED BY <1>1, <1>2, Assigned DEF Start, Arrived

\* A handler that is to save the status ret.
LEMMA DecideArrives ==
    ASSUME TypeOK, NEW t \in Threads, NEW want \in Doc, Decide(t, want),
           want.out = doc.out, want.ret \in Early, doc.ret \in Early,
           ~doc.out \/ doc.ret # "none"
    PROVE  \E th : Arrived(t, th)
<1>1. PICK th : th = [Idle EXCEPT !.pc = "save", !.snap = doc, !.want = want]
  OBVIOUS
<1>2. /\ th \in ThreadState /\ th.pc = "save" /\ th.snap = doc /\ th.want = want
      /\ th.flow = "service"
  BY <1>1, IdleTyped DEF ThreadState, TypeOK, PC
<1>3. Began(th)
  BY <1>2 DEF Began, HandlerOK, StageOK, Early
<1>4. Start(t, th) /\ edits' \in edits .. MaxEdits /\ UNCHANGED <<doc, codes, Counts, faults>>
  BY <1>1 DEF Decide, Bounds, TypeOK
<1> QED BY <1>2, <1>3, <1>4, Started

LEMMA ReturnArrivals ==
    ASSUME TypeOK, NEW t \in Threads,
           \/ RequestReturn(t) \/ ApproveReturn(t) \/ RejectReturn(t)
           \/ \E r \in Riders : RejectPickup(t, r)
           \/ \E r \in Riders \cup {NoRider} : AssignPickup(t, r)
    PROVE  \E th : Arrived(t, th)
<1>1. doc \in Doc
  BY DEF TypeOK
<1>2. CASE RequestReturn(t)
  <2>1. PICK want : want = [doc EXCEPT !.ret = "return_requested"]
    OBVIOUS
  <2>2. want \in Doc /\ want.out = doc.out /\ want.ret = "return_requested"
    BY <1>1, <2>1 DEF Doc, ReturnStatus
  <2> QED BY <1>2, <2>1, <2>2, DecideArrives DEF RequestReturn, Early
<1>3. CASE ApproveReturn(t)
  <2>1. PICK want : want = [doc EXCEPT !.ret = "return_approved", !.rider = NoRider]
    OBVIOUS
  <2>2. want \in Doc /\ want.out = doc.out /\ want.ret = "return_approved"
    BY <1>1, <2>1 DEF Doc, ReturnStatus
  <2> QED BY <1>3, <2>1, <2>2, DecideArrives DEF ApproveReturn, Early
<1>4. CASE RejectReturn(t)
  <2>1. PICK want : want = [doc EXCEPT !.ret = "return_rejected"]
    OBVIOUS
  <2>2. want \in Doc /\ want.out = doc.out /\ want.ret = "return_rejected"
    BY <1>1, <2>1 DEF Doc, ReturnStatus
  <2> QED BY <1>4, <2>1, <2>2, DecideArrives DEF RejectReturn, Early
<1>5. ASSUME NEW r \in Riders \cup {NoRider}, AssignPickup(t, r)
      PROVE  \E th : Arrived(t, th)
  <2>1. PICK want : want = [doc EXCEPT !.ret = "return_pickup_assigned", !.rider = r]
    OBVIOUS
  <2>2. want \in Doc /\ want.out = doc.out /\ want.ret = "return_pickup_assigned"
    BY <1>1, <2>1 DEF Doc, ReturnStatus
  <2> QED BY <1>5, <2>1, <2>2, DecideArrives DEF AssignPickup, Early
<1>6. ASSUME NEW r \in Riders, RejectPickup(t, r) PROVE \E th : Arrived(t, th)
  <2>1. PICK want : want = [doc EXCEPT !.ret = "return_approved", !.rider = NoRider]
    OBVIOUS
  <2>2. want \in Doc /\ want.out = doc.out /\ want.ret = "return_approved"
    BY <1>1, <2>1 DEF Doc, ReturnStatus
  <2> QED BY <1>6, <2>1, <2>2, DecideArrives DEF RejectPickup, Early
<1> QED BY <1>2, <1>3, <1>4, <1>5, <1>6

\* A pick-up that is accepted where one is awaited is no edit.
LEMMA AcceptArrives ==
    ASSUME TypeOK, NEW t \in Threads, NEW r \in Riders, AcceptPickup(t, r)
    PROVE  \E th : Arrived(t, th)
<1>1. PICK want : want = [doc EXCEPT !.ret = "return_pickup_assigned", !.rider = r]
  OBVIOUS
<1>2. want \in Doc /\ want.out = doc.out /\ want.ret = "return_pickup_assigned"
  BY <1>1 DEF Doc, ReturnStatus, TypeOK
<1>3. PICK th : th = [Idle EXCEPT !.pc = "save", !.snap = doc, !.want = want]
  OBVIOUS
<1>4. /\ th \in ThreadState /\ th.pc = "save" /\ th.snap = doc /\ th.want = want
      /\ th.flow = "service"
  BY <1>2, <1>3, IdleTyped DEF ThreadState, TypeOK, PC
<1>5. edits' \in edits .. MaxEdits /\ (edits' = 0 => ~doc.out /\ doc.ret \in Early)
  BY BoundsAssumption DEF AcceptPickup, AwaitsPickup, TypeOK
<1>6. Began(th)
  BY <1>2, <1>4, <1>5 DEF Began, HandlerOK, StageOK, Early
<1>7. Start(t, th) /\ UNCHANGED <<doc, codes, Counts, faults>>
  BY <1>1, <1>3 DEF AcceptPickup
<1> QED BY <1>4, <1>5, <1>6, <1>7, Started

LEMMA EditArrives ==
    ASSUME TypeOK, NEW t \in Threads,
           NEW ret \in {"return_pickup_assigned", "return_in_transit", "returned"},
           EditReturn(t, ret)
    PROVE  \E th : Arrived(t, th)
<1>1. PICK want : want = [doc EXCEPT !.ret = ret]
  OBVIOUS
<1>2. want \in Doc /\ want.out = doc.out /\ want.ret = ret
  BY <1>1 DEF Doc, ReturnStatus, TypeOK
<1>3. PICK th : th = [Idle EXCEPT !.pc = "save", !.snap = doc, !.want = want]
  OBVIOUS
<1>4. /\ th \in ThreadState /\ th.pc = "save" /\ th.snap = doc /\ th.want = want
      /\ th.flow = "service"
  BY <1>2, <1>3, IdleTyped DEF ThreadState, TypeOK, PC
<1>5. edits' \in edits .. MaxEdits /\ edits' # 0
  BY BoundsAssumption DEF EditReturn, TypeOK
<1>6. Began(th)
  BY <1>2, <1>4, <1>5 DEF Began, HandlerOK
<1>7. Start(t, th) /\ UNCHANGED <<doc, codes, Counts, faults>>
  BY <1>1, <1>3 DEF EditReturn
<1> QED BY <1>4, <1>5, <1>6, <1>7, Started

LEMMA RequestArrives ==
    ASSUME TypeOK, NEW t \in Threads, NEW ty \in CodeType,
           NEW flow \in {"workflow", "service"}, RequestCode(t, ty, flow),
           flow = "workflow" => ty = "delivery",
           ty # "delivery" => doc.ret # "none",
           ty = Pickup => doc.ret \in Early,
           ty = Drop => doc.ret \in Moving
    PROVE  \E th : Arrived(t, th)
<1>1. PICK th : th = [Idle EXCEPT !.pc = "invalidate", !.type = ty, !.flow = flow]
  OBVIOUS
<1>2. th \in ThreadState /\ th.pc = "invalidate" /\ th.type = ty /\ th.flow = flow
  BY <1>1, IdleTyped DEF ThreadState, PC
<1>3. Began(th)
  BY <1>2 DEF Began, HandlerOK, Returning, StageOK
<1>4. Start(t, th) /\ edits' \in edits .. MaxEdits /\ UNCHANGED <<doc, codes, Counts, faults>>
  BY <1>1 DEF RequestCode, Bounds, TypeOK
<1> QED BY <1>2, <1>3, <1>4, Started

LEMMA EnterArrives ==
    ASSUME TypeOK, NEW t \in Threads, NEW ty \in CodeType,
           NEW flow \in {"workflow", "service"}, Enter(t, ty, flow),
           flow = "workflow" => ty = "delivery"
    PROVE  \E th : Arrived(t, th)
<1>1. PICK snap \in Doc : snap = IF ty = Drop THEN doc ELSE Door
  BY IdleTyped DEF TypeOK
<1>2. PICK th : th = [Idle EXCEPT !.pc = "look", !.type = ty, !.flow = flow, !.snap = snap]
  OBVIOUS
<1>3. /\ th \in ThreadState /\ th.pc = "look" /\ th.type = ty /\ th.flow = flow
      /\ th.snap = snap
  BY <1>1, <1>2, IdleTyped DEF ThreadState, PC
<1>4. Began(th)
  BY <1>1, <1>3 DEF Began, HandlerOK, Returning, StageOK
<1>5. Start(t, th) /\ edits' \in edits .. MaxEdits /\ UNCHANGED <<doc, codes, Counts, faults>>
  BY <1>1, <1>2 DEF Enter, Bounds, TypeOK, Drop
<1> QED BY <1>3, <1>4, <1>5, Started

LEMMA CodeArrivals ==
    ASSUME TypeOK, NEW t \in Threads,
           \/ \E flow \in {"workflow", "service"} :
                 RequestDeliveryCode(t, flow) \/ EnterDeliveryCode(t, flow)
           \/ RequestPickupCode(t) \/ EnterPickupCode(t)
           \/ RequestDropCode(t) \/ EnterDropCode(t)
    PROVE  \E th : Arrived(t, th)
<1>1. {"delivery", Pickup, Drop} \subseteq CodeType
  BY DEF CodeType, Pickup, Drop
<1>2. ASSUME NEW flow \in {"workflow", "service"}, RequestDeliveryCode(t, flow)
      PROVE  \E th : Arrived(t, th)
  BY <1>1, <1>2, RequestArrives DEF RequestDeliveryCode, Pickup, Drop
<1>3. ASSUME NEW flow \in {"workflow", "service"}, EnterDeliveryCode(t, flow)
      PROVE  \E th : Arrived(t, th)
  BY <1>1, <1>3, EnterArrives DEF EnterDeliveryCode
<1>4. CASE RequestPickupCode(t)
  BY <1>1, <1>4, RequestArrives DEF RequestPickupCode, Pickup, Drop, Early
<1>5. CASE EnterPickupCode(t)
  BY <1>1, <1>5, EnterArrives DEF EnterPickupCode, Pickup
<1>6. CASE RequestDropCode(t)
  BY <1>1, <1>6, RequestArrives DEF RequestDropCode, Pickup, Drop, Moving
<1>7. CASE EnterDropCode(t)
  BY <1>1, <1>7, EnterArrives DEF EnterDropCode, Drop
<1> QED BY <1>2, <1>3, <1>4, <1>5, <1>6, <1>7

LEMMA InspectArrives ==
    ASSUME TypeOK, NEW t \in Threads, NEW verdict \in {"qc_passed", "qc_failed"},
           Inspect(t, verdict)
    PROVE  \E th : Arrived(t, th)
<1>1. PICK want : want = [doc EXCEPT !.ret = verdict]
  OBVIOUS
<1>2. want \in Doc /\ want.out = doc.out /\ want.ret = verdict
  BY <1>1 DEF Doc, ReturnStatus, TypeOK
<1>3. PICK th : th = [Idle EXCEPT !.pc = "verdict", !.snap = doc, !.want = want]
  OBVIOUS
<1>4. /\ th \in ThreadState /\ th.pc = "verdict" /\ th.snap = doc /\ th.want = want
      /\ th.flow = "service"
  BY <1>2, <1>3, IdleTyped DEF ThreadState, TypeOK, PC
<1>5. Began(th)
  BY <1>2, <1>4 DEF Began, HandlerOK, StageOK, Inspect
<1>6. Start(t, th) /\ edits' \in edits .. MaxEdits /\ UNCHANGED <<doc, codes, Counts, faults>>
  BY <1>1, <1>3 DEF Inspect, Bounds, TypeOK
<1> QED BY <1>4, <1>5, <1>6, Started

LEMMA Arrivals ==
    ASSUME TypeOK, NEW t \in Threads, Arrive(t)
    PROVE  \E th : Arrived(t, th)
BY ReturnArrivals, AcceptArrives, EditArrives, CodeArrivals, InspectArrives DEF Arrive
-----------------------------------------------------------------------------
(* What a step has to establish.                                           *)

\* Codes are added, never taken away, and what became of one is never undone.
CodesGrow ==
    /\ codes' \in Seq(Code)
    /\ DOMAIN codes \subseteq DOMAIN codes'
    /\ \A n \in DOMAIN codes : /\ codes'[n].type = codes[n].type
                               /\ codes'[n].redeemed >= codes[n].redeemed
                               /\ n \in Gone(codes) => n \in Gone(codes')

LEMMA CodesKept == ASSUME codes \in Seq(Code), codes' = codes PROVE CodesGrow
<1>1. \A n \in DOMAIN codes : codes[n].redeemed \in Nat
  BY CodesAre DEF Code
<1> QED BY <1>1 DEF CodesGrow, Gone

LEMMA RedeemedStays ==
    ASSUME codes \in Seq(Code), CodesGrow, NEW ty, Redeemed(ty)
    PROVE  Redeemed(ty)'
<1>1. PICK n \in DOMAIN codes : codes[n].type = ty /\ codes[n].redeemed > 0
  BY DEF Redeemed
<1>2. n \in DOMAIN codes' /\ codes'[n].type = ty /\ codes'[n].redeemed >= codes[n].redeemed
  BY <1>1 DEF CodesGrow
<1>3. codes[n].redeemed \in Nat /\ codes'[n].redeemed \in Nat
  BY <1>1, <1>2, CodesAre DEF Code, CodesGrow
<1> QED BY <1>1, <1>2, <1>3 DEF Redeemed

BaseInv == TypeOK /\ HandlersOK

\* Handler t becomes th by a step that may write the order and its codes.
Stepped(t, th) ==
    /\ Moves(t, th)
    /\ CodesGrow
    /\ doc' \in Doc
    /\ ~doc.out => ~doc'.out
    /\ delivered' \in Nat /\ refunds' \in Nat /\ commission' \in Nat
    /\ overlaps' = overlaps /\ edits' = edits /\ faults' \in faults .. MaxFaults

LEMMA BaseKept ==
    ASSUME BaseInv, NEW t \in Threads, NEW th, Stepped(t, th), HandlerOK(th)'
    PROVE  BaseInv'
<1>1. TypeOK'
  BY BoundsAssumption DEF BaseInv, TypeOK, Stepped, Moves, CodesGrow
<1>2. ASSUME NEW u \in Threads PROVE HandlerOK(thread[u])'
  <2>1. CASE u = t
    BY <2>1 DEF Stepped, Moves, HandlerOK
  <2>2. CASE u # t
    <3>1. thread'[u] = thread[u] /\ HandlerOK(thread[u])
      BY <2>2 DEF Stepped, Moves, BaseInv, HandlersOK
    <3> QED BY <3>1 DEF Stepped, CodesGrow, HandlerOK
  <2> QED BY <2>1, <2>2
<1> QED BY <1>1, <1>2 DEF BaseInv, HandlersOK

DoorKept(th) ==
    /\ doc'.ret # "none" => ~doc'.out
    /\ \A n \in DOMAIN codes' \ DOMAIN codes :
           codes'[n].type # "delivery" => ~doc'.out
    /\ Returning(th) => ~doc'.out
    /\ Delivering(th) => Redeemed("delivery")'
    /\ ~doc'.out => Redeemed("delivery")'

LEMMA DoorStep ==
    ASSUME BaseInv, DoorInv, NEW t \in Threads, NEW th, Stepped(t, th), DoorKept(th)
    PROVE  DoorInv'
<1>1. ASSUME NEW n \in DOMAIN codes', codes'[n].type # "delivery" PROVE ~doc'.out
  <2>1. CASE n \in DOMAIN codes
    BY <1>1, <2>1 DEF Stepped, CodesGrow, DoorInv
  <2>2. CASE n \notin DOMAIN codes
    BY <1>1, <2>2 DEF DoorKept
  <2> QED BY <2>1, <2>2
<1>2. ASSUME NEW u \in Threads, Returning(thread'[u]) PROVE ~doc'.out
  BY <1>2 DEF Stepped, Moves, DoorInv, DoorKept
<1>3. ASSUME NEW u \in Threads, Delivering(thread'[u]) PROVE Redeemed("delivery")'
  <2>1. CASE u = t
    BY <1>3, <2>1 DEF Stepped, Moves, DoorKept
  <2>2. CASE u # t
    <3>1. Redeemed("delivery")
      BY <1>3, <2>2 DEF Stepped, Moves, DoorInv
    <3> QED BY <3>1, RedeemedStays DEF Stepped, BaseInv, TypeOK
  <2> QED BY <2>1, <2>2
<1>4. /\ \A u \in Threads : Returning(thread[u])' => ~doc'.out
      /\ \A u \in Threads : Delivering(thread[u])' => Redeemed("delivery")'
  BY <1>2, <1>3 DEF Returning, Delivering
<1> QED BY <1>1, <1>4 DEF DoorInv, DoorKept

AloneKept(t, th) ==
    /\ th.pc \notin {"idle", "earn"} => Busy(t)
    /\ Busy(t) \/ codes' = codes
    /\ CodesOnce'
    /\ AloneOK(th)'

LEMMA AloneStep ==
    ASSUME BaseInv, AloneInv, NEW t \in Threads, NEW th, Stepped(t, th), AloneKept(t, th)
    PROVE  AloneInv'
<1>1. ASSUME NEW u \in Threads, NEW v \in Threads, Busy(u)', Busy(v)' PROVE u = v
  <2>1. ASSUME NEW w \in Threads, Busy(w)' PROVE Busy(w)
    BY <2>1 DEF Busy, Stepped, Moves, AloneKept
  <2> QED BY <1>1, <2>1 DEF AloneInv
<1>2. ASSUME NEW u \in Threads PROVE AloneOK(thread[u])'
  <2>1. CASE u = t
    BY <2>1 DEF Stepped, Moves, AloneKept, AloneOK
  <2>2. CASE u # t /\ Busy(t)
    <3>1. ~Busy(u) /\ thread'[u] = thread[u]
      BY <2>2 DEF AloneInv, Stepped, Moves
    <3> QED BY <3>1 DEF Busy, AloneOK
  <2>3. CASE u # t /\ codes' = codes
    <3>1. AloneOK(thread[u]) /\ thread'[u] = thread[u]
      BY <2>3 DEF AloneInv, Stepped, Moves
    <3> QED BY <2>3, <3>1 DEF AloneOK, Live
  <2> QED BY <2>1, <2>2, <2>3 DEF AloneKept
<1> QED BY <1>1, <1>2 DEF AloneInv, AloneKept

BackKept(t, th) ==
    /\ Busy(t) \/ UNCHANGED <<doc, codes, refunds>>
    /\ StageInv' /\ StageOK(th)'

LEMMA BackStep ==
    ASSUME BaseInv, AloneInv, BackInv, NEW t \in Threads, NEW th,
           Stepped(t, th), BackKept(t, th)
    PROVE  BackInv'
<1>1. ASSUME NEW u \in Threads PROVE StageOK(thread[u])'
  <2>1. CASE u = t
    BY <2>1 DEF Stepped, Moves, BackKept, StageOK
  <2>2. CASE u # t /\ Busy(t)
    <3>1. ~Busy(u) /\ thread'[u] = thread[u]
      BY <2>2 DEF AloneInv, Stepped, Moves
    <3> QED BY <3>1 DEF Busy, StageOK
  <2>3. CASE u # t /\ UNCHANGED <<doc, codes, refunds>>
    <3>1. StageOK(thread[u]) /\ thread'[u] = thread[u]
      BY <2>3 DEF BackInv, Stepped, Moves
    <3> QED BY <2>3, <3>1 DEF StageOK, Live, Redeemed
  <2> QED BY <2>1, <2>2, <2>3 DEF BackKept
<1> QED BY <1>1 DEF BackInv, BackKept

Refunding == {"refund", "pay", "close"}

\* All of it together.
LEMMA Preserved ==
    ASSUME ReturnsInv, NEW t \in Threads, NEW th, Stepped(t, th), HandlerOK(th)',
           delivered' <= 1 /\ (delivered' = 1 => ~doc'.out),
           faults' = 0 /\ doc'.ret = "qc_passed" =>
               th.pc \in Refunding \/ (doc.ret = "qc_passed" /\ thread[t].pc \notin Refunding),
           edits = 0 => DoorKept(th),
           overlaps = 0 => AloneKept(t, th),
           overlaps = 0 /\ edits = 0 => BackKept(t, th)
    PROVE  ReturnsInv'
<1>1. BaseInv
  BY DEF ReturnsInv, BaseInv
<1>2. BaseInv'
  BY <1>1, BaseKept
<1>3. (edits = 0 => DoorInv)'
  BY <1>1, DoorStep DEF ReturnsInv, Stepped
<1>4. (overlaps = 0 => AloneInv)'
  BY <1>1, AloneStep DEF ReturnsInv, Stepped
<1>5. (overlaps = 0 /\ edits = 0 => BackInv)'
  BY <1>1, BackStep DEF ReturnsInv, Stepped
<1>6. PassedIsRefunded'
  <2>1. SUFFICES ASSUME faults' = 0, doc'.ret = "qc_passed"
                 PROVE  \E u \in Threads : thread'[u].pc \in Refunding
    BY DEF PassedIsRefunded, Refunding
  <2>2. CASE th.pc \in Refunding
    BY <2>2 DEF Stepped, Moves
  <2>3. CASE doc.ret = "qc_passed" /\ thread[t].pc \notin Refunding
    <3>1. faults = 0
      BY <2>1, <1>1 DEF Stepped, BaseInv, TypeOK
    <3>2. PICK u \in Threads : thread[u].pc \in Refunding
      BY <2>3, <3>1 DEF ReturnsInv, PassedIsRefunded, Refunding
    <3> QED BY <2>3, <3>2 DEF Stepped, Moves
  <2> QED BY <2>1, <2>2, <2>3
<1> QED BY <1>2, <1>3, <1>4, <1>5, <1>6 DEF ReturnsInv, BaseInv
LEMMA ArrivedBase ==
    ASSUME BaseInv, NEW t \in Threads, NEW th, Arrived(t, th)
    PROVE  BaseInv'
<1>1. TypeOK'
  BY BoundsAssumption DEF BaseInv, TypeOK, Arrived, Moves, Counts
<1>2. ASSUME NEW u \in Threads PROVE HandlerOK(thread[u])'
  BY DEF Arrived, Began, Moves, BaseInv, HandlersOK, HandlerOK
<1> QED BY <1>1, <1>2 DEF BaseInv, HandlersOK

LEMMA ArrivedDoor ==
    ASSUME BaseInv, DoorInv, NEW t \in Threads, NEW th, Arrived(t, th), edits' = 0
    PROVE  DoorInv'
<1>1. ~Delivering(th) /\ (Returning(th) => ~doc.out)
  BY DEF Arrived, Began, Delivering, DoorInv
<1>2. ASSUME NEW u \in Threads
      PROVE  /\ Returning(thread[u])' => ~doc'.out
             /\ Delivering(thread[u])' => Redeemed("delivery")'
  <2>1. CASE u = t
    BY <1>1, <2>1 DEF Arrived, Moves, Returning, Delivering
  <2>2. CASE u # t
    BY <2>2 DEF Arrived, Moves, Returning, Delivering, DoorInv, Redeemed
  <2> QED BY <2>1, <2>2
<1> QED BY <1>2 DEF DoorInv, Redeemed, Arrived

LEMMA ArrivedAlone ==
    ASSUME BaseInv, AloneInv, NEW t \in Threads, NEW th, Arrived(t, th), overlaps' = 0
    PROVE  AloneInv'
<1>1. ASSUME NEW u \in Threads, NEW v \in Threads, Busy(u)', Busy(v)' PROVE u = v
  BY <1>1 DEF Arrived, Moves, Busy
<1>2. ASSUME NEW u \in Threads PROVE AloneOK(thread[u])'
  BY DEF Arrived, Began, Moves, AloneInv, AloneOK, Live
<1> QED BY <1>1, <1>2 DEF AloneInv, CodesOnce, Arrived, Live

LEMMA ArrivedBack ==
    ASSUME BaseInv, BackInv, NEW t \in Threads, NEW th, Arrived(t, th),
           edits' = 0
    PROVE  BackInv'
<1>1. StageInv'
  BY DEF BackInv, StageInv, Arrived, Live, Redeemed, Counts
<1>2. ASSUME NEW u \in Threads PROVE StageOK(thread[u])'
  <2>1. CASE u = t
    BY <2>1 DEF Arrived, Began, Moves, StageOK, Live, Redeemed, Counts
  <2>2. CASE u # t
    BY <2>2 DEF Arrived, Moves, BackInv, StageOK, Live, Redeemed, Counts
  <2> QED BY <2>1, <2>2
<1> QED BY <1>1, <1>2 DEF BackInv

LEMMA ArriveStep ==
    ASSUME ReturnsInv, NEW t \in Threads, Arrive(t)
    PROVE  ReturnsInv'
<1>1. BaseInv
  BY DEF ReturnsInv, BaseInv
<1>2. PICK th : Arrived(t, th)
  BY <1>1, Arrivals DEF BaseInv
<1>3. edits' = 0 => edits = 0
  BY <1>1, <1>2 DEF Arrived, BaseInv, TypeOK
<1>4. overlaps' = 0 => overlaps = 0
  BY <1>1, <1>2 DEF Arrived, BaseInv, TypeOK
<1>5. BaseInv'
  BY <1>1, <1>2, ArrivedBase
<1>6. (edits = 0 => DoorInv)'
  BY <1>1, <1>2, <1>3, ArrivedDoor DEF ReturnsInv
<1>7. (overlaps = 0 => AloneInv)'
  BY <1>1, <1>2, <1>4, ArrivedAlone DEF ReturnsInv
<1>8. (overlaps = 0 /\ edits = 0 => BackInv)'
  BY <1>1, <1>2, <1>3, <1>4, ArrivedBack DEF ReturnsInv
<1>9. PassedIsRefunded'
  BY <1>2 DEF ReturnsInv, PassedIsRefunded, Arrived, Moves, At
<1>10. delivered' = delivered /\ doc' = doc
  BY <1>2 DEF Arrived, Counts
<1> QED BY <1>5, <1>6, <1>7, <1>8, <1>9, <1>10 DEF ReturnsInv, BaseInv
-----------------------------------------------------------------------------
(* Steps that write no code.                                               *)

LEMMA Base == ReturnsInv => BaseInv
BY DEF ReturnsInv, BaseInv

\* What follows the delivery leaves the door as it is.
LEMMA AfterTheDoor ==
    ASSUME BaseInv, DoorInv, NEW t \in Threads, NEW th, Stepped(t, th),
           Returning(thread[t]), ~Delivering(th)
    PROVE  DoorKept(th)
<1>1. ~doc.out /\ Redeemed("delivery") /\ ~doc'.out
  BY DEF DoorInv, Stepped
<1>2. Redeemed("delivery")'
  BY <1>1, RedeemedStays DEF BaseInv, TypeOK, Stepped
<1> QED BY <1>1, <1>2 DEF DoorKept

LEMMA SameCodes ==
    ASSUME AloneInv, NEW t \in Threads, NEW th, codes' = codes,
           th.pc \in {"idle", "earn"} \/ (Busy(t) /\ th.pc \notin {"insert", "mark"})
    PROVE  AloneKept(t, th)
BY DEF AloneInv, AloneKept, CodesOnce, AloneOK, Live

\* A step of t that leaves the codes and the rest of the state, but for what is said.
LEMMA Leaves ==
    ASSUME BaseInv, NEW t \in Threads, NEW th, Moves(t, th), codes' = codes,
           doc' \in Doc, ~doc.out => ~doc'.out,
           delivered' \in Nat, refunds' \in Nat, commission' \in Nat,
           overlaps' = overlaps, Bounds' = Bounds
    PROVE  Stepped(t, th)
<1>1. CodesGrow
  BY CodesKept DEF BaseInv, TypeOK
<1>2. edits' = edits /\ faults' = faults /\ faults' \in faults .. MaxFaults
  BY BoundsAssumption DEF Bounds, BaseInv, TypeOK
<1> QED BY <1>1, <1>2 DEF Stepped

LEMMA SaveStep ==
    ASSUME ReturnsInv, NEW t \in Threads, Save(t) PROVE ReturnsInv'
<1>1. BaseInv
  BY Base
<1>2. PICK old \in ThreadState : old = thread[t]
  BY <1>1 DEF BaseInv, TypeOK
<1>3. old.pc = "save" /\ doc' = Saved(old.snap, old.want) /\ HandlerOK(old)
  BY <1>1, <1>2 DEF Save, At, BaseInv, HandlersOK
<1>4. old.snap \in Doc /\ old.want \in Doc /\ doc \in Doc
  BY <1>1, <1>2 DEF ThreadState, BaseInv, TypeOK
<1>5. /\ doc' \in Doc /\ doc'.out = doc.out
      /\ doc'.ret = IF old.want.ret = old.snap.ret THEN doc.ret ELSE old.want.ret
      /\ old.snap = doc => doc'.ret = old.want.ret
      /\ old.want.ret # "qc_passed"
  BY <1>3, <1>4, SavedDoc DEF HandlerOK
<1>6. PICK th : Moves(t, th) /\ th.pc = "idle" /\ th.flow = "service"
  BY <1>1, Finished DEF Save, BaseInv
<1>7. codes' = codes /\ Counts' = Counts /\ overlaps' = overlaps /\ Bounds' = Bounds
  BY DEF Save
<1>8. Stepped(t, th)
  BY <1>1, <1>5, <1>6, <1>7, Leaves DEF BaseInv, TypeOK, Counts
<1>9. edits = 0 => DoorKept(th)
  BY <1>1, <1>2, <1>3, <1>6, <1>8, AfterTheDoor DEF ReturnsInv, Returning, Delivering
<1>10. overlaps = 0 => AloneKept(t, th)
  BY <1>6, <1>7, SameCodes DEF ReturnsInv
<1>11. ASSUME overlaps = 0, edits = 0 PROVE BackKept(t, th)
  <2>1. BackInv
    BY <1>11 DEF ReturnsInv
  <2>2. doc.ret \in Early /\ doc'.ret \in Early
    BY <1>2, <1>3, <1>5, <2>1 DEF BackInv, StageOK
  <2>3. StageInv'
    BY <1>7, <2>1, <2>2 DEF BackInv, StageInv, Live, Redeemed, Counts, Early, Moving, Back
  <2>4. StageOK(th)' /\ Busy(t)
    BY <1>2, <1>3, <1>6 DEF StageOK, Busy
  <2> QED BY <2>3, <2>4 DEF BackKept
<1>12. HandlerOK(th)' /\ thread[t].pc \notin Refunding /\ delivered' = delivered
  BY <1>2, <1>3, <1>6, <1>7 DEF HandlerOK, Refunding, Counts
<1>13. faults' = 0 /\ doc'.ret = "qc_passed" => doc.ret = "qc_passed"
  BY <1>5
<1> QED BY <1>5, <1>8, <1>9, <1>10, <1>11, <1>12, <1>13, Preserved DEF ReturnsInv

LEMMA PendStep ==
    ASSUME ReturnsInv, NEW t \in Threads, Pend(t) PROVE ReturnsInv'
<1>1. BaseInv /\ At(t, "pend")
  BY Base DEF Pend
<1>2. doc' \in Doc /\ doc'.out = doc.out /\ doc'.ret = "return_drop_pending"
  BY <1>1 DEF Pend, BaseInv, TypeOK, Doc, ReturnStatus
<1>3. PICK th : Moves(t, th) /\ th.pc = "idle" /\ th.flow = "service"
  BY <1>1, Finished DEF Pend, BaseInv
<1>4. codes' = codes /\ Counts' = Counts /\ overlaps' = overlaps /\ Bounds' = Bounds
  BY DEF Pend
<1>5. Stepped(t, th)
  BY <1>1, <1>2, <1>3, <1>4, Leaves DEF BaseInv, TypeOK, Counts
<1>6. edits = 0 => DoorKept(th)
  BY <1>1, <1>3, <1>5, AfterTheDoor DEF ReturnsInv, Returning, Delivering, At
<1>7. overlaps = 0 => AloneKept(t, th)
  BY <1>3, <1>4, SameCodes DEF ReturnsInv
<1>8. ASSUME overlaps = 0, edits = 0 PROVE BackKept(t, th)
  <2>1. BackInv
    BY <1>8 DEF ReturnsInv
  <2>2. doc.ret \in Moving
    BY <1>1, <2>1 DEF BackInv, StageOK, At
  <2>3. StageInv'
    BY <1>2, <1>4, <2>1, <2>2
    DEF BackInv, StageInv, Live, Redeemed, Counts, Early, Moving, Back
  <2>4. StageOK(th)' /\ Busy(t)
    BY <1>1, <1>3 DEF StageOK, Busy, At
  <2> QED BY <2>3, <2>4 DEF BackKept
<1>9. HandlerOK(th)' /\ delivered' = delivered
  BY <1>3, <1>4 DEF HandlerOK, Counts
<1> QED BY <1>2, <1>5, <1>6, <1>7, <1>8, <1>9, Preserved DEF ReturnsInv
LEMMA HandOverStep ==
    ASSUME ReturnsInv, NEW t \in Threads, HandOver(t) PROVE ReturnsInv'
<1>1. BaseInv /\ At(t, "handOver") /\ thread[t].type = "delivery"
  BY Base DEF HandOver
<1>2. doc' \in Doc /\ ~doc'.out /\ doc'.ret = doc.ret
  BY <1>1 DEF HandOver, BaseInv, TypeOK, Doc
<1>3. PICK th : Moves(t, th) /\ th.pc = "idle" /\ th.flow = "service"
  BY <1>1, Finished DEF HandOver, BaseInv
<1>4. codes' = codes /\ overlaps' = overlaps /\ Bounds' = Bounds
      /\ refunds' = refunds /\ commission' = commission
  BY DEF HandOver
<1>5. delivered' \in Nat /\ delivered' <= 1
  BY <1>1 DEF HandOver, ReturnsInv, BaseInv, TypeOK
<1>6. Stepped(t, th)
  BY <1>1, <1>2, <1>3, <1>4, <1>5, Leaves DEF BaseInv, TypeOK
<1>7. ASSUME edits = 0 PROVE DoorKept(th)
  <2>1. Redeemed("delivery")
    BY <1>1, <1>7 DEF ReturnsInv, DoorInv, Delivering, At
  <2> QED BY <1>2, <1>3, <1>4, <2>1 DEF DoorKept, Delivering, Returning, Redeemed
<1>8. overlaps = 0 => AloneKept(t, th)
  BY <1>3, <1>4, SameCodes DEF ReturnsInv
<1>9. ASSUME overlaps = 0, edits = 0 PROVE BackKept(t, th)
  <2>1. BackInv
    BY <1>9 DEF ReturnsInv
  <2>2. StageInv'
    BY <1>2, <1>4, <2>1 DEF BackInv, StageInv, Live, Redeemed
  <2>3. StageOK(th)' /\ Busy(t)
    BY <1>1, <1>3 DEF StageOK, Busy, At
  <2> QED BY <2>2, <2>3 DEF BackKept
<1>10. HandlerOK(th)' /\ thread[t].pc \notin Refunding
  BY <1>1, <1>3 DEF HandlerOK, At, Refunding
<1> QED BY <1>2, <1>5, <1>6, <1>7, <1>8, <1>9, <1>10, Preserved

LEMMA PickUpStep ==
    ASSUME ReturnsInv, NEW t \in Threads, PickUp(t) PROVE ReturnsInv'
<1>1. BaseInv /\ At(t, "handOver") /\ thread[t].type = Pickup
  BY Base DEF PickUp, Pickup
<1>2. doc \in Doc /\ doc' \in Doc /\ doc'.out = doc.out /\ doc'.ret = "return_in_transit"
  BY <1>1 DEF PickUp, BaseInv, TypeOK, Doc, ReturnStatus
<1>3. PICK th : th = [Idle EXCEPT !.pc = "earn", !.snap = doc]
  OBVIOUS
<1>4. th \in ThreadState /\ th.pc = "earn" /\ th.flow = "service"
  BY <1>2, <1>3, IdleTyped DEF ThreadState, PC
<1>5. Moves(t, th)
  BY <1>1, <1>3, <1>4, Assigned DEF PickUp, BaseInv
<1>6. codes' = codes /\ Counts' = Counts /\ overlaps' = overlaps /\ Bounds' = Bounds
  BY DEF PickUp
<1>7. Stepped(t, th)
  BY <1>1, <1>2, <1>5, <1>6, Leaves DEF BaseInv, TypeOK, Counts
<1>8. edits = 0 => DoorKept(th)
  BY <1>1, <1>4, <1>7, AfterTheDoor DEF ReturnsInv, Returning, Delivering, At, Pickup
<1>9. overlaps = 0 => AloneKept(t, th)
  BY <1>4, <1>6, SameCodes DEF ReturnsInv
<1>10. ASSUME overlaps = 0, edits = 0 PROVE BackKept(t, th)
  <2>1. BackInv /\ AloneInv
    BY <1>10 DEF ReturnsInv
  <2>2. /\ doc.ret \in Early /\ Redeemed(Pickup)
        /\ \A n \in Live : codes[n].type # Pickup
    BY <1>1, <2>1 DEF BackInv, StageOK, At, Pickup
  <2>3. StageInv'
    BY <1>2, <1>6, <2>1, <2>2
    DEF BackInv, StageInv, Live, Redeemed, Counts, Early, Moving, Back
  <2>4. StageOK(th)' /\ Busy(t)
    BY <1>1, <1>4 DEF StageOK, Busy, At
  <2> QED BY <2>3, <2>4 DEF BackKept
<1>11. HandlerOK(th)' /\ delivered' = delivered
  BY <1>4, <1>6 DEF HandlerOK, Counts
<1> QED BY <1>2, <1>7, <1>8, <1>9, <1>10, <1>11, Preserved DEF ReturnsInv

LEMMA EarnStep ==
    ASSUME ReturnsInv, NEW t \in Threads, Earn(t) PROVE ReturnsInv'
<1>1. BaseInv /\ At(t, "earn")
  BY Base DEF Earn
<1>2. PICK th : Moves(t, th) /\ th.pc = "idle" /\ th.flow = "service"
  BY <1>1, Finished DEF Earn, BaseInv
<1>3. /\ codes' = codes /\ doc' = doc /\ overlaps' = overlaps /\ Bounds' = Bounds
      /\ delivered' = delivered /\ refunds' = refunds
      /\ commission \in Nat /\ commission' \in Nat
  BY <1>1 DEF Earn, BaseInv, TypeOK
<1>4. Stepped(t, th)
  BY <1>1, <1>2, <1>3, Leaves DEF BaseInv, TypeOK
<1>5. edits = 0 => DoorKept(th)
  BY <1>1, <1>2, <1>4, AfterTheDoor DEF ReturnsInv, Returning, Delivering, At
<1>6. overlaps = 0 => AloneKept(t, th)
  BY <1>2, <1>3, SameCodes DEF ReturnsInv
<1>7. ASSUME overlaps = 0, edits = 0 PROVE BackKept(t, th)
  <2>1. BackInv
    BY <1>7 DEF ReturnsInv
  <2>2. StageInv'
    BY <1>3, <2>1 DEF BackInv, StageInv, Live, Redeemed
  <2>3. StageOK(th)'
    BY <1>2 DEF StageOK
  <2> QED BY <1>3, <2>2, <2>3 DEF BackKept
<1>8. HandlerOK(th)' /\ thread[t].pc \notin Refunding
  BY <1>1, <1>2 DEF HandlerOK, At, Refunding
<1> QED BY <1>3, <1>4, <1>5, <1>6, <1>7, <1>8, Preserved DEF ReturnsInv

LEMMA DropOffStep ==
    ASSUME ReturnsInv, NEW t \in Threads, DropOff(t) PROVE ReturnsInv'
<1>1. BaseInv /\ At(t, "handOver") /\ thread[t].type = Drop
  BY Base DEF DropOff, Drop
<1>2. PICK snap \in Doc : snap = thread[t].snap
  BY <1>1 DEF BaseInv, TypeOK, ThreadState
<1>3. PICK want : want = [snap EXCEPT !.ret = "returned"]
  OBVIOUS
<1>4. want \in Doc /\ want.out = snap.out /\ want.ret = "returned"
  BY <1>2, <1>3 DEF Doc, ReturnStatus
<1>5. doc' = Saved(snap, want)
  BY <1>2, <1>3 DEF DropOff
<1>6. /\ doc' \in Doc /\ doc'.out = doc.out
      /\ doc'.ret = IF "returned" = snap.ret THEN doc.ret ELSE "returned"
      /\ snap = doc => doc'.ret = "returned"
  BY <1>1, <1>2, <1>4, <1>5, SavedDoc DEF BaseInv, TypeOK
<1>7. PICK th : Moves(t, th) /\ th.pc = "idle" /\ th.flow = "service"
  BY <1>1, Finished DEF DropOff, BaseInv
<1>8. codes' = codes /\ Counts' = Counts /\ overlaps' = overlaps /\ Bounds' = Bounds
  BY DEF DropOff
<1>9. Stepped(t, th)
  BY <1>1, <1>6, <1>7, <1>8, Leaves DEF BaseInv, TypeOK, Counts
<1>10. edits = 0 => DoorKept(th)
  BY <1>1, <1>7, <1>9, AfterTheDoor DEF ReturnsInv, Returning, Delivering, At, Drop
<1>11. overlaps = 0 => AloneKept(t, th)
  BY <1>7, <1>8, SameCodes DEF ReturnsInv
<1>12. ASSUME overlaps = 0, edits = 0 PROVE BackKept(t, th)
  <2>1. BackInv
    BY <1>12 DEF ReturnsInv
  <2>2. /\ snap = doc /\ doc.ret \in Moving /\ Redeemed(Drop)
        /\ \A n \in Live : codes[n].type # Drop
    BY <1>1, <1>2, <2>1 DEF BackInv, StageOK, At, Drop
  <2>3. \A n \in Live : codes[n].type # Pickup
    BY <2>1, <2>2 DEF BackInv, StageInv, Early, Moving
  <2>4. Redeemed(Pickup) /\ refunds <= 1 /\ refunds # 1
    BY <2>1, <2>2 DEF BackInv, StageInv, Early, Moving
  <2>5. StageInv'
    BY <1>6, <1>8, <2>2, <2>3, <2>4 DEF StageInv, Live, Redeemed, Counts
  <2>6. StageOK(th)' /\ Busy(t)
    BY <1>1, <1>7 DEF StageOK, Busy, At
  <2> QED BY <2>5, <2>6 DEF BackKept
<1>13. HandlerOK(th)' /\ delivered' = delivered /\ thread[t].pc \notin Refunding
  BY <1>1, <1>7, <1>8 DEF HandlerOK, Counts, At, Refunding
<1>14. doc'.ret = "qc_passed" => doc.ret = "qc_passed"
  BY <1>6
<1> QED BY <1>6, <1>9, <1>10, <1>11, <1>12, <1>13, <1>14, Preserved DEF ReturnsInv
LEMMA SaveVerdictStep ==
    ASSUME ReturnsInv, NEW t \in Threads, SaveVerdict(t) PROVE ReturnsInv'
<1>1. BaseInv /\ At(t, "verdict")
  BY Base DEF SaveVerdict
<1>2. PICK old \in ThreadState : old = thread[t]
  BY <1>1 DEF BaseInv, TypeOK
<1>3. old.pc = "verdict" /\ doc' = Saved(old.snap, old.want) /\ HandlerOK(old)
  BY <1>1, <1>2 DEF SaveVerdict, At, BaseInv, HandlersOK
<1>4. old.snap \in Doc /\ old.want \in Doc /\ doc \in Doc
  BY <1>1, <1>2 DEF ThreadState, BaseInv, TypeOK
<1>5. /\ doc' \in Doc /\ doc'.out = doc.out /\ doc'.ret = old.want.ret
      /\ doc'.ret \in {"qc_passed", "qc_failed"}
  BY <1>3, <1>4, SavedDoc DEF HandlerOK
<1>6. PICK th : /\ Moves(t, th) /\ th.pc \in {"idle", "refund"}
                /\ th.flow = "workflow" => th.type = "delivery"
                /\ th.pc = "refund" <=> old.want.ret = "qc_passed"
  <2>1. CASE old.want.ret = "qc_passed"
    <3>1. "refund" \in PC /\ Goto(t, "refund")
      BY <1>2, <2>1 DEF PC, SaveVerdict
    <3> QED BY <1>1, <1>2, <1>3, <2>1, <3>1, WentOn DEF BaseInv, HandlerOK
  <2>2. CASE old.want.ret # "qc_passed"
    BY <1>1, <1>2, <2>2, Finished DEF SaveVerdict, BaseInv
  <2> QED BY <2>1, <2>2
<1>7. codes' = codes /\ Counts' = Counts /\ overlaps' = overlaps /\ Bounds' = Bounds
  BY DEF SaveVerdict
<1>8. Stepped(t, th)
  BY <1>1, <1>5, <1>6, <1>7, Leaves DEF BaseInv, TypeOK, Counts
<1>9. edits = 0 => DoorKept(th)
  BY <1>1, <1>2, <1>3, <1>6, <1>8, AfterTheDoor DEF ReturnsInv, Returning, Delivering
<1>10. overlaps = 0 => AloneKept(t, th)
  BY <1>1, <1>6, <1>7, SameCodes DEF ReturnsInv, Busy, At
<1>11. ASSUME overlaps = 0, edits = 0 PROVE BackKept(t, th)
  <2>1. BackInv
    BY <1>11 DEF ReturnsInv
  <2>2. doc.ret = "returned"
    BY <1>2, <1>3, <2>1 DEF BackInv, StageOK
  <2>3. /\ \A n \in Live : codes[n].type \notin {Pickup, Drop}
        /\ Redeemed(Pickup) /\ Redeemed(Drop) /\ refunds <= 1 /\ refunds # 1
    BY <2>1, <2>2 DEF BackInv, StageInv, Early, Moving, Back, Pickup, Drop
  <2>4. StageInv'
    BY <1>5, <1>7, <2>3 DEF StageInv, Live, Redeemed, Counts
  <2>5. StageOK(th)' /\ Busy(t)
    <3>1. refunds = 0
      BY <1>1, <2>3 DEF BaseInv, TypeOK
    <3> QED BY <1>1, <1>5, <1>6, <1>7, <3>1 DEF StageOK, Busy, At, Counts
  <2> QED BY <2>4, <2>5 DEF BackKept
<1>12. HandlerOK(th)' /\ delivered' = delivered
  BY <1>6, <1>7 DEF HandlerOK, Counts
<1>13. doc'.ret = "qc_passed" => th.pc \in Refunding
  BY <1>5, <1>6 DEF Refunding
<1> QED BY <1>5, <1>8, <1>9, <1>10, <1>11, <1>12, <1>13, Preserved DEF ReturnsInv

\* The next step of a refund, which writes no code.
LEMMA RefundGoesOn ==
    ASSUME BaseInv, NEW t \in Threads, thread[t].pc \in Refunding,
           NEW pc \in {"pay", "close"}, Goto(t, pc), codes' = codes, doc' = doc,
           delivered' = delivered, refunds' \in Nat, commission' \in Nat,
           overlaps' = overlaps, Bounds' = Bounds
    PROVE  \E th : /\ Stepped(t, th) /\ th.pc = pc /\ HandlerOK(th)'
                   /\ edits = 0 /\ DoorInv => DoorKept(th)
                   /\ overlaps = 0 /\ AloneInv => AloneKept(t, th)
<1>1. pc \in PC
  BY DEF PC
<1>2. PICK th : /\ Moves(t, th) /\ th.pc = pc
                /\ th.type = thread[t].type /\ th.flow = thread[t].flow
  BY <1>1, WentOn DEF BaseInv
<1>3. Stepped(t, th)
  BY <1>2, Leaves DEF BaseInv, TypeOK
<1>4. HandlerOK(th)'
  BY <1>2 DEF BaseInv, HandlersOK, HandlerOK
<1>5. DoorInv => DoorKept(th)
  BY <1>2, <1>3, AfterTheDoor DEF Returning, Delivering, Refunding
<1>6. AloneInv => AloneKept(t, th)
  BY <1>2, SameCodes DEF Busy, Refunding
<1> QED BY <1>2, <1>3, <1>4, <1>5, <1>6

LEMMA RefundCustomerStep ==
    ASSUME ReturnsInv, NEW t \in Threads, RefundCustomer(t) PROVE ReturnsInv'
<1>1. BaseInv /\ At(t, "refund")
  BY Base DEF RefundCustomer
<1>2. /\ codes' = codes /\ doc' = doc /\ overlaps' = overlaps /\ Bounds' = Bounds
      /\ delivered' = delivered /\ commission' = commission /\ refunds' = refunds + 1
  BY DEF RefundCustomer
<1>3. refunds \in Nat /\ commission \in Nat /\ refunds' \in Nat
  BY <1>1, <1>2 DEF BaseInv, TypeOK
<1>4. PICK th : /\ Stepped(t, th) /\ th.pc = "pay" /\ HandlerOK(th)'
                /\ edits = 0 /\ DoorInv => DoorKept(th)
                /\ overlaps = 0 /\ AloneInv => AloneKept(t, th)
  BY <1>1, <1>2, <1>3, RefundGoesOn DEF RefundCustomer, Refunding, At
<1>5. ASSUME overlaps = 0, edits = 0 PROVE BackKept(t, th)
  <2>1. BackInv /\ AloneInv
    BY <1>5 DEF ReturnsInv
  <2>2. doc.ret = "qc_passed" /\ refunds = 0
    BY <1>1, <2>1 DEF BackInv, StageOK, At
  <2>3. refunds' = 1
    BY <1>2, <2>2
  <2>4. StageInv'
    BY <1>2, <2>1, <2>2, <2>3 DEF BackInv, StageInv, Live, Redeemed
  <2>5. StageOK(th)' /\ Busy(t)
    BY <1>1, <1>2, <1>4, <2>2, <2>3 DEF StageOK, Busy, At
  <2> QED BY <2>4, <2>5 DEF BackKept
<1>6. th.pc \in Refunding
  BY <1>4 DEF Refunding
<1> QED BY <1>2, <1>4, <1>5, <1>6, Preserved DEF ReturnsInv

LEMMA PayRiderStep ==
    ASSUME ReturnsInv, NEW t \in Threads, PayRider(t) PROVE ReturnsInv'
<1>1. BaseInv /\ At(t, "pay")
  BY Base DEF PayRider
<1>2. /\ codes' = codes /\ doc' = doc /\ overlaps' = overlaps /\ Bounds' = Bounds
      /\ delivered' = delivered /\ refunds' = refunds
      /\ refunds \in Nat /\ commission \in Nat /\ commission' \in Nat
      /\ commission' <= commission + 1
  BY <1>1 DEF PayRider, BaseInv, TypeOK
<1>3. PICK th : /\ Stepped(t, th) /\ th.pc = "close" /\ HandlerOK(th)'
                /\ edits = 0 /\ DoorInv => DoorKept(th)
                /\ overlaps = 0 /\ AloneInv => AloneKept(t, th)
  BY <1>1, <1>2, RefundGoesOn DEF PayRider, Refunding, At
<1>4. ASSUME overlaps = 0, edits = 0 PROVE BackKept(t, th)
  <2>1. BackInv /\ AloneInv
    BY <1>4 DEF ReturnsInv
  <2>2. doc.ret = "qc_passed" /\ refunds = 1
    BY <1>1, <2>1 DEF BackInv, StageOK, At
  <2>3. StageInv'
    BY <1>2, <2>1 DEF BackInv, StageInv, Live, Redeemed
  <2>4. StageOK(th)' /\ Busy(t)
    BY <1>1, <1>2, <1>3, <2>2 DEF StageOK, Busy, At
  <2> QED BY <2>3, <2>4 DEF BackKept
<1>5. th.pc \in Refunding
  BY <1>3 DEF Refunding
<1> QED BY <1>2, <1>3, <1>4, <1>5, Preserved DEF ReturnsInv

LEMMA CloseReturnStep ==
    ASSUME ReturnsInv, NEW t \in Threads, CloseReturn(t) PROVE ReturnsInv'
<1>1. BaseInv /\ At(t, "close")
  BY Base DEF CloseReturn
<1>2. doc' \in Doc /\ doc'.out = doc.out /\ doc'.ret = "refund_completed"
  BY <1>1 DEF CloseReturn, BaseInv, TypeOK, Doc, ReturnStatus
<1>3. PICK th : Moves(t, th) /\ th.pc = "idle" /\ th.flow = "service"
  BY <1>1, Finished DEF CloseReturn, BaseInv
<1>4. codes' = codes /\ Counts' = Counts /\ overlaps' = overlaps /\ Bounds' = Bounds
  BY DEF CloseReturn
<1>5. Stepped(t, th)
  BY <1>1, <1>2, <1>3, <1>4, Leaves DEF BaseInv, TypeOK, Counts
<1>6. edits = 0 => DoorKept(th)
  BY <1>1, <1>3, <1>5, AfterTheDoor DEF ReturnsInv, Returning, Delivering, At
<1>7. overlaps = 0 => AloneKept(t, th)
  BY <1>3, <1>4, SameCodes DEF ReturnsInv
<1>8. ASSUME overlaps = 0, edits = 0 PROVE BackKept(t, th)
  <2>1. BackInv
    BY <1>8 DEF ReturnsInv
  <2>2. doc.ret = "qc_passed"
    BY <1>1, <2>1 DEF BackInv, StageOK, At
  <2>3. /\ \A n \in Live : codes[n].type \notin {Pickup, Drop}
        /\ Redeemed(Pickup) /\ Redeemed(Drop) /\ refunds <= 1
    BY <2>1, <2>2 DEF BackInv, StageInv, Early, Moving, Back, Pickup, Drop
  <2>4. StageInv'
    BY <1>2, <1>4, <2>3 DEF StageInv, Live, Redeemed, Counts
  <2>5. StageOK(th)' /\ Busy(t)
    BY <1>1, <1>3 DEF StageOK, Busy, At
  <2> QED BY <2>4, <2>5 DEF BackKept
<1>9. HandlerOK(th)' /\ delivered' = delivered
  BY <1>3, <1>4 DEF HandlerOK, Counts
<1> QED BY <1>2, <1>5, <1>6, <1>7, <1>8, <1>9, Preserved DEF ReturnsInv
LEMMA AbandonStep ==
    ASSUME ReturnsInv, NEW t \in Threads, Abandon(t) PROVE ReturnsInv'
<1>1. BaseInv /\ thread[t].pc # "idle"
  BY Base DEF Abandon, At
<1>2. PICK th : Moves(t, th) /\ th.pc = "idle" /\ th.flow = "service"
  BY <1>1, Finished DEF Abandon, BaseInv
<1>3. /\ codes' = codes /\ doc' = doc /\ Counts' = Counts /\ overlaps' = overlaps
      /\ edits' = edits /\ faults' \in faults .. MaxFaults /\ faults' # 0
  BY <1>1, BoundsAssumption DEF Abandon, BaseInv, TypeOK
<1>4. Stepped(t, th)
  BY <1>1, <1>2, <1>3, CodesKept DEF Stepped, BaseInv, TypeOK, Counts
<1>5. edits = 0 => DoorKept(th)
  BY <1>2, <1>3 DEF ReturnsInv, DoorInv, DoorKept, Returning, Delivering, Redeemed
<1>6. overlaps = 0 => AloneKept(t, th)
  BY <1>2, <1>3, SameCodes DEF ReturnsInv
<1>7. ASSUME overlaps = 0, edits = 0 PROVE BackKept(t, th)
  <2>1. BackInv
    BY <1>7 DEF ReturnsInv
  <2>2. StageInv' /\ StageOK(th)'
    BY <1>2, <1>3, <2>1 DEF BackInv, StageInv, StageOK, Live, Redeemed, Counts
  <2> QED BY <1>3, <2>2 DEF BackKept, Counts
<1>8. HandlerOK(th)' /\ delivered' = delivered
  BY <1>2, <1>3 DEF HandlerOK, Counts
<1> QED BY <1>3, <1>4, <1>5, <1>6, <1>7, <1>8, Preserved DEF ReturnsInv
-----------------------------------------------------------------------------
(* Steps that look at the codes or write them; the order stays as it is.   *)

LEMMA SameDoor ==
    ASSUME BaseInv, DoorInv, NEW t \in Threads, NEW th, Stepped(t, th), doc' = doc,
           \A n \in DOMAIN codes' \ DOMAIN codes :
               codes'[n].type # "delivery" => ~doc.out,
           Returning(th) => ~doc.out,
           Delivering(th) => Redeemed("delivery")'
    PROVE  DoorKept(th)
<1>1. ~doc'.out => Redeemed("delivery")'
  BY RedeemedStays DEF DoorInv, BaseInv, TypeOK, Stepped
<1> QED BY <1>1 DEF DoorInv, DoorKept

LEMMA SameStage ==
    ASSUME BaseInv, BackInv, NEW t \in Threads, NEW th, Stepped(t, th), Busy(t),
           UNCHANGED <<doc, refunds>>,
           \A n \in Live' : \/ n \in Live
                            \/ /\ codes'[n].type = Pickup => doc.ret \in Early
                               /\ codes'[n].type = Drop => doc.ret \in Moving,
           StageOK(th)'
    PROVE  BackKept(t, th)
<1>1. \A ty : Redeemed(ty) => Redeemed(ty)'
  BY RedeemedStays DEF BaseInv, TypeOK, Stepped
<1>2. ASSUME NEW n \in Live'
      PROVE  /\ codes'[n].type = Pickup => doc.ret \in Early
             /\ codes'[n].type = Drop => doc.ret \in Moving
  <2>1. CASE n \in Live
    <3>1. codes'[n].type = codes[n].type
      BY <2>1 DEF Live, Stepped, CodesGrow
    <3> QED BY <2>1, <3>1 DEF BackInv, StageInv
  <2>2. CASE n \notin Live
    BY <2>2
  <2> QED BY <2>1, <2>2
<1>3. /\ doc.ret \notin Early => Redeemed(Pickup)'
      /\ doc.ret \in Back => Redeemed(Drop)'
  BY <1>1 DEF BackInv, StageInv
<1>4. StageInv'
  BY <1>2, <1>3 DEF BackInv, StageInv
<1> QED BY <1>4 DEF BackKept

\* Codes of which none is live that was not.
LEMMA LiveStays ==
    ASSUME CodesGrow, DOMAIN codes' = DOMAIN codes, NEW n \in Live'
    PROVE  n \in Live /\ codes'[n].type = codes[n].type
BY DEF CodesGrow, Live

LEMMA LookStep ==
    ASSUME ReturnsInv, NEW t \in Threads, NEW right \in BOOLEAN, Look(t, right)
    PROVE  ReturnsInv'
<1>1. BaseInv /\ codes \in Seq(Code)
  BY Base DEF BaseInv, TypeOK
<1>2. PICK old \in ThreadState : old = thread[t]
  BY <1>1 DEF BaseInv, TypeOK
<1>3. old.pc = "look" /\ HandlerOK(old)
  BY <1>1, <1>2 DEF Look, At, BaseInv, HandlersOK
<1>4. /\ UNCHANGED <<overlaps, doc, codes, Bounds>>
      /\ Counts' = Counts
  BY DEF Look
<1>5. PICK th : /\ Moves(t, th) /\ th.pc \in {"idle", "mark"} /\ HandlerOK(th)
                /\ th.pc = "mark" => /\ th.n \in Live
                                     /\ th.snap = old.snap /\ th.type = old.type
                                     /\ th.flow = old.flow
  <2> DEFINE mine == {n \in DOMAIN codes :
                         codes[n].type = old.type /\ codes[n].state # "deleted"}
             n == IF old.flow = "workflow" THEN LatestOpen(codes)
                  ELSE LatestOf(codes, old.type)
  <2>1. CASE n # 0 /\ Usable(codes[n])
    <3>1. Len(codes) \in Nat /\ DOMAIN codes = 1 .. Len(codes)
      BY <1>1, CodesAre
    <3>2. n \in DOMAIN codes /\ (old.flow # "workflow" => codes[n].type = old.type)
      <4>1. CASE old.flow = "workflow"
        <5>1. n = Newest(DOMAIN codes \ Gone(codes))
          BY <4>1 DEF LatestOpen
        <5>2. n \in DOMAIN codes \ Gone(codes)
          BY <2>1, <3>1, <5>1, NewestIsOne
        <5> QED BY <4>1, <5>2
      <4>2. CASE old.flow # "workflow"
        <5>1. n = Newest(mine)
          BY <4>2 DEF LatestOf
        <5>2. mine \subseteq 1 .. Len(codes)
          BY <3>1
        <5>3. n \in mine
          BY <2>1, <3>1, <5>1, <5>2, NewestIsOne
        <5> QED BY <4>2, <5>3
      <4> QED BY <4>1, <4>2
    <3>3. codes[n] \in Code /\ codes[n].state = "open" /\ n \in Nat
      BY <1>1, <2>1, <3>1, <3>2, CodesAre DEF Usable
    <3>4. PICK th : th = [old EXCEPT !.pc = "mark", !.n = n, !.taken = right,
                                     !.attempts = codes[n].attempts]
      OBVIOUS
    <3>5. /\ th \in ThreadState /\ th.pc = "mark" /\ th.n = n /\ th.snap = old.snap
          /\ th.type = old.type /\ th.flow = old.flow
      <4> HIDE DEF n
      <4>1. codes[n].attempts \in Nat /\ "mark" \in PC
        BY <3>3 DEF Code, PC
      <4> QED BY <3>3, <3>4, <4>1 DEF ThreadState
    <3>6. thread' = [thread EXCEPT ![t] = th]
      BY <1>1, <1>2, <2>1, <3>4 DEF Look, BaseInv, TypeOK
    <3>7. n \in Live
      BY <3>2, <3>3 DEF Live, Gone
    <3> HIDE DEF n
    <3>8. HandlerOK(th)
      BY <1>3, <3>2, <3>5 DEF HandlerOK
    <3> QED BY <1>1, <3>5, <3>6, <3>7, <3>8, Assigned DEF BaseInv
  <2>2. CASE ~(n # 0 /\ Usable(codes[n]))
    <3>1. Finish(t)
      BY <1>2, <2>2 DEF Look
    <3>2. PICK th : Moves(t, th) /\ th.pc = "idle" /\ th.flow = "service"
      BY <1>1, <3>1, Finished DEF BaseInv
    <3> QED BY <3>2 DEF HandlerOK
  <2> QED BY <2>1, <2>2
<1>6. Stepped(t, th)
  BY <1>1, <1>4, <1>5, Leaves DEF BaseInv, TypeOK, Counts
<1>7. HandlerOK(th)'
  BY <1>4, <1>5 DEF HandlerOK
<1>8. ASSUME edits = 0 PROVE DoorKept(th)
  <2>1. DoorInv
    BY <1>8 DEF ReturnsInv
  <2>2. th \in ThreadState
    BY <1>5 DEF Moves
  <2>3. Returning(th) => ~doc.out
    <3>1. SUFFICES ASSUME th.pc = "mark", th.type # "delivery" PROVE ~doc.out
      BY <1>5 DEF Returning
    <3>2. th.n \in DOMAIN codes /\ codes[th.n].type # "delivery"
      BY <1>5, <2>2, <3>1 DEF HandlerOK, ThreadState
    <3> QED BY <2>1, <3>2 DEF DoorInv
  <2> QED BY <1>1, <1>4, <1>5, <1>6, <2>1, <2>3, SameDoor DEF Delivering
<1>9. ASSUME overlaps = 0 PROVE AloneKept(t, th)
  <2>1. AloneInv /\ Busy(t)
    BY <1>2, <1>3, <1>9 DEF ReturnsInv, Busy
  <2> QED BY <1>4, <1>5, <2>1 DEF AloneInv, AloneKept, CodesOnce, AloneOK, Live
<1>10. ASSUME overlaps = 0, edits = 0 PROVE BackKept(t, th)
  <2>1. BackInv /\ Busy(t)
    BY <1>2, <1>3, <1>10 DEF ReturnsInv, Busy
  <2>2. StageOK(th)'
    BY <1>2, <1>3, <1>4, <1>5, <2>1 DEF BackInv, StageOK
  <2>3. \A n \in Live' : n \in Live
    BY <1>4 DEF Live
  <2> QED BY <1>1, <1>4, <1>5, <1>6, <2>1, <2>2, <2>3, SameStage DEF Counts
<1>11. delivered' = delivered /\ doc' = doc /\ thread[t].pc \notin Refunding
  BY <1>2, <1>3, <1>4 DEF Counts, Refunding
<1> QED BY <1>6, <1>7, <1>8, <1>9, <1>10, <1>11, Preserved DEF ReturnsInv
LEMMA InvalidateStep ==
    ASSUME ReturnsInv, NEW t \in Threads, Invalidate(t) PROVE ReturnsInv'
<1>1. BaseInv /\ codes \in Seq(Code) /\ At(t, "invalidate")
  BY Base DEF BaseInv, TypeOK, Invalidate
<1>2. PICK th : /\ Moves(t, th) /\ th.pc = "insert"
                /\ th.type = thread[t].type /\ th.flow = thread[t].flow
  <2>1. "insert" \in PC /\ Goto(t, "insert")
    BY DEF PC, Invalidate
  <2> QED BY <1>1, <2>1, WentOn DEF BaseInv
<1>3. /\ UNCHANGED <<overlaps, doc, Bounds>>
      /\ Counts' = Counts
  BY DEF Invalidate
<1>4. PICK types \in SUBSET CodeType, st \in {"consumed", "deleted"} :
         codes' = Invalidated(codes, types, st) /\ th.type \in types
  <2>1. th.type \in CodeType
    BY <1>2 DEF Moves, ThreadState
  <2>2. CASE thread[t].flow = "workflow"
    <3>1. codes' = Invalidated(codes, CodeType, "deleted")
      BY <2>2 DEF Invalidate
    <3> QED BY <2>1, <3>1
  <2>3. CASE thread[t].flow # "workflow"
    <3>1. codes' = Invalidated(codes, {th.type}, "consumed")
      BY <1>2, <2>3 DEF Invalidate
    <3> QED BY <2>1, <3>1
  <2> QED BY <2>2, <2>3
<1>5. /\ codes' \in Seq(Code) /\ DOMAIN codes' = DOMAIN codes
      /\ \A n \in DOMAIN codes :
             /\ codes'[n].type = codes[n].type /\ codes'[n].redeemed = codes[n].redeemed
             /\ n \in Gone(codes) => codes'[n] = codes[n]
             /\ codes'[n].type \in types => n \in Gone(codes')
  BY <1>1, <1>4, InvalidatedCodes
<1>6. CodesGrow
  <2>1. \A n \in DOMAIN codes : codes[n].redeemed \in Nat
    BY <1>1, CodesAre DEF Code
  <2> QED BY <1>5, <2>1 DEF CodesGrow, Gone
<1>7. Stepped(t, th)
  BY <1>1, <1>2, <1>3, <1>6, BoundsAssumption
  DEF Stepped, BaseInv, TypeOK, Counts, Bounds
<1>8. HandlerOK(th)'
  BY <1>1, <1>2 DEF HandlerOK, BaseInv, HandlersOK
<1>9. ASSUME edits = 0 PROVE DoorKept(th)
  <2>1. DoorInv /\ (Returning(th) => ~doc.out)
    BY <1>1, <1>2, <1>9 DEF ReturnsInv, DoorInv, Returning, At
  <2> QED BY <1>1, <1>2, <1>3, <1>5, <1>7, <2>1, SameDoor DEF Delivering
<1>10. ASSUME overlaps = 0 PROVE AloneKept(t, th)
  <2>1. AloneInv /\ Busy(t)
    BY <1>1, <1>10 DEF ReturnsInv, Busy, At
  <2>2. CodesOnce'
    <3>1. ASSUME NEW n \in DOMAIN codes', codes'[n].redeemed > 0
          PROVE  codes'[n].redeemed = 1 /\ codes'[n].state = "consumed"
      <4>1. codes[n].redeemed = 1 /\ codes[n].state = "consumed" /\ n \in Gone(codes)
        BY <1>5, <2>1, <3>1 DEF AloneInv, CodesOnce, Gone
      <4> QED BY <1>5, <4>1
    <3>2. \A n \in Live' : n \in Live /\ codes'[n].type = codes[n].type
      BY <1>5, <1>6, LiveStays
    <3> QED BY <2>1, <3>1, <3>2 DEF AloneInv, CodesOnce
  <2>3. AloneOK(th)'
    BY <1>2, <1>4, <1>5 DEF AloneOK, Live
  <2> QED BY <2>1, <2>2, <2>3 DEF AloneKept
<1>11. ASSUME overlaps = 0, edits = 0 PROVE BackKept(t, th)
  <2>1. BackInv /\ Busy(t)
    BY <1>1, <1>11 DEF ReturnsInv, Busy, At
  <2>2. StageOK(th)'
    BY <1>1, <1>2, <1>3, <2>1 DEF BackInv, StageOK, At
  <2>3. \A n \in Live' : n \in Live
    BY <1>5, <1>6, LiveStays
  <2> QED BY <1>1, <1>2, <1>3, <1>7, <2>1, <2>2, <2>3, SameStage DEF Counts
<1>12. delivered' = delivered /\ doc' = doc /\ thread[t].pc \notin Refunding
  BY <1>1, <1>3 DEF Counts, Refunding, At
<1> QED BY <1>7, <1>8, <1>9, <1>10, <1>11, <1>12, Preserved DEF ReturnsInv

LEMMA InsertStep ==
    ASSUME ReturnsInv, NEW t \in Threads, Insert(t) PROVE ReturnsInv'
<1>1. BaseInv /\ codes \in Seq(Code) /\ At(t, "insert")
  BY Base DEF BaseInv, TypeOK, Insert
<1>2. PICK ty \in CodeType : ty = thread[t].type
  BY <1>1 DEF BaseInv, TypeOK, ThreadState
<1>3. /\ UNCHANGED <<overlaps, doc, Bounds>>
      /\ Counts' = Counts
      /\ codes' = Append(codes, Fresh(ty))
  BY <1>2 DEF Insert
<1>4. PICK th : /\ Moves(t, th) /\ th.pc \in {"idle", "pend"}
                /\ th.flow = "workflow" => th.type = "delivery"
                /\ th.pc = "pend" => ty = Drop
  <2>1. CASE ty = "return_drop"
    <3>1. "pend" \in PC /\ Goto(t, "pend")
      BY <1>2, <2>1 DEF PC, Insert
    <3> QED BY <1>1, <1>2, <2>1, <3>1, WentOn DEF BaseInv, HandlersOK, HandlerOK, Drop
  <2>2. CASE ty # "return_drop"
    BY <1>1, <1>2, <2>2, Finished DEF Insert, BaseInv
  <2> QED BY <2>1, <2>2
<1>5. /\ codes' \in Seq(Code) /\ DOMAIN codes \subseteq DOMAIN codes'
      /\ \A n \in DOMAIN codes : codes'[n] = codes[n]
      /\ \A n \in DOMAIN codes' \ DOMAIN codes : codes'[n] = Fresh(ty)
  BY <1>1, <1>3, AppendedCode
<1>6. CodesGrow
  <2>1. \A n \in DOMAIN codes : codes[n].redeemed \in Nat
    BY <1>1, CodesAre DEF Code
  <2> QED BY <1>5, <2>1 DEF CodesGrow, Gone
<1>7. Stepped(t, th)
  BY <1>1, <1>3, <1>4, <1>6, BoundsAssumption
  DEF Stepped, BaseInv, TypeOK, Counts, Bounds
<1>8. HandlerOK(th)'
  BY <1>4 DEF HandlerOK
<1>9. /\ \A n \in DOMAIN codes' \ DOMAIN codes : codes'[n].type = ty /\ codes'[n].redeemed = 0
      /\ \A n \in Live' : n \in Live \/ n \in DOMAIN codes' \ DOMAIN codes
  BY <1>5 DEF Live, Gone, Fresh
<1>10. ASSUME edits = 0 PROVE DoorKept(th)
  <2>1. DoorInv
    BY <1>10 DEF ReturnsInv
  <2>2. ty # "delivery" => ~doc.out
    BY <1>1, <1>2, <2>1 DEF DoorInv, Returning, At
  <2>3. Returning(th) => ~doc.out
    BY <1>4, <2>2 DEF Returning, Drop
  <2> QED BY <1>1, <1>3, <1>4, <1>7, <1>9, <2>1, <2>2, <2>3, SameDoor DEF Delivering
<1>11. ASSUME overlaps = 0 PROVE AloneKept(t, th)
  <2>1. AloneInv /\ Busy(t)
    BY <1>1, <1>11 DEF ReturnsInv, Busy, At
  <2>2. \A n \in Live : codes[n].type # ty
    BY <1>1, <1>2, <2>1 DEF AloneInv, AloneOK, At
  <2>3. ASSUME NEW n \in DOMAIN codes', codes'[n].redeemed > 0
        PROVE  codes'[n].redeemed = 1 /\ codes'[n].state = "consumed"
    BY <1>5, <1>9, <2>1, <2>3 DEF AloneInv, CodesOnce
  <2>4. ASSUME NEW n \in Live', NEW m \in Live', codes'[n].type = codes'[m].type
        PROVE  n = m
    <3>1. CASE n \in Live /\ m \in Live
      BY <1>5, <2>1, <2>4, <3>1 DEF AloneInv, CodesOnce, Live
    <3>2. CASE n \notin Live /\ m \notin Live
      <4>1. DOMAIN codes' = DOMAIN codes \cup {Len(codes) + 1}
        BY <1>1, <1>3, AppendProperties, CodesAre
      <4> QED BY <1>9, <3>2, <4>1
    <3>3. CASE n \in Live /\ m \notin Live
      BY <1>5, <1>9, <2>2, <2>4, <3>3 DEF Live
    <3>4. CASE n \notin Live /\ m \in Live
      BY <1>5, <1>9, <2>2, <2>4, <3>4 DEF Live
    <3> QED BY <3>1, <3>2, <3>3, <3>4
  <2>5. CodesOnce'
    BY <2>3, <2>4 DEF CodesOnce
  <2>6. AloneOK(th)'
    BY <1>4 DEF AloneOK
  <2> QED BY <2>1, <2>5, <2>6 DEF AloneKept
<1>12. ASSUME overlaps = 0, edits = 0 PROVE BackKept(t, th)
  <2>1. BackInv /\ Busy(t)
    BY <1>1, <1>12 DEF ReturnsInv, Busy, At
  <2>2. (ty = Pickup => doc.ret \in Early) /\ (ty = Drop => doc.ret \in Moving)
    BY <1>1, <1>2, <2>1 DEF BackInv, StageOK, At
  <2>3. StageOK(th)'
    BY <1>3, <1>4, <2>2 DEF StageOK
  <2> QED BY <1>1, <1>3, <1>4, <1>7, <1>9, <2>1, <2>2, <2>3, SameStage DEF Counts
<1>13. delivered' = delivered /\ doc' = doc /\ thread[t].pc \notin Refunding
  BY <1>1, <1>3 DEF Counts, Refunding, At
<1> QED BY <1>7, <1>8, <1>10, <1>11, <1>12, <1>13, Preserved DEF ReturnsInv
\* What an entry makes of the record k it was compared with: c, which is redeemed if
\* the entry is taken.
Marked(k, c, done) ==
    /\ codes' \in Seq(Code) /\ DOMAIN codes' = DOMAIN codes
    /\ \A n \in DOMAIN codes : codes'[n] = IF n = k THEN c ELSE codes[n]
    /\ c.type = codes[k].type
    /\ done => c.state = "consumed" /\ c.redeemed = codes[k].redeemed + 1
    /\ ~done => c.state = codes[k].state /\ c.redeemed = codes[k].redeemed

LEMMA MarkedCode ==
    ASSUME BaseInv, NEW t \in Threads, Mark(t), NEW k, k = thread[t].n
    PROVE  /\ k \in DOMAIN codes
           /\ \E c \in Code, done \in BOOLEAN :
                  Marked(k, c, done) /\ IF done THEN Goto(t, "handOver") ELSE Finish(t)
<1>1. codes \in Seq(Code) /\ k \in DOMAIN codes
  BY DEF BaseInv, TypeOK, HandlersOK, HandlerOK, Mark, At
<1>2. PICK old \in Code : old = codes[k]
  BY <1>1, CodesAre
<1>3. PICK lost \in BOOLEAN :
          lost <=> old.state = "deleted" /\ thread[t].flow = "service"
  OBVIOUS
<1>4. PICK taken \in BOOLEAN : taken = thread[t].taken
  BY DEF BaseInv, TypeOK, ThreadState
<1>5. IF taken /\ ~lost THEN Goto(t, "handOver") ELSE Finish(t)
  BY <1>2, <1>3, <1>4 DEF Mark
<1>6. CASE lost
  <2>1. codes' = codes
    BY <1>2, <1>3, <1>6 DEF Mark
  <2>2. Marked(k, old, FALSE)
    BY <1>1, <1>2, <2>1 DEF Marked
  <2> QED BY <1>1, <1>5, <1>6, <2>2
<1>7. CASE ~lost /\ taken
  <2>1. PICK c : c = Taken(old)
    OBVIOUS
  <2>2. /\ c \in Code /\ c.type = old.type /\ c.state = "consumed"
        /\ c.redeemed = old.redeemed + 1
    <3>1. PICK r \in Nat : r = old.redeemed + 1
      BY DEF Code
    <3>2. c = [old EXCEPT !.state = "consumed", !.redeemed = r]
      BY <2>1, <3>1 DEF Taken
    <3> QED BY <3>1, <3>2 DEF Code
  <2>3. codes' = [codes EXCEPT ![k] = c]
    BY <1>2, <1>3, <1>4, <1>7, <2>1 DEF Mark
  <2>4. Marked(k, c, TRUE)
    BY <1>1, <1>2, <2>2, <2>3, ReplacedCode DEF Marked
  <2> QED BY <1>1, <1>5, <1>7, <2>2, <2>4
<1>8. CASE ~lost /\ ~taken
  <2>1. PICK a \in Nat : a = 1 + IF thread[t].flow = "workflow" THEN old.attempts
                                 ELSE thread[t].attempts
    <3>1. old.attempts \in Nat /\ thread[t].attempts \in Nat
      BY DEF Code, BaseInv, TypeOK, ThreadState
    <3> QED BY <3>1
  <2>2. PICK c : c = Missed(old, a)
    OBVIOUS
  <2>3. /\ c \in Code /\ c.type = old.type /\ c.state = old.state
        /\ c.redeemed = old.redeemed
    BY <2>2 DEF Code, Missed
  <2>4. codes' = [codes EXCEPT ![k] = c]
    BY <1>2, <1>3, <1>4, <1>8, <2>1, <2>2 DEF Mark
  <2>5. Marked(k, c, FALSE)
    BY <1>1, <1>2, <2>3, <2>4, ReplacedCode DEF Marked
  <2> QED BY <1>1, <1>5, <1>8, <2>3, <2>5
<1> QED BY <1>6, <1>7, <1>8

LEMMA MarkStep ==
    ASSUME ReturnsInv, NEW t \in Threads, Mark(t) PROVE ReturnsInv'
<1>1. BaseInv /\ codes \in Seq(Code) /\ At(t, "mark")
  BY Base DEF BaseInv, TypeOK, Mark
<1>2. PICK old \in ThreadState : old = thread[t]
  BY <1>1 DEF BaseInv, TypeOK
<1> DEFINE k == old.n
<1>3. k \in DOMAIN codes /\ old.pc = "mark" /\ HandlerOK(old)
  BY <1>1, <1>2 DEF At, BaseInv, HandlersOK, HandlerOK
<1>4. PICK c \in Code, done \in BOOLEAN :
          Marked(k, c, done) /\ IF done THEN Goto(t, "handOver") ELSE Finish(t)
  BY <1>1, <1>2, MarkedCode
<1>5. /\ codes' \in Seq(Code) /\ DOMAIN codes' = DOMAIN codes
      /\ \A n \in DOMAIN codes : codes'[n] = IF n = k THEN c ELSE codes[n]
      /\ c.type = codes[k].type
      /\ done => c.state = "consumed" /\ c.redeemed = codes[k].redeemed + 1
      /\ ~done => c.state = codes[k].state /\ c.redeemed = codes[k].redeemed
      /\ IF done THEN Goto(t, "handOver") ELSE Finish(t)
  BY <1>4 DEF Marked
<1>6. UNCHANGED <<overlaps, doc, Bounds>> /\ Counts' = Counts
  BY DEF Mark
<1>7. PICK th : /\ Moves(t, th)
                /\ IF done THEN /\ th.pc = "handOver" /\ th.snap = old.snap
                                /\ th.type = old.type /\ th.flow = old.flow
                   ELSE th.pc = "idle" /\ th.flow = "service"
  <2>1. CASE done
    <3>1. "handOver" \in PC
      BY DEF PC
    <3> QED BY <1>1, <1>2, <1>5, <2>1, <3>1, WentOn DEF BaseInv
  <2>2. CASE ~done
    BY <1>1, <1>5, <2>2, Finished DEF BaseInv
  <2> QED BY <2>1, <2>2
<1>8. \A n \in DOMAIN codes : codes[n].redeemed \in Nat
  BY <1>1, CodesAre DEF Code
<1>9. CodesGrow
  BY <1>3, <1>5, <1>8 DEF CodesGrow, Gone
<1>10. Stepped(t, th)
  BY <1>1, <1>6, <1>7, <1>9, BoundsAssumption
  DEF Stepped, BaseInv, TypeOK, Counts, Bounds
<1>11. HandlerOK(th)'
  BY <1>3, <1>7 DEF HandlerOK
<1>12. PICK ty : ty = codes[k].type
  OBVIOUS
<1>13. done => Redeemed(ty)'
  BY <1>3, <1>5, <1>8, <1>12 DEF Redeemed
<1>14. \A n \in Live' : n \in Live /\ codes'[n].type = codes[n].type
  BY <1>5, <1>9, LiveStays
<1>15. ASSUME edits = 0 PROVE DoorKept(th)
  <2>1. DoorInv
    BY <1>15 DEF ReturnsInv
  <2>2. Returning(th) => ~doc.out
    BY <1>2, <1>3, <1>7, <2>1 DEF DoorInv, Returning
  <2>3. Delivering(th) => Redeemed("delivery")'
    <3>1. SUFFICES ASSUME Delivering(th) PROVE Redeemed("delivery")'
      OBVIOUS
    <3>2. done /\ old.type = "delivery"
      BY <1>7, <3>1 DEF Delivering
    <3>3. CASE codes[k].type = "delivery"
      BY <1>13, <1>12, <3>2, <3>3
    <3>4. CASE codes[k].type # "delivery"
      <4>1. Redeemed("delivery")
        BY <1>3, <2>1, <3>4 DEF DoorInv
      <4> QED BY <1>1, <1>9, <4>1, RedeemedStays
    <3> QED BY <3>3, <3>4
  <2> QED BY <1>1, <1>5, <1>6, <1>10, <2>1, <2>2, <2>3, SameDoor
<1>16. ASSUME overlaps = 0 PROVE AloneKept(t, th)
  <2>1. AloneInv /\ Busy(t)
    BY <1>1, <1>16 DEF ReturnsInv, Busy, At
  <2>2. k \in Live /\ codes[k].redeemed = 0
    BY <1>2, <1>3, <1>8, <2>1 DEF AloneInv, AloneOK, CodesOnce, Live, Gone
  <2>3. ASSUME NEW n \in DOMAIN codes', codes'[n].redeemed > 0
        PROVE  codes'[n].redeemed = 1 /\ codes'[n].state = "consumed"
    <3>1. CASE n = k
      BY <1>5, <2>2, <2>3, <3>1
    <3>2. CASE n # k
      BY <1>5, <2>1, <2>3, <3>2 DEF AloneInv, CodesOnce
    <3> QED BY <3>1, <3>2
  <2>4. CodesOnce'
    BY <1>14, <2>1, <2>3 DEF AloneInv, CodesOnce
  <2>5. AloneOK(th)'
    BY <1>7 DEF AloneOK
  <2>6. th.pc \notin {"idle", "earn"} => Busy(t)
    BY <2>1
  <2> QED BY <2>1, <2>4, <2>5 DEF AloneKept
<1>17. ASSUME overlaps = 0, edits = 0 PROVE BackKept(t, th)
  <2>1. BackInv /\ AloneInv /\ Busy(t)
    BY <1>1, <1>17 DEF ReturnsInv, Busy, At
  <2>2. k \in Live
    BY <1>2, <1>3, <2>1 DEF AloneInv, AloneOK
  <2>3. StageOK(th)'
    <3>1. CASE ~done
      BY <1>7, <3>1 DEF StageOK
    <3>2. CASE done /\ old.type = "delivery"
      BY <1>7, <3>2 DEF StageOK, Pickup, Drop
    <3>3. CASE done /\ old.type # "delivery"
      <4>1. codes[k].type = old.type
        BY <1>3, <3>3 DEF HandlerOK, ThreadState
      <4>2. /\ old.type = Pickup => doc.ret \in Early
            /\ old.type = Drop => doc.ret \in Moving /\ old.snap = doc
        BY <1>2, <1>3, <2>1, <2>2, <4>1 DEF BackInv, StageInv, StageOK
      <4>3. k \notin Live'
        BY <1>3, <1>5, <3>3 DEF Live, Gone
      <4>4. \A n \in Live' : codes'[n].type # old.type
        BY <1>14, <2>1, <2>2, <4>1, <4>3 DEF AloneInv, CodesOnce
      <4>5. Redeemed(old.type)'
        BY <1>13, <1>12, <3>3, <4>1
      <4>6. th.type = old.type /\ th.snap = old.snap /\ th.pc = "handOver" /\ doc' = doc
        BY <1>6, <1>7, <3>3
      <4>7. /\ th.type = Pickup => Redeemed(Pickup)'
            /\ th.type = Drop => Redeemed(Drop)'
        BY <4>5, <4>6
      <4> QED BY <4>2, <4>4, <4>6, <4>7 DEF StageOK
    <3> QED BY <3>1, <3>2, <3>3
  <2> QED BY <1>1, <1>6, <1>7, <1>10, <1>14, <2>1, <2>3, SameStage DEF Counts
<1>18. delivered' = delivered /\ doc' = doc /\ thread[t].pc \notin Refunding
  BY <1>2, <1>3, <1>6 DEF Counts, Refunding
<1> QED BY <1>10, <1>11, <1>15, <1>16, <1>17, <1>18, Preserved DEF ReturnsInv

\* No handler moves when a code expires.
LEMMA ExpireStep ==
    ASSUME ReturnsInv, NEW k \in DOMAIN codes, Expire(k) PROVE ReturnsInv'
<1>1. BaseInv /\ codes \in Seq(Code) /\ codes[k] \in Code
  <2>1. BaseInv /\ codes \in Seq(Code)
    BY Base DEF BaseInv, TypeOK
  <2> QED BY <2>1, CodesAre
<1>2. UNCHANGED <<overlaps, doc, thread, Bounds>> /\ Counts' = Counts
  BY DEF Expire
<1>3. PICK c : c = [codes[k] EXCEPT !.state = "expired"]
  OBVIOUS
<1>4. /\ c \in Code /\ c.type = codes[k].type /\ c.state = "expired"
      /\ c.redeemed = codes[k].redeemed
  BY <1>1, <1>3 DEF Code
<1>5. codes' = [codes EXCEPT ![k] = c] /\ codes[k].state = "open"
  BY <1>3 DEF Expire
<1>6. /\ codes' \in Seq(Code) /\ DOMAIN codes' = DOMAIN codes
      /\ \A n \in DOMAIN codes : codes'[n] = IF n = k THEN c ELSE codes[n]
  BY <1>1, <1>4, <1>5, ReplacedCode
<1>7. \A n \in DOMAIN codes : /\ codes'[n].type = codes[n].type
                              /\ codes'[n].redeemed = codes[n].redeemed
                              /\ codes[n].state = "consumed" => codes'[n].state = "consumed"
  BY <1>4, <1>5, <1>6
<1>8. Live' = Live
  BY <1>4, <1>5, <1>6 DEF Live, Gone
<1>9. \A ty : Redeemed(ty)' <=> Redeemed(ty)
  BY <1>6, <1>7 DEF Redeemed
<1>10. BaseInv'
  <2>1. TypeOK'
    BY <1>1, <1>2, <1>6 DEF BaseInv, TypeOK, Counts, Bounds
  <2>2. HandlersOK'
    BY <1>1, <1>2, <1>6, <1>7 DEF BaseInv, HandlersOK, HandlerOK
  <2> QED BY <2>1, <2>2 DEF BaseInv
<1>11. DoorInv => DoorInv'
  BY <1>2, <1>6, <1>7, <1>9 DEF DoorInv, Returning, Delivering
<1>12. AloneInv => AloneInv'
  <2>1. SUFFICES ASSUME AloneInv PROVE AloneInv'
    OBVIOUS
  <2>2. CodesOnce'
    BY <1>6, <1>7, <1>8, <2>1 DEF AloneInv, CodesOnce, Live
  <2>3. \A t \in Threads : AloneOK(thread[t])'
    BY <1>2, <1>7, <1>8, <2>1 DEF AloneInv, AloneOK, Live
  <2> QED BY <1>2, <2>1, <2>2, <2>3 DEF AloneInv, Busy
<1>13. BackInv => BackInv'
  <2>1. SUFFICES ASSUME BackInv PROVE BackInv'
    OBVIOUS
  <2>2. StageInv'
    BY <1>2, <1>7, <1>8, <1>9, <2>1 DEF BackInv, StageInv, Live, Counts
  <2>3. ASSUME NEW t \in Threads PROVE StageOK(thread[t])'
    BY <1>2, <1>7, <1>8, <1>9, <2>1 DEF BackInv, StageOK, Live, Counts
  <2> QED BY <2>2, <2>3 DEF BackInv
<1>14. PassedIsRefunded' /\ overlaps' = overlaps /\ edits' = edits
  BY <1>2 DEF ReturnsInv, PassedIsRefunded, Bounds
<1>15. delivered' = delivered /\ doc' = doc
  BY <1>2 DEF Counts
<1> QED BY <1>10, <1>11, <1>12, <1>13, <1>14, <1>15 DEF ReturnsInv, BaseInv
-----------------------------------------------------------------------------
(* The invariant.                                                          *)

LEMMA InitHolds == Init => ReturnsInv
<1> SUFFICES ASSUME Init PROVE ReturnsInv
  OBVIOUS
<1>1. /\ doc = Door /\ doc.out /\ doc.ret = "none" /\ doc.ret \in Early
      /\ DOMAIN codes = {} /\ codes \in Seq(Code)
      /\ delivered = 0 /\ refunds = 0 /\ commission = 0
      /\ overlaps = 0 /\ edits = 0 /\ faults = 0
  BY EmptySeq DEF Init, Door, Early
<1>2. \A t \in Threads : thread[t] = Idle /\ thread[t].pc = "idle" /\ thread[t].flow = "service"
  BY IdleTyped DEF Init
<1>3. TypeOK
  BY <1>1, BoundsAssumption, IdleTyped DEF Init, TypeOK
<1>4. HandlersOK
  BY <1>2 DEF HandlersOK, HandlerOK
<1>5. DoorInv
  BY <1>1, <1>2 DEF DoorInv, Returning, Delivering
<1>6. AloneInv
  BY <1>1, <1>2 DEF AloneInv, CodesOnce, AloneOK, Live, Busy
<1>7. BackInv
  BY <1>1, <1>2
  DEF BackInv, StageInv, StageOK, Live, Early, Back, At
<1> QED BY <1>1, <1>3, <1>4, <1>5, <1>6, <1>7 DEF ReturnsInv, PassedIsRefunded

LEMMA StepHolds == ReturnsInv /\ [Next]_vars => ReturnsInv'
<1> SUFFICES ASSUME ReturnsInv, [Next]_vars PROVE ReturnsInv'
  OBVIOUS
<1>1. ASSUME NEW t \in Threads, Continue(t) PROVE ReturnsInv'
  BY <1>1, SaveStep, InvalidateStep, InsertStep, PendStep, LookStep, MarkStep,
     HandOverStep, PickUpStep, EarnStep, DropOffStep, SaveVerdictStep,
     RefundCustomerStep, PayRiderStep, CloseReturnStep
  DEF Continue
<1>2. CASE Next
  BY <1>1, <1>2, ArriveStep, AbandonStep, ExpireStep DEF Next
<1>3. CASE UNCHANGED vars
  BY <1>3
  DEF vars, Counts, Bounds, ReturnsInv, TypeOK, HandlersOK, HandlerOK, PassedIsRefunded,
      DoorInv, Returning, Delivering, Redeemed, AloneInv, CodesOnce, AloneOK, Live, Busy,
      BackInv, StageInv, StageOK, At
<1> QED BY <1>2, <1>3

THEOREM Invariant == Spec => []ReturnsInv
BY InitHolds, StepHolds, PTL DEF Spec

\* The order, its codes and what its handlers have read keep their types.
THEOREM Types == Spec => []TypeOK
<1>1. ReturnsInv => TypeOK
  BY DEF ReturnsInv
<1> QED BY <1>1, Invariant, PTL

\* verifyHandoffOtpAndDeliver delivers an order once, and without an edit of the return
\* it takes the delivery code.
THEOREM DeliversOnce == Spec => []DeliveredOnce
<1>1. ReturnsInv => DeliveredOnce
  BY DEF ReturnsInv, DoorInv, DeliveredOnce
<1> QED BY <1>1, Invariant, PTL

\* Without overlapping handlers a code opens one hand-over, and a new code is the only
\* one of its type.
THEOREM UsesCodeOnce == Spec => []CodeUsedOnce
<1>1. ReturnsInv => CodeUsedOnce
  <2>1. SUFFICES ASSUME ReturnsInv, overlaps = 0
                 PROVE  /\ \A n \in DOMAIN codes : codes[n].redeemed <= 1
                        /\ \A ty \in CodeType : Cardinality(Open(codes, ty)) <= 1
    BY DEF CodeUsedOnce
  <2>2. CodesOnce /\ codes \in Seq(Code)
    BY <2>1 DEF ReturnsInv, AloneInv, TypeOK
  <2>3. ASSUME NEW n \in DOMAIN codes PROVE codes[n].redeemed <= 1
    <3>1. codes[n].redeemed \in Nat
      BY <2>2, CodesAre DEF Code
    <3> QED BY <2>2, <3>1 DEF CodesOnce
  <2>4. ASSUME NEW ty \in CodeType PROVE Cardinality(Open(codes, ty)) <= 1
    <3>1. CASE Open(codes, ty) = {}
      BY <3>1, FS_EmptySet
    <3>2. ASSUME NEW n \in Open(codes, ty) PROVE Cardinality(Open(codes, ty)) <= 1
      <4>1. Open(codes, ty) = {n}
        BY <2>2, <3>2 DEF Open, CodesOnce, Live
      <4> QED BY <4>1, FS_Singleton
    <3> QED BY <3>1, <3>2
  <2> QED BY <2>3, <2>4
<1> QED BY <1>1, Invariant, PTL

\* While no handlers overlap and no status is set out of its order, the customer is
\* refunded once at most, for goods that two codes confirmed were handed over.
THEOREM RefundsOnceAlone ==
    Spec => [](overlaps = 0 /\ edits = 0 => refunds <= 1 /\ RefundedForGoods)
<1>1. ReturnsInv => (overlaps = 0 /\ edits = 0 => refunds <= 1 /\ RefundedForGoods)
  <2>1. SUFFICES ASSUME ReturnsInv, overlaps = 0, edits = 0
                 PROVE  refunds <= 1 /\ RefundedForGoods
    OBVIOUS
  <2>2. StageInv /\ refunds \in Nat
    BY <2>1 DEF ReturnsInv, TypeOK, BackInv
  <2>3. refunds > 0 => refunds = 1
    BY <2>2 DEF StageInv
  <2>4. refunds > 0 => Redeemed(Pickup) /\ Redeemed(Drop)
    BY <2>2, <2>3 DEF StageInv, Early, Back
  <2> QED BY <2>2, <2>4 DEF StageInv, RefundedForGoods, Pickup, Drop
<1> QED BY <1>1, Invariant, PTL

\* A return that passed inspection is being refunded, as long as no handler dies.
THEOREM PassedGoesOn == Spec => []PassedIsRefunded
<1>1. ReturnsInv => PassedIsRefunded
  BY DEF ReturnsInv
<1> QED BY <1>1, Invariant, PTL
===============================================================================
