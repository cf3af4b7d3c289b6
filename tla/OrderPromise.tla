----------------------------- MODULE OrderPromise -----------------------------
(***************************************************************************)
(* What the order lifecycle promises, with threads, deadlines, payments    *)
(* and reservations left out.  An order is paid for, placed with its       *)
(* seller, and then either dropped or carried to the end: once the seller  *)
(* has accepted it is never dropped.  Only a dropped order gives its units *)
(* back, and each of them once; that much ends with the first status edit  *)
(* by an administrator, who may put units back on sale whatever became of  *)
(* the order.                                                              *)
(***************************************************************************)
EXTENDS Naturals

CONSTANTS Orders, Items

VARIABLES
    phase,      \* phase[o]: how far order o has come
    returned,   \* returned[o][i]: units of item i put back on sale, by whomever
    edited      \* an administrator has begun to edit a status

vars == <<phase, returned, edited>>

Phases == {"unpaid", "placed", "moving", "delivered", "dropped"}

TypeOK ==
    /\ phase \in [Orders -> Phases]
    /\ returned \in [Orders -> [Items -> Nat]]
    /\ edited \in BOOLEAN

Init ==
    /\ phase \in [Orders -> {"unpaid", "placed"}]
    /\ returned = [o \in Orders |-> [i \in Items |-> 0]]
    /\ edited = FALSE

Step(o, from, to) ==
    /\ phase[o] \in from
    /\ phase' = [phase EXCEPT ![o] = to]
    /\ UNCHANGED <<returned, edited>>

Place(o) == Step(o, {"unpaid"}, "placed")
Accept(o) == Step(o, {"placed"}, "moving")
Deliver(o) == Step(o, {"moving"}, "delivered")
Drop(o) == Step(o, {"unpaid", "placed"}, "dropped")

Return(o, i) ==
    /\ returned' = [returned EXCEPT ![o][i] = @ + 1]
    /\ UNCHANGED <<phase, edited>>

GiveBack(o, i) ==
    /\ phase[o] = "dropped"
    /\ returned[o][i] = 0
    /\ Return(o, i)

Edit == edited' = TRUE /\ UNCHANGED <<phase, returned>>

Correct(o, i) == edited /\ Return(o, i)

Next ==
    \/ Edit
    \/ \E o \in Orders :
          \/ Place(o) \/ Accept(o) \/ Deliver(o) \/ Drop(o)
          \/ \E i \in Items : GiveBack(o, i) \/ Correct(o, i)

Spec == Init /\ [][Next]_vars
=============================================================================
