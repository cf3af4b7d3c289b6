---------------------------- MODULE PaymentPromise ----------------------------
(***************************************************************************)
(* What paying for a checkout promises: an order is paid for once, with    *)
(* money the gateway holds, and credited in the same moment; only a paid   *)
(* order that nobody has cancelled goes to its seller; and the checkout is *)
(* paid behind its last order.  PaymentCapture implements it.              *)
(***************************************************************************)
EXTENDS Naturals

CONSTANTS Payments, Orders

VARIABLES
    captured,   \* the payments whose money the gateway holds
    known,      \* those among them on record as captured
    order,      \* order[o]: where it is, and whether it is paid for
    credited,   \* credited[o]: times the platform was credited for o
    group       \* the status of the checkout

promiseVars == <<captured, known, order, credited, group>>

PromiseInit ==
    /\ captured = {}
    /\ known = {}
    /\ order = [o \in Orders |-> [ws |-> "CREATED", pay |-> "CREATED"]]
    /\ credited = [o \in Orders |-> 0]
    /\ group = "PAYMENT_PENDING"

Capture(p) ==
    /\ captured' = captured \cup {p}
    /\ UNCHANGED <<known, order, credited, group>>

\* The record of a capture is made, or lost to a handler that has not seen it.
Note(p) ==
    /\ p \in captured
    /\ known' = known \cup {p}
    /\ UNCHANGED <<captured, order, credited, group>>

Lose(p) ==
    /\ known' = known \ {p}
    /\ UNCHANGED <<captured, order, credited, group>>

Pay(o) ==
    /\ captured # {}
    /\ order[o].pay # "PAID"
    /\ order' = [order EXCEPT ![o].pay = "PAID"]
    /\ credited' = [credited EXCEPT ![o] = @ + 1]
    /\ UNCHANGED <<captured, known, group>>

HandOver(o) ==
    /\ order[o] = [ws |-> "CREATED", pay |-> "PAID"]
    /\ order' = [order EXCEPT ![o].ws = "SELLER_PENDING"]
    /\ UNCHANGED <<captured, known, credited, group>>

Cancel(o) ==
    /\ order' = [order EXCEPT ![o].ws = "CANCELLED"]
    /\ UNCHANGED <<captured, known, credited, group>>

Close ==
    /\ \A o \in Orders : order[o].pay = "PAID"
    /\ group' = "PAID"
    /\ UNCHANGED <<captured, known, order, credited>>

PromiseNext ==
    \/ \E p \in Payments : Capture(p) \/ Note(p) \/ Lose(p)
    \/ \E o \in Orders : Pay(o) \/ HandOver(o) \/ Cancel(o)
    \/ Close

PromiseSpec == PromiseInit /\ [][PromiseNext]_promiseVars
===============================================================================
