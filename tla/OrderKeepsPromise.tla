-------------------------- MODULE OrderKeepsPromise ---------------------------
(***************************************************************************)
(* OrderLifecycle implements OrderPromise, as long as no status edit       *)
(* assigns a rider by hand: then a rider may hold a delivery code for an   *)
(* order in any status (validateDeliveryOtp of deliveryController), a      *)
(* dropped one included.                                                   *)
(***************************************************************************)
EXTENDS OrderLifecycle

\* How far an order has come, read off its workflow status.
Phase(w) ==
    CASE w = "CREATED" -> "unpaid"
      [] w = "SELLER_PENDING" -> "placed"
      [] w = "DELIVERED" -> "delivered"
      [] w = "CANCELLED" -> "dropped"
      [] OTHER -> "moving"

\* Every unit of an order that is on sale again, by compensation or by an edit.
Returned == [o \in Orders |-> [i \in Items |-> released[o][i] + corrected[o][i]]]

Promise == INSTANCE OrderPromise
    WITH phase <- [o \in Orders |-> Phase(order[o].ws)],
         returned <- Returned, edited <- (edits > 0)

\* Every behaviour of the handlers, crashes and races included, is one the
\* promise allows: an accepted order is carried to the end, a dropped order
\* stays dropped, and its units come back once each and only then, unless an
\* administrator edits a status.
PromiseKept == Promise!Spec

\* What that means for the units, whoever puts them back: each once, and none of a
\* live order, until the first edit.
ReturnedOnce ==
    edits > 0 \/ \A o \in Orders, i \in Items :
                     /\ Returned[o][i] <= 1
                     /\ order[o].ws \in LiveStatus => Returned[o][i] = 0

\* The workflow moves an order that its seller has accepted nowhere but on to its
\* delivery, never to CANCELLED; and delivered or cancelled is final.
AcceptedGoesOn ==
    [][\A o \in Orders :
          LET was == Phase(order[o].ws)
              is == Phase(order[o].ws)'
          IN  /\ was = "moving" => is \in {"moving", "delivered"}
              /\ was \in {"delivered", "dropped"} => is = was]_order
=============================================================================
