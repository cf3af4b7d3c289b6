--------------------------- MODULE MCOrderLifecycle ---------------------------
(***************************************************************************)
(* OrderLifecycle and its refinement on small instances.  The bodies of    *)
(* the status edits are the ones that tell the properties apart: a cancel  *)
(* and a plain move of the legacy status.                                  *)
(***************************************************************************)
EXTENDS OrderKeepsPromise, TLC

NoEdits == {}
CancelEdit == {[status |-> "cancelled", rider |-> NoRider]}
NoRiderEdits == CancelEdit \cup {[status |-> "packed", rider |-> NoRider]}

\* The orders, the items, the riders and the threads of a kind are alike.
RiderSymmetry ==
    Permutations(Orders) \cup Permutations(Items) \cup Permutations(Riders)
        \cup Permutations(JobThreads) \cup Permutations(RequestThreads)
=============================================================================
