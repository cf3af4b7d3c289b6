---------------------------- MODULE HandoverCodes ----------------------------
(***************************************************************************)
(* The one-time codes of an order, as the two pieces of code that share    *)
(* the collection OrderOtp see them: orderWorkflowService.js (requestHand- *)
(* offOtpAtomic, verifyHandoffOtpAndDeliver) and deliveryOtpService.js     *)
(* (generate... and validate... for the delivery, the pick-up of a return  *)
(* and its drop-off).                                                      *)
(*                                                                         *)
(* The records of one order are a sequence, oldest first.  A record that   *)
(* the workflow deletes keeps its place, but nothing finds it again.       *)
(***************************************************************************)
EXTENDS Naturals, Sequences, FiniteSetsExt

CONSTANT MaxAttempts    \* wrong entries a record allows (maxAttempts: 3)

ASSUME MaxAttemptsAssumption == MaxAttempts \in Nat \ {0}

CodeType == {"delivery", "return_pickup", "return_drop"}

\* redeemed counts the entries that were taken for this record.
Code == [type : CodeType, state : {"open", "expired", "consumed", "deleted"},
         attempts : Nat, redeemed : Nat]

Fresh(ty) == [type |-> ty, state |-> "open", attempts |-> 0, redeemed |-> 0]

\* A record after a right entry, and after a wrong one that is the n-th.
Taken(code) == [code EXCEPT !.state = "consumed", !.redeemed = @ + 1]
Missed(code, n) == [code EXCEPT !.attempts = n]

Gone(cs) == {n \in DOMAIN cs : cs[n].state \in {"consumed", "deleted"}}

\* The newest record among ns.
Newest(ns) == IF ns = {} THEN 0 ELSE Max(ns)

\* validate...Otp looks at the newest record of the type, consumed or not;
LatestOf(cs, ty) == Newest({n \in DOMAIN cs : cs[n].type = ty /\ cs[n].state # "deleted"})

\* verifyHandoffOtpAndDeliver at the newest of any type that is not consumed.
LatestOpen(cs) == Newest(DOMAIN cs \ Gone(cs))

\* Before a new code is inserted: the records of these types that are not consumed
\* get this state.
Invalidated(cs, types, state) ==
    [n \in DOMAIN cs |-> IF cs[n].type \in types /\ n \notin Gone(cs)
                         THEN [cs[n] EXCEPT !.state = state]
                         ELSE cs[n]]

\* Whether a record may be compared with what was entered.
Usable(code) == code.state = "open" /\ code.attempts < MaxAttempts

\* How many records of a type could still be redeemed.
Open(cs, ty) == {n \in DOMAIN cs \ Gone(cs) : cs[n].type = ty}
==============================================================================
