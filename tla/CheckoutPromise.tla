---------------------------- MODULE CheckoutPromise ----------------------------
(***************************************************************************)
(* What a shop promises its customers: a call is sold what it wants all at *)
(* once or not at all, from what is left, and a customer never again under *)
(* a key that is on record.  Checkout implements it.                       *)
(***************************************************************************)
EXTENDS Integers

CONSTANTS Requests, Caller, Keys, NoKey, Items, Wants, Supply

VARIABLES
    sold,   \* what has been sold: the call, its key and its items
    record, \* the calls among them still on record
    left    \* left[i]: units of product i

promiseVars == <<sold, record, left>>

PromiseInit ==
    /\ sold = {}
    /\ record = {}
    /\ left = [i \in Items |-> Supply]

\* Call r, under key k, is sold want.
Sell(r, k, want) ==
    /\ \A s \in sold : s.call # r
    /\ k # NoKey =>
          \A s \in sold : s.call \in record /\ Caller[s.call] = Caller[r] => s.key # k
    /\ \A i \in want : left[i] > 0
    /\ sold' = sold \cup {[call |-> r, key |-> k, want |-> want]}
    /\ record' = record \cup {r}
    /\ left' = [i \in Items |-> left[i] - IF i \in want THEN 1 ELSE 0]

\* The record of a sale is dropped, the sale stands.
Forget(r) ==
    /\ r \in record
    /\ record' = record \ {r}
    /\ UNCHANGED <<sold, left>>

PromiseNext ==
    \E r \in Requests :
        \/ \E k \in Keys \cup {NoKey}, want \in Wants : Sell(r, k, want)
        \/ Forget(r)

PromiseSpec == PromiseInit /\ [][PromiseNext]_promiseVars
=============================================================================
