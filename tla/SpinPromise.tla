------------------------------ MODULE SpinPromise ------------------------------
(***************************************************************************)
(* What the wheel promises: a click is one spin, made all at once, from a  *)
(* slot of its customer and with a prize that is there to be won, whatever *)
(* the administrator has made of the wheel by then; and its customer is    *)
(* told that outcome and no other.  SpinWheel implements it.               *)
(***************************************************************************)
EXTENDS Integers, FiniteSets

CONSTANTS
    Clicks, Customers, Owner, Prizes, NoPrize, None, Unlimited, Sizes, Quantity,
    PerCustomer, MaxSpins, Days

VARIABLES
    outcome,    \* outcome[k]: what click k gave, or None
    period,     \* period[k]: whose slot it took, or 0
    spent,      \* spent[c][d]: the slots c has used in period d
    wheel,      \* wheel[p]: how many there are of p, how many are gone, its state
    told        \* told[k]: what the customer was told

promiseVars == <<outcome, period, spent, wheel, told>>

PromiseInit ==
    /\ outcome = [k \in Clicks |-> None]
    /\ period = [k \in Clicks |-> 0]
    /\ spent = [c \in Customers |-> [d \in Days |-> 0]]
    /\ wheel = [p \in Prizes |-> [total |-> Quantity[p], awarded |-> 0, state |-> "live"]]
    /\ told = [k \in Clicks |-> None]

\* Prize p is on the wheel, there is one left, and customer c may win it.
Winnable(c, p) ==
    /\ wheel[p].state = "live"
    /\ wheel[p].total # Unlimited => wheel[p].awarded < wheel[p].total
    /\ Cardinality({k \in Clicks : Owner[k] = c /\ outcome[k] = p}) < PerCustomer[p]

\* Click k spins, in period d, and gives o.
Spin(k, d, o) ==
    /\ outcome[k] = None
    /\ spent[Owner[k]][d] < MaxSpins
    /\ o \in Prizes => Winnable(Owner[k], o)
    /\ outcome' = [outcome EXCEPT ![k] = o]
    /\ period' = [period EXCEPT ![k] = d]
    /\ spent' = [spent EXCEPT ![Owner[k]][d] = @ + 1]
    /\ wheel' = [p \in Prizes |->
         IF p = o THEN [wheel[p] EXCEPT !.awarded = @ + 1] ELSE wheel[p]]
    /\ told' = told

Tell(k) ==
    /\ outcome[k] # None /\ told[k] = None
    /\ told' = [told EXCEPT ![k] = outcome[k]]
    /\ UNCHANGED <<outcome, period, spent, wheel>>

\* The administrator may do with a slice what he likes, but for what is gone of it.
Rearrange(p, n, state) ==
    /\ wheel' = [wheel EXCEPT ![p].total = n, ![p].state = state]
    /\ UNCHANGED <<outcome, period, spent, told>>

PromiseNext ==
    \/ \E k \in Clicks :
          \/ \E d \in Days, o \in Prizes \cup {NoPrize} : Spin(k, d, o)
          \/ Tell(k)
    \/ \E p \in Prizes, n \in Sizes, state \in {"live", "retired", "deleted"} :
          Rearrange(p, n, state)

PromiseSpec == PromiseInit /\ [][PromiseNext]_promiseVars
===============================================================================
