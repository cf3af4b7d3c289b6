------------------------------- MODULE SpinWheel -------------------------------
(***************************************************************************)
(* Spin and win: playSpin of spinService.js, the page that calls it        *)
(* (SpinWinPopup.jsx) and the administrator who edits the wheel            *)
(* (spinAdminController.js).                                               *)
(*                                                                         *)
(* A click has a key, which its page sends until it is told an outcome or  *)
(* refused; the page waits for one request at a time, but one it no longer *)
(* waits for may still be running.  A spin is one transaction, on a        *)
(* snapshot, which withTransaction repeats when another has written what   *)
(* it writes.  What a spin gives (the customer's reward, the cash, the     *)
(* ledger's entry) is written with its attempt and goes by its prize here. *)
(***************************************************************************)
EXTENDS Integers, FiniteSets

CONSTANTS
    Clicks,         \* keys of clicks
    Customers,
    Owner,          \* Owner[k]: who clicked
    Prizes,         \* slices that give something
    NoPrize,        \* the slice, or the outcome, that gives nothing
    None,
    Unlimited,      \* totalQuantity: null
    Totals,         \* the quantities an administrator may set
    Quantity,       \* Quantity[p]: totalQuantity at first
    PerCustomer,    \* PerCustomer[p]: perCustomerLimit
    Blank,          \* whether the wheel has a slice without a prize
    MaxSpins,       \* spins of a customer in a period
    LastDay,        \* bound: periods of the campaign
    Threads,        \* requests at once
    MaxFaults,      \* bound: pages that stop waiting and handlers that die
    MaxEdits        \* bound: what the administrator does

Days == 1 .. LastDay
Outcomes == Prizes \cup {NoPrize}
Sizes == Totals \cup {Unlimited}

ASSUME OwnerAssumption == Owner \in [Clicks -> Customers]
ASSUME ClicksAssumption == IsFiniteSet(Clicks) /\ IsFiniteSet(Prizes)
ASSUME OutcomesAssumption == NoPrize \notin Prizes /\ None \notin Outcomes
ASSUME SizesAssumption ==
    Totals \subseteq Nat /\ Unlimited \notin Nat /\ Quantity \in [Prizes -> Sizes]
ASSUME LimitAssumption == PerCustomer \in [Prizes -> Nat \ {0}]
ASSUME BoundsAssumption ==
    /\ {MaxSpins, LastDay} \subseteq Nat \ {0}
    /\ {MaxFaults, MaxEdits} \subseteq Nat
ASSUME BlankAssumption == Blank \in BOOLEAN
ASSUME ThreadsAssumption == None \notin Threads \cup Clicks

VARIABLES
    day,        \* the current period
    running,    \* whether the campaign is active, and spin and win is on
    prize,      \* prize[k]: the outcome of k's attempt
    when,       \* when[k]: the period its slot was taken in
    used,       \* used[c][d]: the count of a participation
    slice,      \* slice[p]: its quantity, how often it was claimed, its state
    thread,     \* thread[t]: where a request is
    page,       \* page[k]: whether it has asked, and was told or refused
    shown,      \* shown[k]: what it was told
    waiting,    \* waiting[k]: the request it waits for
    admin,      \* the edit of a slice being made
    edits, faults,
    raced,      \* history: an edit was saved over a claim it had not seen
    impatient   \* history: a page stopped waiting for a request

Database == <<prize, when, used>>
Front == <<page, shown, waiting>>
Office == <<running, slice, admin, edits, raced>>
vars == <<day, Database, Office, thread, Front, faults, impatient>>

Idle == [pc |-> "idle", click |-> None, day |-> 0, slices |-> {}, prize |-> None]
NoEdit == [what |-> "none"]

\* A request has looked for an earlier attempt; is about to begin its transaction, or to
\* begin it again; has drawn; has its outcome.
PC == {"idle", "checked", "open", "drawn", "decided"}

EditStates ==
    {NoEdit}
    \cup [what : {"save"}, prize : Prizes, seen : Nat, total : Sizes,
          state : {"live", "retired"}]
    \cup [what : {"delete"}, prize : Prizes, seen : Nat]

TypeOK ==
    /\ day \in Days
    /\ running \in BOOLEAN
    /\ prize \in [Clicks -> Outcomes \cup {None}]
    /\ when \in [Clicks -> Days \cup {0}]
    /\ used \in [Customers -> [Days -> 0 .. MaxSpins]]
    /\ slice \in [Prizes -> [total : Sizes, awarded : Nat,
                             state : {"live", "retired", "deleted"}]]
    /\ thread \in [Threads ->
         [pc : PC, click : Clicks \cup {None}, day : Days \cup {0},
          slices : SUBSET Prizes, prize : Outcomes \cup {None}]]
    /\ page \in [Clicks -> {"new", "held", "told", "refused"}]
    /\ shown \in [Clicks -> Outcomes \cup {None}]
    /\ waiting \in [Clicks -> Threads \cup {None}]
    /\ admin \in EditStates
    /\ edits \in 0 .. MaxEdits
    /\ faults \in 0 .. MaxFaults
    /\ {raced, impatient} \subseteq BOOLEAN

Init ==
    /\ day = 1
    /\ running = TRUE
    /\ prize = [k \in Clicks |-> None]
    /\ when = [k \in Clicks |-> 0]
    /\ used = [c \in Customers |-> [d \in Days |-> 0]]
    /\ slice = [p \in Prizes |->
         [total |-> Quantity[p], awarded |-> 0, state |-> "live"]]
    /\ thread = [t \in Threads |-> Idle]
    /\ page = [k \in Clicks |-> "new"]
    /\ shown = [k \in Clicks |-> None]
    /\ waiting = [k \in Clicks |-> None]
    /\ admin = NoEdit
    /\ edits = 0
    /\ faults = 0
    /\ raced = FALSE
    /\ impatient = FALSE
-------------------------------------------------------------------------------
(* The wheel.                                                              *)

Live == {p \in Prizes : slice[p].state = "live"}

\* The filter a claim is made with.
Claimable(p) ==
    /\ slice[p].state = "live"
    /\ slice[p].total # Unlimited => slice[p].awarded < slice[p].total

Won(c, p) == {k \in Clicks : Owner[k] = c /\ prize[k] = p}

Pool(th) ==
    {p \in th.slices : /\ Claimable(p)
                       /\ Cardinality(Won(Owner[th.click], p)) < PerCustomer[p]}

\* A pick that has just run out is dropped and another made; nothing left is no prize.
Draws(th) ==
    Pool(th) \cup IF Blank \/ Pool(th) = {} THEN {NoPrize} ELSE {}

\* validateRewardSet: two slices, one of them without end.
Runs(ps, total) ==
    /\ Cardinality(ps) + (IF Blank THEN 1 ELSE 0) >= 2
    /\ Blank \/ \E p \in ps : total[p] = Unlimited

\* Mutated form: only limited prizes are counted.
MeetsLimited(a, b) ==
    \/ a.click = b.click
    \/ Owner[a.click] = Owner[b.click] /\ a.day = b.day
    \/ a.prize = b.prize /\ a.prize \in Prizes /\ slice[a.prize].total # Unlimited

\* Mutated form: the index on the customer and the key is not unique.
MeetsElsewhere(a, b) ==
    \/ Owner[a.click] = Owner[b.click] /\ a.day = b.day
    \/ a.prize = b.prize /\ (a.prize # NoPrize \/ Blank)

\* Two spins write one document: an attempt with one key, the customer's participation
\* in a period, or the slice they claim.
Meets(a, b) ==
    \/ a.click = b.click
    \/ Owner[a.click] = Owner[b.click] /\ a.day = b.day
    \/ a.prize = b.prize /\ (a.prize # NoPrize \/ Blank)

\* A request for k that has its outcome.
Decided(k, o) == [Idle EXCEPT !.pc = "decided", !.click = k, !.prize = o]

\* The transaction is rolled back, to begin again.
Again(th) == [th EXCEPT !.pc = "open", !.prize = None]

\* The requests, slice p having been written.
Overtaken(p) ==
    [u \in Threads |->
        IF thread[u].pc = "drawn" /\ thread[u].prize = p THEN Again(thread[u])
        ELSE thread[u]]
-------------------------------------------------------------------------------
(* The page.                                                               *)

Fault == faults < MaxFaults /\ faults' = faults + 1

\* t has answered: page is what becomes of the page, if it still waits for t.
Hears(t, state, outcome) ==
    LET k == thread[t].click
        heard == waiting[k] = t
    IN  /\ thread' = [thread EXCEPT ![t] = Idle]
        /\ page' = IF heard THEN [page EXCEPT ![k] = state] ELSE page
        /\ shown' = IF heard THEN [shown EXCEPT ![k] = outcome] ELSE shown
        /\ waiting' = IF heard THEN [waiting EXCEPT ![k] = None] ELSE waiting

\* The page's request times out, or its connection breaks; it keeps the key.
StopWaiting(k) ==
    /\ waiting[k] # None
    /\ Fault
    /\ waiting' = [waiting EXCEPT ![k] = None]
    /\ impatient' = TRUE
    /\ UNCHANGED <<day, Database, Office, thread, page, shown>>

\* The process dies, or its transaction fails for good: no answer, or a 500.
Die(t) ==
    /\ thread[t].pc # "idle"
    /\ Fault
    /\ Hears(t, page[thread[t].click], None)
    /\ UNCHANGED <<day, Database, Office, impatient>>
-------------------------------------------------------------------------------
(* playSpin.                                                               *)

\* Mutated form: a repeated click is not looked up first.
AskAnew(t, k) ==
    /\ thread[t] = Idle
    /\ page[k] \in {"new", "held"} /\ waiting[k] = None
    /\ page' = [page EXCEPT ![k] = "held"]
    /\ waiting' = [waiting EXCEPT ![k] = t]
    /\ thread' = [thread EXCEPT ![t] = [Idle EXCEPT !.pc = "checked", !.click = k]]
    /\ UNCHANGED <<day, Database, Office, shown, faults, impatient>>

\* The page sends its click, and replayExistingAttempt looks for it.
Ask(t, k) ==
    /\ thread[t] = Idle
    /\ page[k] \in {"new", "held"} /\ waiting[k] = None
    /\ page' = [page EXCEPT ![k] = "held"]
    /\ waiting' = [waiting EXCEPT ![k] = t]
    /\ thread' = [thread EXCEPT ![t] =
         IF prize[k] = None THEN [Idle EXCEPT !.pc = "checked", !.click = k]
         ELSE Decided(k, prize[k])]
    /\ UNCHANGED <<day, Database, Office, shown, faults, impatient>>

SlotFree(th) == used[Owner[th.click]][th.day] < MaxSpins

\* The campaign is live, the customer has a spin left, the wheel has its slices.
Open(k) ==
    /\ running
    /\ used[Owner[k]][day] < MaxSpins
    /\ Cardinality(Live) + (IF Blank THEN 1 ELSE 0) >= 2

Enter(t) ==
    /\ thread[t].pc = "checked"
    /\ Open(thread[t].click)
    /\ thread' = [thread EXCEPT ![t].pc = "open", ![t].day = day, ![t].slices = Live]
    /\ UNCHANGED <<day, Database, Office, Front, faults, impatient>>

\* A page that is told so lets go of its key.
Refuse(t) ==
    /\ thread[t].pc = "checked"
    /\ ~Open(thread[t].click)
    /\ Hears(t, "refused", None)
    /\ UNCHANGED <<day, Database, Office, faults, impatient>>

\* The transaction on its snapshot: a slot, a prize from the pool.
Draw(t) ==
    /\ thread[t].pc = "open"
    /\ SlotFree(thread[t])
    /\ prize[thread[t].click] = None
    /\ \E p \in Draws(thread[t]) :
          thread' = [thread EXCEPT ![t].pc = "drawn", ![t].prize = p]
    /\ UNCHANGED <<day, Database, Office, Front, faults, impatient>>

\* The customer's slots are taken, by this click perhaps.
OutOfSpins(t) ==
    /\ thread[t].pc = "open"
    /\ ~SlotFree(thread[t])
    /\ Hears(t, "refused", None)
    /\ UNCHANGED <<day, Database, Office, faults, impatient>>

\* The attempt's key is taken: the transaction is rolled back and the attempt replayed.
Duplicate(t) ==
    /\ thread[t].pc = "open"
    /\ SlotFree(thread[t])
    /\ prize[thread[t].click] # None
    /\ thread' = [thread EXCEPT ![t] = Decided(@.click, prize[@.click])]
    /\ UNCHANGED <<day, Database, Office, Front, faults, impatient>>

Commit(t) ==
    /\ thread[t].pc = "drawn"
    /\ LET th == thread[t]
           c == Owner[th.click]
       IN  /\ prize' = [prize EXCEPT ![th.click] = th.prize]
           /\ when' = [when EXCEPT ![th.click] = th.day]
           /\ used' = [used EXCEPT ![c][th.day] = @ + 1]
           /\ slice' = [p \in Prizes |->
                IF p = th.prize THEN [slice[p] EXCEPT !.awarded = @ + 1] ELSE slice[p]]
           /\ thread' = [u \in Threads |->
                IF u = t THEN Decided(th.click, th.prize)
                ELSE IF thread[u].pc = "drawn" /\ Meets(thread[u], th)
                THEN Again(thread[u]) ELSE thread[u]]
    /\ UNCHANGED <<day, running, admin, edits, raced, Front, faults, impatient>>

Answer(t) ==
    /\ thread[t].pc = "decided"
    /\ Hears(t, "told", thread[t].prize)
    /\ UNCHANGED <<day, Database, Office, faults, impatient>>
-------------------------------------------------------------------------------
(* The administrator, who reads a slice and saves it later.                *)

Edit == edits < MaxEdits /\ edits' = edits + 1

Bystanders == <<day, Database, Front, faults, impatient>>

\* updateCampaignStatus: pause, and activate, when the wheel is sound.
Toggle ==
    /\ Edit
    /\ ~running => Runs(Live, [p \in Prizes |-> slice[p].total])
    /\ running' = ~running
    /\ UNCHANGED <<slice, admin, raced, thread, Bystanders>>

\* updateReward
EditSlice(p, n, state) ==
    /\ admin = NoEdit
    /\ slice[p].state # "deleted"
    /\ n # Unlimited => n >= slice[p].awarded
    /\ running => Runs(IF state = "live" THEN Live \cup {p} ELSE Live \ {p},
                       [q \in Prizes |-> IF q = p THEN n ELSE slice[q].total])
    /\ Edit
    /\ admin' = [what |-> "save", prize |-> p, seen |-> slice[p].awarded,
                 total |-> n, state |-> state]
    /\ UNCHANGED <<running, slice, raced, thread, Bystanders>>

\* deleteReward, which only deactivates a slice that has been won.
RemoveSlice(p) ==
    /\ admin = NoEdit
    /\ slice[p].state # "deleted"
    /\ running /\ p \in Live =>
           Runs(Live \ {p}, [q \in Prizes |-> slice[q].total])
    /\ Edit
    /\ admin' = IF slice[p].awarded > 0
                THEN [what |-> "save", prize |-> p, seen |-> slice[p].awarded,
                      total |-> slice[p].total, state |-> "retired"]
                ELSE [what |-> "delete", prize |-> p, seen |-> slice[p].awarded]
    /\ UNCHANGED <<running, slice, raced, thread, Bystanders>>

SaveSlice ==
    /\ admin # NoEdit
    /\ LET p == admin.prize
       IN  /\ slice' = IF admin.what = "save"
                       THEN [slice EXCEPT ![p].total = admin.total,
                                          ![p].state = admin.state]
                       ELSE [slice EXCEPT ![p].state = "deleted"]
           /\ thread' = Overtaken(p)
           /\ raced' = (raced \/ slice[p].awarded # admin.seen)
    /\ admin' = NoEdit
    /\ UNCHANGED <<running, edits, Bystanders>>
-------------------------------------------------------------------------------
Midnight ==
    /\ day < LastDay
    /\ day' = day + 1
    /\ UNCHANGED <<Database, Office, thread, Front, faults, impatient>>

Continue(t) ==
    \/ Enter(t) \/ Refuse(t) \/ Draw(t) \/ OutOfSpins(t) \/ Duplicate(t)
    \/ Commit(t) \/ Answer(t)

Next ==
    \/ \E t \in Threads :
          \/ \E k \in Clicks : Ask(t, k)
          \/ Continue(t)
          \/ Die(t)
    \/ \E k \in Clicks : StopWaiting(k)
    \/ Toggle
    \/ \E p \in Prizes :
          \/ \E n \in Sizes, state \in {"live", "retired"} : EditSlice(p, n, state)
          \/ RemoveSlice(p)
    \/ SaveSlice
    \/ Midnight

Spec == Init /\ [][Next]_vars

\* Fairness: a request that has started goes on, and a customer who was neither told nor
\* refused taps Spin again.
FairSpec ==
    /\ Spec
    /\ \A t \in Threads : WF_vars(Continue(t))
    /\ \A k \in Clicks : SF_vars(\E t \in Threads : Ask(t, k))
-------------------------------------------------------------------------------
(* Properties.                                                             *)

Spins(c, d) == {k \in Clicks : Owner[k] = c /\ when[k] = d}

\* One click, one spin, however many requests it takes: the slots counted are the
\* attempts on record and at most MaxSpins in a period, every prize counted is an
\* attempt's, and a page shows the outcome that is on record (the unique index on the
\* customer and the key, the conditional $inc of the participation).
SpinsAddUp ==
    /\ \A c \in Customers, d \in Days :
          used[c][d] = Cardinality(Spins(c, d)) /\ used[c][d] <= MaxSpins
    /\ \A p \in Prizes :
          slice[p].awarded = Cardinality({k \in Clicks : prize[k] = p})
    /\ \A k \in Clicks : shown[k] # None => shown[k] = prize[k]

\* No prize is given more often than there are, and none that was won is deleted, until
\* an edit is saved over a claim made since it read the slice; and no customer wins one
\* more often than he may, also when two of his spins, in two periods, overlap (only the
\* claim they both make keeps them apart).
PrizesLimited ==
    /\ ~raced => \A p \in Prizes :
          /\ slice[p].total # Unlimited => slice[p].awarded <= slice[p].total
          /\ slice[p].state = "deleted" => slice[p].awarded = 0
    /\ \A c \in Customers, p \in Prizes : Cardinality(Won(c, p)) <= PerCustomer[p]

\* Whoever has spun is told what he won, through crashes and lost answers.  Only if the
\* page once stopped waiting for a request that went on may the next one be refused,
\* since the first has taken the customer's last slot (playSpin replays an attempt it
\* meets when it begins, or at the unique index, but not when the slots are full).
PlayedIsTold ==
    \A k \in Clicks :
        prize[k] # None ~> \/ page[k] = "told"
                           \/ page[k] = "refused" /\ impatient
===============================================================================
