---------------------------- MODULE SpinWheelProofs ----------------------------
(***************************************************************************)
(* For any number of clicks, customers, prizes and requests, any limits,   *)
(* periods, faults and edits: the types, that every click is one spin,     *)
(* that no prize is given too often, that SpinWheel implements             *)
(* SpinPromise, and what SpinPromise is worth.                             *)
(***************************************************************************)
EXTENDS SpinKeepsPromise, FiniteSetTheorems, TLAPS

Request == [pc : PC, click : Clicks \cup {None}, day : Days \cup {0},
            slices : SUBSET Prizes, prize : Outcomes \cup {None}]

\* What a spin that has drawn still holds: whoever takes it away makes it begin again.
Holds(th) ==
    /\ th.prize \in Outcomes
    /\ SlotFree(th)
    /\ prize[th.click] = None
    /\ th.prize \in Prizes =>
           /\ Claimable(th.prize)
           /\ Cardinality(Won(Owner[th.click], th.prize)) < PerCustomer[th.prize]

RequestOK(th) ==
    /\ th.pc # "idle" => th.click \in Clicks
    /\ th.pc \in {"open", "drawn"} => th.day \in Days
    /\ th.pc = "drawn" => Holds(th)
    /\ th.pc = "decided" => th.prize = prize[th.click] /\ th.prize # None

RequestsOK == \A t \in Threads : RequestOK(thread[t])

AttemptsOK == \A k \in Clicks : prize[k] = None <=> when[k] = 0

\* An edit under way has looked at the slice as it was.
EditOK ==
    /\ admin.what = "save" /\ ~raced /\ admin.total # Unlimited =>
           admin.total >= admin.seen
    /\ admin.what = "delete" => admin.seen = 0

SpinInv ==
    /\ TypeOK /\ AttemptsOK /\ SpinsAddUp /\ PrizesLimited /\ EditOK /\ RequestsOK

LEMMA IdleIsFine == Idle \in Request /\ RequestOK(Idle)
  BY OutcomesAssumption DEF Idle, Request, PC, RequestOK

LEMMA CountsFinite ==
    /\ \A c \in Customers, d \in Days : IsFiniteSet(Spins(c, d))
    /\ \A p \in Outcomes : IsFiniteSet({k \in Clicks : prize[k] = p})
    /\ \A c \in Customers, p \in Outcomes : IsFiniteSet(Won(c, p))
<1>1. \A S : S \subseteq Clicks => IsFiniteSet(S)
  BY ClicksAssumption, FS_Subset
<1> QED BY <1>1 DEF Spins, Won

LEMMA SpinInit == Init => SpinInv
<1> SUFFICES ASSUME Init PROVE SpinInv
  OBVIOUS
<1> USE BoundsAssumption, OutcomesAssumption, SizesAssumption
<1>1. 1 \in Days /\ 0 \notin Days
  BY DEF Days
<1>2. TypeOK
  <2>1. thread \in [Threads -> Request]
    BY IdleIsFine DEF Init
  <2>2. slice \in [Prizes -> [total : Sizes, awarded : Nat,
                              state : {"live", "retired", "deleted"}]]
    BY DEF Init
  <2>3. used \in [Customers -> [Days -> 0 .. MaxSpins]]
    BY DEF Init
  <2>4. /\ day \in Days /\ running \in BOOLEAN
        /\ prize \in [Clicks -> Outcomes \cup {None}]
        /\ when \in [Clicks -> Days \cup {0}]
        /\ page \in [Clicks -> {"new", "held", "told", "refused"}]
        /\ shown \in [Clicks -> Outcomes \cup {None}]
        /\ waiting \in [Clicks -> Threads \cup {None}]
    BY <1>1 DEF Init
  <2>5. edits \in 0 .. MaxEdits /\ faults \in 0 .. MaxFaults
    BY DEF Init
  <2>8. {raced, impatient} \subseteq BOOLEAN
    BY Zenon DEF Init
  <2>6. admin \in EditStates
    BY DEF Init, EditStates
  <2> HIDE BoundsAssumption, OutcomesAssumption, SizesAssumption
  <2>7. thread \in [Threads ->
         [pc : PC, click : Clicks \cup {None}, day : Days \cup {0},
          slices : SUBSET Prizes, prize : Outcomes \cup {None}]]
    BY <2>1 DEF Request
  <2> QED BY <2>2, <2>3, <2>4, <2>5, <2>6, <2>7, <2>8, Zenon DEF TypeOK
<1>3. AttemptsOK
  BY DEF Init, AttemptsOK
<1>4. /\ \A c \in Customers, d \in Days : Spins(c, d) = {}
      /\ \A p \in Prizes : {k \in Clicks : prize[k] = p} = {}
      /\ \A c \in Customers, p \in Prizes : Won(c, p) = {}
  <2>1. /\ \A k \in Clicks : prize[k] = None /\ when[k] = 0
        /\ None \notin Prizes
    BY DEF Init, Outcomes
  <2> QED BY <1>1, <2>1 DEF Spins, Won
<1>5. Cardinality({}) = 0
  BY FS_EmptySet
<1>6. SpinsAddUp
  <2>1. \A c \in Customers, d \in Days : used[c][d] = 0
    BY DEF Init
  <2>2. \A p \in Prizes : slice[p].awarded = 0
    BY DEF Init
  <2>3. \A k \in Clicks : shown[k] = None
    BY DEF Init
  <2>4. 0 <= MaxSpins
    OBVIOUS
  <2> QED BY <1>4, <1>5, <2>1, <2>2, <2>3, <2>4 DEF SpinsAddUp
<1>7. PrizesLimited
  <2>1. \A p \in Prizes :
            /\ slice[p].total # Unlimited => slice[p].awarded <= slice[p].total
            /\ slice[p].state = "deleted" => slice[p].awarded = 0
    <3> SUFFICES ASSUME NEW p \in Prizes
                 PROVE  /\ slice[p].total # Unlimited =>
                               slice[p].awarded <= slice[p].total
                        /\ slice[p].state = "deleted" => slice[p].awarded = 0
      OBVIOUS
    <3>1. slice[p].total = Quantity[p] /\ slice[p].awarded = 0
          /\ slice[p].state = "live"
      BY DEF Init
    <3>2. Quantity[p] # Unlimited => Quantity[p] \in Nat
      BY DEF Sizes
    <3> QED BY <3>1, <3>2
  <2>2. \A c \in Customers, p \in Prizes : Cardinality(Won(c, p)) <= PerCustomer[p]
    BY <1>4, <1>5, LimitAssumption
  <2> QED BY <2>1, <2>2 DEF PrizesLimited
<1>8. EditOK
  BY DEF Init, EditOK, NoEdit
<1>9. RequestsOK
  BY IdleIsFine DEF Init, RequestsOK
<1> QED BY <1>2, <1>3, <1>6, <1>7, <1>8, <1>9 DEF SpinInv

Pages == /\ page' \in [Clicks -> {"new", "held", "told", "refused"}]
         /\ shown' \in [Clicks -> Outcomes \cup {None}]
         /\ waiting' \in [Clicks -> Threads \cup {None}]
         /\ \A k \in Clicks : shown'[k] # None => shown'[k] = prize[k]

\* A step that writes neither the attempts nor the slices, and after which every request
\* is as it should be.
LEMMA Moves ==
    ASSUME SpinInv, UNCHANGED <<Database, Office>>, Pages,
           NEW t \in Threads, NEW th \in Request, RequestOK(th),
           thread' = [thread EXCEPT ![t] = th],
           day' \in Days, faults' \in 0 .. MaxFaults, impatient' \in BOOLEAN
    PROVE  SpinInv'
<1> USE DEF Database, Office
<1>1. TypeOK'
  BY DEF SpinInv, TypeOK, Request, Pages
<1>2. AttemptsOK' /\ EditOK'
  BY DEF SpinInv, AttemptsOK, EditOK
<1>3. SpinsAddUp'
  BY DEF SpinInv, SpinsAddUp, Spins, Pages
<1>4. PrizesLimited'
  BY DEF SpinInv, PrizesLimited, Won
<1>5. RequestsOK'
  <2>1. \A u \in Threads : RequestOK(thread'[u])
    BY DEF SpinInv, RequestsOK, TypeOK
  <2> QED
    BY <2>1 DEF RequestsOK, RequestOK, Holds, SlotFree, Claimable, Won
<1> QED BY <1>1, <1>2, <1>3, <1>4, <1>5 DEF SpinInv

\* Neither attempts, slices nor requests change.
LEMMA LeavesAlone ==
    ASSUME SpinInv, UNCHANGED <<Database, slice, thread>>, TypeOK', Pages,
           EditOK', raced' = raced
    PROVE  SpinInv'
<1> USE DEF Database
<1>1. AttemptsOK'
  BY DEF SpinInv, AttemptsOK
<1>2. SpinsAddUp'
  BY DEF SpinInv, SpinsAddUp, Spins, Pages
<1>3. PrizesLimited'
  BY DEF SpinInv, PrizesLimited, Won
<1>4. RequestsOK'
  BY DEF SpinInv, RequestsOK, RequestOK, Holds, SlotFree, Claimable, Won
<1> QED BY <1>1, <1>2, <1>3, <1>4 DEF SpinInv
\* What an answer does to the page.
LEMMA PageHears ==
    ASSUME SpinInv, NEW t \in Threads, thread[t].pc # "idle",
           NEW state \in {"new", "held", "told", "refused"},
           NEW o \in Outcomes \cup {None}, o # None => o = prize[thread[t].click],
           Hears(t, state, o)
    PROVE  Pages /\ thread' = [thread EXCEPT ![t] = Idle]
<1>1. thread[t].click \in Clicks
  BY DEF SpinInv, RequestsOK, RequestOK
<1>2. \A k \in Clicks : shown[k] # None => shown[k] = prize[k]
  BY DEF SpinInv, SpinsAddUp
<1> QED BY <1>1, <1>2 DEF Hears, Pages, SpinInv, TypeOK

LEMMA PagesStay == ASSUME SpinInv, UNCHANGED Front PROVE Pages
  BY DEF SpinInv, TypeOK, SpinsAddUp, Front, Pages

\* The steps of a spin but its commit.
LEMMA Playing ==
    ASSUME SpinInv, NEW t \in Threads,
           \/ \E k \in Clicks : Ask(t, k)
           \/ Enter(t) \/ Refuse(t) \/ Draw(t) \/ OutOfSpins(t) \/ Duplicate(t)
           \/ Answer(t) \/ Die(t)
    PROVE  SpinInv'
<1> DEFINE th == thread[t]
<1>0. /\ th \in Request /\ RequestOK(th)
      /\ day \in Days /\ faults \in 0 .. MaxFaults /\ impatient \in BOOLEAN
      /\ prize \in [Clicks -> Outcomes \cup {None}]
  BY DEF SpinInv, TypeOK, RequestsOK, Request
<1>1. CASE \E k \in Clicks : Ask(t, k)
  <2> PICK k \in Clicks : Ask(t, k)
    BY <1>1
  <2> DEFINE to == IF prize[k] = None THEN [Idle EXCEPT !.pc = "checked", !.click = k]
                   ELSE Decided(k, prize[k])
  <2>1. to \in Request /\ RequestOK(to)
    BY <1>0, OutcomesAssumption DEF Request, RequestOK, Decided, Idle, PC
  <2>2. Pages
    BY DEF Ask, SpinInv, TypeOK, SpinsAddUp, Pages
  <2>3. thread' = [thread EXCEPT ![t] = to]
    BY DEF Ask
  <2> HIDE DEF to
  <2> QED BY <1>0, <2>1, <2>2, <2>3, Moves DEF Ask
<1>2. CASE Enter(t)
  <2> DEFINE to == [th EXCEPT !.pc = "open", !.day = day, !.slices = Live]
  <2>1. to \in Request /\ RequestOK(to)
    BY <1>0, <1>2 DEF Enter, Request, RequestOK, Live, PC
  <2>2. Pages
    BY <1>2, PagesStay DEF Enter
  <2>3. thread' = [thread EXCEPT ![t] = to]
    BY <1>0, <1>2 DEF Enter
  <2> HIDE DEF to
  <2> QED BY <1>0, <1>2, <2>1, <2>2, <2>3, Moves DEF Enter
<1>3. CASE Refuse(t) \/ OutOfSpins(t)
  <2>1. Pages /\ thread' = [thread EXCEPT ![t] = Idle]
    BY <1>3, PageHears DEF Refuse, OutOfSpins
  <2> QED BY <1>0, <1>3, <2>1, IdleIsFine, Moves DEF Refuse, OutOfSpins
<1>4. CASE Draw(t)
  <2> PICK p \in Draws(th) :
         thread' = [thread EXCEPT ![t].pc = "drawn", ![t].prize = p]
    BY <1>4 DEF Draw
  <2> DEFINE to == [th EXCEPT !.pc = "drawn", !.prize = p]
  <2>1. p \in Outcomes /\ (p \in Prizes => p \in Pool(th))
    BY <1>0, OutcomesAssumption DEF Draws, Pool, Outcomes, Request
  <2>2. to \in Request
    BY <1>0, <2>1 DEF Request, PC
  <2>3. RequestOK(to)
    BY <1>0, <1>4, <2>1 DEF Draw, Request, RequestOK, Holds, Pool, SlotFree
  <2>4. Pages
    BY <1>4, PagesStay DEF Draw
  <2>5. thread' = [thread EXCEPT ![t] = to]
    BY <1>0 DEF Request
  <2> HIDE DEF to
  <2> QED BY <1>0, <1>4, <2>2, <2>3, <2>4, <2>5, Moves DEF Draw
<1>5. CASE Duplicate(t)
  <2> DEFINE to == Decided(th.click, prize[th.click])
  <2>1. to \in Request /\ RequestOK(to)
    BY <1>0, <1>5 DEF Duplicate, Request, RequestOK, Decided, Idle, PC
  <2>2. Pages
    BY <1>5, PagesStay DEF Duplicate
  <2>3. thread' = [thread EXCEPT ![t] = to]
    BY <1>5 DEF Duplicate
  <2> HIDE DEF to
  <2> QED BY <1>0, <1>5, <2>1, <2>2, <2>3, Moves DEF Duplicate
<1>6. CASE Answer(t)
  <2>1. Pages /\ thread' = [thread EXCEPT ![t] = Idle]
    BY <1>0, <1>6, PageHears DEF Answer, RequestOK, Request
  <2> QED BY <1>0, <1>6, <2>1, IdleIsFine, Moves DEF Answer
<1>7. CASE Die(t)
  <2>1. page[th.click] \in {"new", "held", "told", "refused"}
    BY <1>0, <1>7 DEF Die, SpinInv, TypeOK, RequestOK
  <2>2. Pages /\ thread' = [thread EXCEPT ![t] = Idle]
    BY <1>7, <2>1, PageHears DEF Die
  <2>3. faults' \in 0 .. MaxFaults
    BY <1>0, <1>7, BoundsAssumption DEF Die, Fault
  <2> QED BY <1>0, <1>7, <2>2, <2>3, IdleIsFine, Moves DEF Die
<1> QED BY <1>1, <1>2, <1>3, <1>4, <1>5, <1>6, <1>7
LEMMA CountsUp ==
    ASSUME NEW S, NEW T, IsFiniteSet(S), NEW k, k \notin S, T = S \cup {k}
    PROVE  Cardinality(T) = Cardinality(S) + 1
  BY FS_AddElement

\* A committed spin, and what it leaves to the others.
LEMMA Committing == ASSUME SpinInv, NEW t \in Threads, Commit(t) PROVE SpinInv'
<1> DEFINE th == thread[t]
           k == th.click
           c == Owner[k]
           p == th.prize
<1>0. /\ k \in Clicks /\ c \in Customers /\ th.day \in Days /\ p \in Outcomes
      /\ th.pc = "drawn" /\ Holds(th) /\ p # None
  BY OwnerAssumption, OutcomesAssumption
     DEF SpinInv, TypeOK, RequestsOK, RequestOK, Holds, Commit
<1>1. /\ prize' = [prize EXCEPT ![k] = p] /\ when' = [when EXCEPT ![k] = th.day]
      /\ used' = [used EXCEPT ![c][th.day] = @ + 1]
      /\ slice' = [r \in Prizes |->
           IF r = p THEN [slice[r] EXCEPT !.awarded = @ + 1] ELSE slice[r]]
      /\ thread' = [u \in Threads |->
           IF u = t THEN Decided(k, p)
           ELSE IF thread[u].pc = "drawn" /\ Meets(thread[u], th)
           THEN Again(thread[u]) ELSE thread[u]]
      /\ UNCHANGED <<day, running, admin, edits, raced, page, shown, waiting, faults,
                     impatient>>
  BY DEF Commit, Front
<1>2. /\ prize \in [Clicks -> Outcomes \cup {None}]
      /\ when \in [Clicks -> Days \cup {0}]
      /\ used \in [Customers -> [Days -> 0 .. MaxSpins]]
      /\ slice \in [Prizes -> [total : Sizes, awarded : Nat,
                               state : {"live", "retired", "deleted"}]]
      /\ thread \in [Threads -> Request]
  BY DEF SpinInv, TypeOK, Request
<1>3. prize[k] = None /\ when[k] = 0 /\ used[c][th.day] < MaxSpins /\ 0 \notin Days
  BY <1>0 DEF SpinInv, AttemptsOK, Holds, SlotFree, Days
<1>4. Decided(k, p) \in Request /\ \A u \in Threads : Again(thread[u]) \in Request
  BY <1>0, <1>2 DEF Decided, Again, Request, Idle, PC
<1>5. TypeOK'
  <2>1. prize' \in [Clicks -> Outcomes \cup {None}]
    BY <1>0, <1>1, <1>2
  <2>2. when' \in [Clicks -> Days \cup {0}]
    BY <1>0, <1>1, <1>2
  <2>3. used' \in [Customers -> [Days -> 0 .. MaxSpins]]
    BY <1>0, <1>1, <1>2, <1>3, BoundsAssumption
  <2>4. slice' \in [Prizes -> [total : Sizes, awarded : Nat,
                               state : {"live", "retired", "deleted"}]]
    BY <1>1, <1>2
  <2>5. thread' \in [Threads -> Request]
    BY <1>1, <1>2, <1>4
  <2> QED BY <1>1, <2>1, <2>2, <2>3, <2>4, <2>5 DEF SpinInv, TypeOK, Request
<1>6. AttemptsOK'
  BY <1>0, <1>1, <1>2, <1>3 DEF SpinInv, AttemptsOK
<1>7. \A d \in Days, e \in Customers :
         Spins(e, d)' = IF e = c /\ d = th.day THEN Spins(e, d) \cup {k} ELSE Spins(e, d)
  BY <1>0, <1>1, <1>2, <1>3 DEF Spins
<1>8. \A r \in Outcomes :
         {j \in Clicks : prize'[j] = r} =
             IF r = p THEN {j \in Clicks : prize[j] = r} \cup {k}
             ELSE {j \in Clicks : prize[j] = r}
  BY <1>0, <1>1, <1>2, <1>3, OutcomesAssumption
<1>9. \A r \in Outcomes, e \in Customers :
         Won(e, r)' = IF r = p /\ e = c THEN Won(e, r) \cup {k} ELSE Won(e, r)
  BY <1>0, <1>1, <1>2, <1>3, OutcomesAssumption DEF Won
<1>10. /\ k \notin Spins(c, th.day) /\ k \notin {j \in Clicks : prize[j] = p}
       /\ k \notin Won(c, p)
  BY <1>0, <1>3 DEF Spins, Won
<1>11. SpinsAddUp'
  <2>1. \A e \in Customers, d \in Days :
           used'[e][d] = Cardinality(Spins(e, d)') /\ used'[e][d] <= MaxSpins
    <3> SUFFICES ASSUME NEW e \in Customers, NEW d \in Days
                 PROVE  used'[e][d] = Cardinality(Spins(e, d)') /\ used'[e][d] <= MaxSpins
      OBVIOUS
    <3>1. used[e][d] = Cardinality(Spins(e, d)) /\ used[e][d] <= MaxSpins
      BY DEF SpinInv, SpinsAddUp
    <3>2. CASE e = c /\ d = th.day
      <4>1. Cardinality(Spins(e, d)') = Cardinality(Spins(e, d)) + 1
        BY <1>7, <1>10, <3>2, CountsFinite, CountsUp
      <4>2. used'[e][d] = used[e][d] + 1
        BY <1>1, <1>2, <3>2
      <4> QED BY <1>2, <1>3, <3>1, <3>2, <4>1, <4>2, BoundsAssumption
    <3>3. CASE ~(e = c /\ d = th.day)
      <4>1. Spins(e, d)' = Spins(e, d)
        BY <1>7, <3>3
      <4>2. used'[e][d] = used[e][d]
        BY <1>0, <1>1, <1>2, <3>3
      <4> QED BY <3>1, <4>1, <4>2
    <3> QED BY <3>2, <3>3
  <2>2. \A r \in Prizes :
           slice'[r].awarded = Cardinality({j \in Clicks : prize'[j] = r})
    <3> SUFFICES ASSUME NEW r \in Prizes
                 PROVE  slice'[r].awarded = Cardinality({j \in Clicks : prize'[j] = r})
      OBVIOUS
    <3>1. slice[r].awarded = Cardinality({j \in Clicks : prize[j] = r}) /\ r \in Outcomes
      BY DEF SpinInv, SpinsAddUp, Outcomes
    <3>2. CASE r = p
      <4>1. Cardinality({j \in Clicks : prize'[j] = r})
              = Cardinality({j \in Clicks : prize[j] = r}) + 1
        BY <1>8, <1>10, <3>1, <3>2, CountsFinite, CountsUp
      <4>2. slice'[r].awarded = slice[r].awarded + 1
        BY <1>1, <1>2, <3>2
      <4> QED BY <3>1, <4>1, <4>2
    <3>3. CASE r # p
      <4>1. slice'[r].awarded = slice[r].awarded
        BY <1>1, <3>3
      <4>2. {j \in Clicks : prize'[j] = r} = {j \in Clicks : prize[j] = r}
        BY <1>8, <3>1, <3>3
      <4> QED BY <3>1, <4>1, <4>2
    <3> QED BY <3>2, <3>3
  <2>3. \A j \in Clicks : shown'[j] # None => shown'[j] = prize'[j]
    BY <1>0, <1>1, <1>2, <1>3 DEF SpinInv, SpinsAddUp
  <2> QED BY <2>1, <2>2, <2>3 DEF SpinsAddUp
<1>12. PrizesLimited'
  <2>1. raced' = raced
    BY <1>1
  <2>2. ASSUME NEW r \in Prizes, ~raced
        PROVE  /\ slice'[r].total # Unlimited => slice'[r].awarded <= slice'[r].total
               /\ slice'[r].state = "deleted" => slice'[r].awarded = 0
    <3>1. /\ slice[r].total # Unlimited => slice[r].awarded <= slice[r].total
          /\ slice[r].state = "deleted" => slice[r].awarded = 0
      BY <2>2 DEF SpinInv, PrizesLimited
    <3>2. CASE r = p
      <4>1. Claimable(r)
        BY <1>0, <3>2 DEF Holds
      <4>2. slice[r].awarded \in Nat /\ slice[r].total \in Nat \cup {Unlimited}
        BY <1>2, SizesAssumption DEF Sizes
      <4>3. /\ slice'[r].total = slice[r].total /\ slice'[r].state = slice[r].state
            /\ slice'[r].awarded = slice[r].awarded + 1
        BY <1>1, <1>2, <3>2
      <4> QED BY <4>1, <4>2, <4>3 DEF Claimable
    <3>3. CASE r # p
      BY <1>1, <3>1, <3>3
    <3> QED BY <3>2, <3>3
  <2>3. ASSUME NEW e \in Customers, NEW r \in Prizes
        PROVE  Cardinality(Won(e, r)') <= PerCustomer[r]
    <3>1. Cardinality(Won(e, r)) <= PerCustomer[r] /\ r \in Outcomes
      BY DEF SpinInv, PrizesLimited, Outcomes
    <3>2. CASE r = p /\ e = c
      <4>1. Cardinality(Won(e, r)) < PerCustomer[r]
        BY <1>0, <3>2 DEF Holds
      <4>2. Cardinality(Won(e, r)') = Cardinality(Won(e, r)) + 1
        BY <1>9, <1>10, <3>1, <3>2, CountsFinite, CountsUp
      <4>3. Cardinality(Won(e, r)) \in Nat /\ PerCustomer[r] \in Nat
        BY <3>1, CountsFinite, FS_CardinalityType, LimitAssumption
      <4> QED BY <4>1, <4>2, <4>3
    <3>3. CASE ~(r = p /\ e = c)
      BY <1>9, <3>1, <3>3
    <3> QED BY <3>2, <3>3
  <2> QED BY <2>1, <2>2, <2>3 DEF PrizesLimited
<1>13. EditOK'
  BY <1>1 DEF SpinInv, EditOK
<1>14. ASSUME NEW u \in Threads PROVE RequestOK(thread[u])'
  <2>1. RequestOK(thread[u]) /\ thread[u] \in Request
    BY <1>2 DEF SpinInv, RequestsOK
  <2>2. CASE u = t
    <3>1. thread'[u] = Decided(k, p) /\ prize'[k] = p
      BY <1>0, <1>1, <1>2, <2>2
    <3> QED BY <1>0, <3>1 DEF RequestOK, Decided, Idle
  <2>3. CASE u # t /\ thread[u].pc = "drawn" /\ Meets(thread[u], th)
    <3>1. thread'[u] = Again(thread[u])
      BY <1>1, <2>3
    <3>2. /\ Again(thread[u]).pc = "open" /\ Again(thread[u]).click = thread[u].click
          /\ Again(thread[u]).day = thread[u].day
      BY <2>1 DEF Again, Request
    <3> QED BY <2>1, <2>3, <3>1, <3>2 DEF RequestOK
  <2>4. CASE u # t /\ thread[u].pc = "drawn" /\ ~Meets(thread[u], th)
    <3> DEFINE other == thread[u]
               j == other.click
               r == other.prize
    <3>1. thread'[u] = other
      BY <1>1, <2>4
    <3>2. /\ j \in Clicks /\ Owner[j] \in Customers /\ other.day \in Days
          /\ Holds(other) /\ r \in Outcomes
      BY <2>1, <2>4, OwnerAssumption DEF RequestOK, Holds
    <3>3. /\ j # k /\ ~(Owner[j] = c /\ other.day = th.day)
          /\ r \in Prizes => r # p
      BY <2>4, OutcomesAssumption DEF Meets
    <3>4. used'[Owner[j]][other.day] = used[Owner[j]][other.day]
      BY <1>0, <1>1, <1>2, <3>2, <3>3
    <3>5. prize'[j] = prize[j]
      BY <1>1, <1>2, <3>2, <3>3
    <3>6. r \in Prizes => slice'[r] = slice[r] /\ Won(Owner[j], r)' = Won(Owner[j], r)
      <4>1. \A e \in Customers, q \in Outcomes : q # p => Won(e, q)' = Won(e, q)
        BY <1>9
      <4>2. r \in Prizes => slice'[r] = slice[r]
        BY <1>1, <3>3
      <4>3. thread'[u].click = j /\ thread'[u].prize = r
        BY <3>1
      <4> QED BY <3>2, <3>3, <4>1, <4>2, <4>3
    <3>7. Holds(other)'
      <4>1. /\ thread'[u].click = j /\ thread'[u].prize = r
            /\ thread'[u].day = other.day
        BY <3>1
      <4>2. SlotFree(other)'
        BY <3>2, <3>4, <4>1 DEF Holds, SlotFree
      <4>3. r \in Prizes => Claimable(r)' /\
               Cardinality(Won(Owner[j], r)') < PerCustomer[r]
        BY <3>2, <3>6, <4>1 DEF Holds, Claimable
      <4> QED BY <3>1, <3>2, <3>5, <4>1, <4>2, <4>3 DEF Holds, Claimable, Won
    <3> QED BY <2>4, <3>1, <3>2, <3>7 DEF RequestOK
  <2>5. CASE u # t /\ thread[u].pc # "drawn"
    <3>1. thread'[u] = thread[u]
      BY <1>1, <2>5
    <3>2. thread[u].pc = "decided" => prize'[thread[u].click] = prize[thread[u].click]
      BY <1>0, <1>1, <1>2, <1>3, <2>1, <2>5 DEF RequestOK
    <3> QED BY <2>1, <2>5, <3>1, <3>2 DEF RequestOK
  <2> QED BY <2>2, <2>3, <2>4, <2>5
<1>15. RequestsOK'
  BY <1>14 DEF RequestsOK
<1> QED BY <1>5, <1>6, <1>11, <1>12, <1>13, <1>15 DEF SpinInv
\* What has no request in its way: a page that stops waiting, midnight, a campaign that
\* is paused or activated, an edit that begins.
LEMMA Elsewhere ==
    ASSUME SpinInv,
           \/ \E k \in Clicks : StopWaiting(k)
           \/ Toggle \/ Midnight
           \/ \E p \in Prizes :
                 \/ \E n \in Sizes, state \in {"live", "retired"} : EditSlice(p, n, state)
                 \/ RemoveSlice(p)
    PROVE  SpinInv'
<1>0. TypeOK /\ EditOK
  BY DEF SpinInv
<1>1. CASE \E k \in Clicks : StopWaiting(k)
  <2> PICK k \in Clicks : StopWaiting(k)
    BY <1>1
  <2>1. Pages
    BY DEF StopWaiting, SpinInv, TypeOK, SpinsAddUp, Pages
  <2>2. faults' \in 0 .. MaxFaults
    BY <1>0, BoundsAssumption DEF StopWaiting, Fault, TypeOK
  <2>3. UNCHANGED <<day, Database, Office, thread>> /\ impatient' \in BOOLEAN
    BY DEF StopWaiting
  <2>4. TypeOK'
    BY <1>0, <2>1, <2>2, <2>3 DEF Database, Office, Pages, TypeOK
  <2>5. EditOK'
    BY <1>0, <2>3 DEF Office, EditOK
  <2> QED BY <2>1, <2>3, <2>4, <2>5, LeavesAlone DEF Office
<1>2. CASE Midnight
  <2>1. Pages
    BY <1>2, PagesStay DEF Midnight
  <2>2. day' \in Days
    BY <1>0, <1>2, BoundsAssumption DEF Midnight, TypeOK, Days
  <2>3. TypeOK' /\ EditOK'
    BY <1>0, <1>2, <2>2 DEF Midnight, Database, Office, Front, TypeOK, EditOK
  <2> QED BY <1>2, <2>1, <2>3, LeavesAlone DEF Midnight, Office
<1>3. CASE Toggle
  <2>1. Pages
    BY <1>3, PagesStay DEF Toggle, Bystanders
  <2>2. edits' \in 0 .. MaxEdits
    BY <1>0, <1>3, BoundsAssumption DEF Toggle, Edit, TypeOK
  <2>3. TypeOK' /\ EditOK'
    BY <1>0, <1>3, <2>2 DEF Toggle, Bystanders, Database, Front, TypeOK, EditOK
  <2> QED BY <1>3, <2>1, <2>3, LeavesAlone DEF Toggle, Bystanders
<1>4. ASSUME NEW p \in Prizes, NEW n \in Sizes, NEW state \in {"live", "retired"},
             EditSlice(p, n, state)
      PROVE  SpinInv'
  <2>1. Pages
    BY <1>4, PagesStay DEF EditSlice, Bystanders
  <2>2. edits' \in 0 .. MaxEdits
    BY <1>0, <1>4, BoundsAssumption DEF EditSlice, Edit, TypeOK
  <2>3. /\ admin' = [what |-> "save", prize |-> p, seen |-> slice[p].awarded,
                     total |-> n, state |-> state]
        /\ n # Unlimited => n >= slice[p].awarded
        /\ UNCHANGED <<running, slice, raced, thread, Bystanders>>
    BY <1>4 DEF EditSlice
  <2>4. admin' \in EditStates
    BY <1>0, <2>3 DEF TypeOK, EditStates
  <2>5. TypeOK'
    BY <1>0, <2>2, <2>3, <2>4 DEF Bystanders, Database, Front, TypeOK
  <2>6. EditOK'
    BY <2>3 DEF EditOK
  <2> QED BY <2>1, <2>3, <2>5, <2>6, LeavesAlone DEF Bystanders
<1>5. ASSUME NEW p \in Prizes, RemoveSlice(p) PROVE SpinInv'
  <2>1. Pages
    BY <1>5, PagesStay DEF RemoveSlice, Bystanders
  <2>2. edits' \in 0 .. MaxEdits
    BY <1>0, <1>5, BoundsAssumption DEF RemoveSlice, Edit, TypeOK
  <2>3. /\ admin' = IF slice[p].awarded > 0
                    THEN [what |-> "save", prize |-> p, seen |-> slice[p].awarded,
                          total |-> slice[p].total, state |-> "retired"]
                    ELSE [what |-> "delete", prize |-> p, seen |-> slice[p].awarded]
        /\ UNCHANGED <<running, slice, raced, thread, Bystanders>>
    BY <1>5 DEF RemoveSlice
  <2>4. slice[p].awarded \in Nat /\ slice[p].total \in Sizes
    BY <1>0 DEF TypeOK
  <2>5. admin' \in EditStates
    BY <2>3, <2>4 DEF EditStates
  <2>6. TypeOK'
    BY <1>0, <2>2, <2>3, <2>5 DEF Bystanders, Database, Front, TypeOK
  <2>7. ~raced /\ slice[p].total # Unlimited => slice[p].awarded <= slice[p].total
    BY DEF SpinInv, PrizesLimited
  <2>8. EditOK'
    <3>1. CASE slice[p].awarded > 0
      <4>1. /\ admin'.what = "save" /\ admin'.total = slice[p].total
            /\ admin'.seen = slice[p].awarded
        BY <2>3, <3>1
      <4>2. slice[p].total # Unlimited => slice[p].total \in Nat
        BY <2>4, SizesAssumption DEF Sizes
      <4> QED BY <2>3, <2>4, <2>7, <4>1, <4>2 DEF EditOK
    <3>2. CASE ~(slice[p].awarded > 0)
      BY <2>3, <2>4, <3>2 DEF EditOK
    <3> QED BY <3>1, <3>2
  <2> QED BY <2>1, <2>3, <2>6, <2>8, LeavesAlone DEF Bystanders
<1> QED BY <1>1, <1>2, <1>3, <1>4, <1>5
\* An edit is saved: a spin that has drawn this slice begins again.
LEMMA Saving == ASSUME SpinInv, SaveSlice PROVE SpinInv'
<1> DEFINE p == admin.prize
<1>0. TypeOK /\ EditOK /\ admin # NoEdit
  BY DEF SpinInv, SaveSlice
<1>1. /\ slice' = IF admin.what = "save"
                  THEN [slice EXCEPT ![p].total = admin.total, ![p].state = admin.state]
                  ELSE [slice EXCEPT ![p].state = "deleted"]
      /\ thread' = Overtaken(p)
      /\ raced' = (raced \/ slice[p].awarded # admin.seen)
      /\ admin' = NoEdit
      /\ UNCHANGED <<running, edits, day, prize, when, used, page, shown, waiting,
                     faults, impatient>>
  BY DEF SaveSlice, Bystanders, Database, Front
<1>2. /\ p \in Prizes /\ admin.seen \in Nat
      /\ \/ admin.what = "save" /\ admin.total \in Sizes
            /\ admin.state \in {"live", "retired"}
         \/ admin.what = "delete"
  BY <1>0 DEF TypeOK, EditStates
<1>3. /\ slice \in [Prizes -> [total : Sizes, awarded : Nat,
                               state : {"live", "retired", "deleted"}]]
      /\ thread \in [Threads -> Request]
  BY <1>0 DEF TypeOK, Request
<1>4. \A r \in Prizes : /\ slice'[r].awarded = slice[r].awarded
                        /\ r # p => slice'[r] = slice[r]
  BY <1>1, <1>2, <1>3
<1>5. TypeOK'
  <2>1. slice' \in [Prizes -> [total : Sizes, awarded : Nat,
                               state : {"live", "retired", "deleted"}]]
    BY <1>1, <1>2, <1>3
  <2>2. \A u \in Threads : Again(thread[u]) \in Request
    BY <1>3, OutcomesAssumption DEF Again, Request, PC
  <2>3. thread' \in [Threads -> Request]
    BY <1>1, <1>3, <2>2 DEF Overtaken
  <2>4. admin' \in EditStates
    BY <1>1 DEF EditStates
  <2>5. {raced', impatient'} \subseteq BOOLEAN
    BY <1>0, <1>1, Zenon DEF TypeOK
  <2>6. /\ day' \in Days /\ running' \in BOOLEAN
        /\ prize' \in [Clicks -> Outcomes \cup {None}]
        /\ when' \in [Clicks -> Days \cup {0}]
        /\ used' \in [Customers -> [Days -> 0 .. MaxSpins]]
        /\ page' \in [Clicks -> {"new", "held", "told", "refused"}]
        /\ shown' \in [Clicks -> Outcomes \cup {None}]
        /\ waiting' \in [Clicks -> Threads \cup {None}]
        /\ edits' \in 0 .. MaxEdits /\ faults' \in 0 .. MaxFaults
    BY <1>0, <1>1 DEF TypeOK
  <2>7. thread' \in [Threads ->
         [pc : PC, click : Clicks \cup {None}, day : Days \cup {0},
          slices : SUBSET Prizes, prize : Outcomes \cup {None}]]
    BY <2>3 DEF Request
  <2> QED BY <2>1, <2>4, <2>5, <2>6, <2>7, Zenon DEF TypeOK
<1>6. AttemptsOK' /\ EditOK'
  BY <1>1 DEF SpinInv, AttemptsOK, EditOK, NoEdit
<1>7. SpinsAddUp'
  <2>1. \A c \in Customers, d \in Days :
           used'[c][d] = Cardinality(Spins(c, d)') /\ used'[c][d] <= MaxSpins
    BY <1>1 DEF SpinInv, SpinsAddUp, Spins
  <2>2. \A r \in Prizes :
           slice'[r].awarded = Cardinality({j \in Clicks : prize'[j] = r})
    BY <1>1, <1>4 DEF SpinInv, SpinsAddUp
  <2>3. \A j \in Clicks : shown'[j] # None => shown'[j] = prize'[j]
    BY <1>1 DEF SpinInv, SpinsAddUp
  <2> QED BY <2>1, <2>2, <2>3 DEF SpinsAddUp
<1>8. PrizesLimited'
  <2>1. \A c \in Customers, r \in Prizes : Cardinality(Won(c, r)') <= PerCustomer[r]
    BY <1>1 DEF SpinInv, PrizesLimited, Won
  <2>2. ASSUME ~raced', NEW r \in Prizes
        PROVE  /\ slice'[r].total # Unlimited => slice'[r].awarded <= slice'[r].total
               /\ slice'[r].state = "deleted" => slice'[r].awarded = 0
    <3>1. ~raced /\ slice[p].awarded = admin.seen
      BY <1>1, <2>2
    <3>2. /\ slice[r].total # Unlimited => slice[r].awarded <= slice[r].total
          /\ slice[r].state = "deleted" => slice[r].awarded = 0
      BY <3>1 DEF SpinInv, PrizesLimited
    <3>3. CASE r # p
      BY <1>4, <3>2, <3>3
    <3>4. CASE r = p /\ admin.what = "save"
      <4>1. slice'[r].total = admin.total /\ slice'[r].state = admin.state
        BY <1>1, <1>2, <1>3, <3>4
      <4>2. admin.total # Unlimited => admin.total >= admin.seen /\ admin.total \in Nat
        BY <1>0, <1>2, <3>1, <3>4, SizesAssumption DEF EditOK, Sizes
      <4>3. admin.state \in {"live", "retired"}
        BY <1>2, <3>4
      <4> QED BY <1>2, <1>4, <3>1, <3>4, <4>1, <4>2, <4>3
    <3>5. CASE r = p /\ admin.what = "delete"
      <4>1. slice[r].awarded = 0
        BY <1>0, <3>1, <3>5 DEF EditOK
      <4>2. slice'[r].total = slice[r].total
        BY <1>1, <1>2, <1>3, <3>5
      <4> QED BY <1>4, <3>2, <4>1, <4>2
    <3> QED BY <1>2, <3>3, <3>4, <3>5
  <2> QED BY <2>1, <2>2 DEF PrizesLimited
<1>9. ASSUME NEW u \in Threads PROVE RequestOK(thread[u])'
  <2>1. RequestOK(thread[u]) /\ thread[u] \in Request
    BY <1>3 DEF SpinInv, RequestsOK
  <2>2. CASE thread[u].pc = "drawn" /\ thread[u].prize = p
    <3>1. thread'[u] = Again(thread[u])
      BY <1>1, <2>2 DEF Overtaken
    <3>2. /\ Again(thread[u]).pc = "open" /\ Again(thread[u]).click = thread[u].click
          /\ Again(thread[u]).day = thread[u].day
      BY <2>1 DEF Again, Request
    <3> QED BY <2>1, <2>2, <3>1, <3>2 DEF RequestOK
  <2>3. CASE ~(thread[u].pc = "drawn" /\ thread[u].prize = p)
    <3>1. thread'[u] = thread[u]
      BY <1>1, <2>3 DEF Overtaken
    <3>2. thread[u].pc = "drawn" /\ thread[u].prize \in Prizes =>
             slice'[thread[u].prize] = slice[thread[u].prize]
      BY <1>4, <2>3
    <3>3. thread[u].pc = "drawn" => Holds(thread[u])'
      BY <1>1, <2>1, <3>1, <3>2 DEF RequestOK, Holds, SlotFree, Claimable, Won
    <3> QED BY <1>1, <2>1, <3>1, <3>3 DEF RequestOK
  <2> QED BY <2>2, <2>3
<1>10. RequestsOK'
  BY <1>9 DEF RequestsOK
<1> QED BY <1>5, <1>6, <1>7, <1>8, <1>10 DEF SpinInv

LEMMA SpinStep == SpinInv /\ [Next]_vars => SpinInv'
<1> SUFFICES ASSUME SpinInv, [Next]_vars PROVE SpinInv'
  OBVIOUS
<1>1. CASE UNCHANGED vars
  <2>1. Pages
    BY <1>1, PagesStay DEF vars, Front
  <2>2. TypeOK' /\ EditOK'
    BY <1>1 DEF vars, Database, Front, Office, SpinInv, TypeOK, EditOK
  <2> QED BY <1>1, <2>1, <2>2, LeavesAlone DEF vars, Office
<1>2. CASE Next
  <2>1. CASE \E t \in Threads :
                (\E k \in Clicks : Ask(t, k)) \/ Continue(t) \/ Die(t)
    BY <2>1, Playing, Committing DEF Continue
  <2>2. CASE SaveSlice
    BY <2>2, Saving
  <2>3. CASE \/ \E k \in Clicks : StopWaiting(k)
             \/ Toggle \/ Midnight
             \/ \E p \in Prizes :
                   \/ \E n \in Sizes, state \in {"live", "retired"} :
                          EditSlice(p, n, state)
                   \/ RemoveSlice(p)
    BY <2>3, Elsewhere
  <2> QED BY <1>2, <2>1, <2>2, <2>3 DEF Next
<1> QED BY <1>1, <1>2

\* The inductive invariant of a spin: with the two properties, that a request which has
\* drawn still holds what it drew, and that an edit under way has seen the slice.
THEOREM SpinsCorrect == Spec => []SpinInv
  BY SpinInit, SpinStep, PTL DEF Spec

\* Every variable keeps its type.
THEOREM SpinTypes == Spec => []TypeOK
<1>1. SpinInv => TypeOK
  BY DEF SpinInv
<1> QED BY <1>1, SpinsCorrect, PTL

\* One click, one spin: slots, prizes counted and what a page shows agree with the
\* attempts on record, however often a click is sent and a transaction begun again.
THEOREM SpinsAreSingle == Spec => []SpinsAddUp
<1>1. SpinInv => SpinsAddUp
  BY DEF SpinInv
<1> QED BY <1>1, SpinsCorrect, PTL

\* No prize is given more often than there are, nor to one customer more often than he
\* may win it, until an edit is saved over a claim it has not seen.
THEOREM PrizesAreLimited == Spec => []PrizesLimited
<1>1. SpinInv => PrizesLimited
  BY DEF SpinInv
<1> QED BY <1>1, SpinsCorrect, PTL
-------------------------------------------------------------------------------
(* SpinWheel implements SpinPromise.  A page waits only while it holds its *)
(* key, and what it shows it has been told.                                *)

PagesOK ==
    \A k \in Clicks : /\ waiting[k] # None => page[k] = "held"
                      /\ shown[k] # None => page[k] = "told"

\* What an answer does to what pages show.
LEMMA HearsKeeps ==
    ASSUME SpinInv, PagesOK, NEW t \in Threads, thread[t].pc # "idle",
           NEW state \in {"new", "held", "told", "refused"},
           NEW o \in Outcomes \cup {None}, o # None => state = "told",
           Hears(t, state, o)
    PROVE  /\ PagesOK'
           /\ \/ shown' = shown
              \/ /\ shown[thread[t].click] = None /\ o # None
                 /\ shown' = [shown EXCEPT ![thread[t].click] = o]
<1> DEFINE k == thread[t].click
<1>1. k \in Clicks /\ None \notin Threads
  BY ThreadsAssumption DEF SpinInv, RequestsOK, RequestOK
<1>2. /\ page \in [Clicks -> {"new", "held", "told", "refused"}]
      /\ shown \in [Clicks -> Outcomes \cup {None}]
      /\ waiting \in [Clicks -> Threads \cup {None}]
  BY DEF SpinInv, TypeOK
<1>3. CASE waiting[k] = t
  <2>1. page[k] = "held" /\ shown[k] = None
    BY <1>1, <1>3 DEF PagesOK
  <2>2. /\ page' = [page EXCEPT ![k] = state] /\ shown' = [shown EXCEPT ![k] = o]
        /\ waiting' = [waiting EXCEPT ![k] = None]
    BY <1>3 DEF Hears
  <2>3. PagesOK'
    BY <1>1, <1>2, <2>1, <2>2 DEF PagesOK
  <2>4. o = None => shown' = shown
    BY <1>1, <1>2, <2>1, <2>2
  <2> QED BY <2>1, <2>2, <2>3, <2>4
<1>4. CASE waiting[k] # t
  BY <1>4 DEF Hears, PagesOK
<1> QED BY <1>3, <1>4

\* The promise counts as the module it is made in does.
LEMMA SameCount == ASSUME NEW S PROVE Promise!Cardinality(S) = Cardinality(S)
  BY DEF Promise!Cardinality, Cardinality

Kept == [Promise!PromiseNext]_Promise!promiseVars

\* Nothing a spin promises is touched.
LEMMA Unseen == ASSUME UNCHANGED <<prize, when, used, slice, shown>> PROVE Kept
  BY DEF Kept, Promise!promiseVars

LEMMA FrontStays == ASSUME PagesOK, UNCHANGED Front PROVE PagesOK'
  BY DEF Front, PagesOK

\* A committed transaction is a whole spin.
LEMMA CommitIsSpin ==
    ASSUME SpinInv, PagesOK, NEW t \in Threads, Commit(t) PROVE PagesOK' /\ Kept
<1> DEFINE th == thread[t]
<1>1. /\ th.click \in Clicks /\ th.day \in Days /\ th.prize \in Outcomes /\ Holds(th)
  BY DEF SpinInv, RequestsOK, RequestOK, Holds, Commit
<1>2. prize[th.click] = None /\ used[Owner[th.click]][th.day] < MaxSpins
  BY <1>1 DEF Holds, SlotFree
<1>3. th.prize \in Prizes => Promise!Winnable(Owner[th.click], th.prize)
  BY <1>1, SameCount DEF Holds, Claimable, Won, Promise!Winnable
<1>4. Promise!Spin(th.click, th.day, th.prize)
  BY <1>2, <1>3 DEF Commit, Front, Promise!Spin
<1> QED BY <1>1, <1>4, FrontStays DEF Commit, Outcomes, Kept, Promise!PromiseNext

LEMMA AnswerTells ==
    ASSUME SpinInv, PagesOK, NEW t \in Threads, Answer(t) PROVE PagesOK' /\ Kept
<1>1. /\ thread[t].click \in Clicks /\ thread[t].prize \in Outcomes \cup {None}
      /\ thread[t].prize = prize[thread[t].click] /\ prize[thread[t].click] # None
      /\ thread[t].pc # "idle"
  BY DEF SpinInv, TypeOK, RequestsOK, RequestOK, Answer
<1>2. /\ PagesOK'
      /\ \/ shown' = shown
         \/ /\ shown[thread[t].click] = None
            /\ shown' = [shown EXCEPT ![thread[t].click] = thread[t].prize]
  BY <1>1, HearsKeeps DEF Answer
<1>3. UNCHANGED <<prize, when, used, slice>>
  BY DEF Answer, Database, Office
<1>4. CASE shown' = shown
  BY <1>2, <1>3, <1>4, Unseen
<1>5. CASE shown' # shown
  <2>1. Promise!Tell(thread[t].click)
    BY <1>1, <1>2, <1>3, <1>5 DEF Promise!Tell
  <2> QED BY <1>1, <1>2, <2>1 DEF Kept, Promise!PromiseNext
<1> QED BY <1>4, <1>5

\* A request that ends without an outcome tells nothing.
LEMMA SilentEnd ==
    ASSUME SpinInv, PagesOK, NEW t \in Threads, Refuse(t) \/ OutOfSpins(t) \/ Die(t)
    PROVE  PagesOK' /\ Kept
<1>1. PICK state \in {"new", "held", "told", "refused"} : Hears(t, state, None)
  <2>1. CASE Die(t)
    <3>1. page[thread[t].click] \in {"new", "held", "told", "refused"}
      BY <2>1 DEF Die, SpinInv, TypeOK, RequestsOK, RequestOK
    <3> QED BY <2>1, <3>1 DEF Die
  <2>2. CASE Refuse(t) \/ OutOfSpins(t)
    BY <2>2 DEF Refuse, OutOfSpins
  <2> QED BY <2>1, <2>2
<1>2. thread[t].pc # "idle" /\ UNCHANGED <<prize, when, used, slice>>
  BY DEF Refuse, OutOfSpins, Die, Database, Office
<1>3. PagesOK' /\ shown' = shown
  BY <1>1, <1>2, HearsKeeps
<1> QED BY <1>2, <1>3, Unseen

LEMMA SaveRearranges ==
    ASSUME SpinInv, PagesOK, SaveSlice PROVE PagesOK' /\ Kept
<1> DEFINE p == admin.prize
<1>1. /\ p \in Prizes
      /\ \/ /\ admin.what = "save" /\ admin.total \in Sizes
            /\ admin.state \in {"live", "retired"}
         \/ admin.what = "delete"
  BY DEF SaveSlice, SpinInv, TypeOK, EditStates
<1>2. UNCHANGED <<prize, when, used, shown>> /\ UNCHANGED Front
  BY DEF SaveSlice, Bystanders, Database, Front
<1>3. slice \in [Prizes -> [total : Sizes, awarded : Nat,
                            state : {"live", "retired", "deleted"}]]
  BY DEF SpinInv, TypeOK
<1>4. CASE admin.what = "save"
  <2>1. slice' = [slice EXCEPT ![p].total = admin.total, ![p].state = admin.state]
    BY <1>4 DEF SaveSlice
  <2>2. Promise!Rearrange(p, admin.total, admin.state)
    BY <1>2, <2>1 DEF Promise!Rearrange
  <2> QED BY <1>1, <1>2, <1>4, <2>2, FrontStays DEF Kept, Promise!PromiseNext
<1>5. CASE admin.what # "save"
  <2>1. slice' = [slice EXCEPT ![p].total = slice[p].total, ![p].state = "deleted"]
    BY <1>1, <1>3, <1>5 DEF SaveSlice
  <2>2. Promise!Rearrange(p, slice[p].total, "deleted")
    BY <1>2, <2>1 DEF Promise!Rearrange
  <2>3. slice[p].total \in Sizes
    BY <1>1, <1>3
  <2> QED BY <1>1, <1>2, <2>2, <2>3, FrontStays DEF Kept, Promise!PromiseNext
<1> QED BY <1>4, <1>5

LEMMA PromiseStep == SpinInv /\ PagesOK /\ [Next]_vars => PagesOK' /\ Kept
<1> SUFFICES ASSUME SpinInv, PagesOK, [Next]_vars PROVE PagesOK' /\ Kept
  OBVIOUS
<1>1. ASSUME NEW t \in Threads, NEW k \in Clicks, Ask(t, k) PROVE PagesOK' /\ Kept
  <2>1. PagesOK'
    BY <1>1, ThreadsAssumption DEF Ask, PagesOK, SpinInv, TypeOK
  <2> QED BY <1>1, <2>1, Unseen DEF Ask, Database, Office
<1>2. ASSUME NEW t \in Threads, Enter(t) \/ Draw(t) \/ Duplicate(t) PROVE PagesOK' /\ Kept
  <2>1. UNCHANGED <<Database, Office, Front>>
    BY <1>2 DEF Enter, Draw, Duplicate
  <2> QED BY <2>1, FrontStays, Unseen DEF Database, Office, Front
<1>3. ASSUME NEW t \in Threads, Continue(t) \/ Die(t) PROVE PagesOK' /\ Kept
  BY <1>2, <1>3, CommitIsSpin, AnswerTells, SilentEnd DEF Continue
<1>4. ASSUME NEW k \in Clicks, StopWaiting(k) PROVE PagesOK' /\ Kept
  <2>1. PagesOK'
    BY <1>4 DEF StopWaiting, PagesOK, SpinInv, TypeOK
  <2> QED BY <1>4, <2>1, Unseen DEF StopWaiting, Database, Office
<1>5. ASSUME NEW p \in Prizes, RemoveSlice(p) \/ \E n, state : EditSlice(p, n, state)
      PROVE  PagesOK' /\ Kept
  <2>1. UNCHANGED <<slice, Bystanders>>
    BY <1>5 DEF EditSlice, RemoveSlice
  <2> QED BY <2>1, FrontStays, Unseen DEF Bystanders, Database, Front
<1>6. CASE Toggle \/ Midnight \/ UNCHANGED vars
  <2>1. UNCHANGED <<slice, Database, Front>>
    BY <1>6 DEF Toggle, Midnight, Bystanders, Office, vars
  <2> QED BY <2>1, FrontStays, Unseen DEF Database, Front
<1> QED BY <1>1, <1>3, <1>4, <1>5, <1>6, SaveRearranges DEF Next

\* Every step is a whole spin, the telling of its outcome, an edit, or nothing.
THEOREM SpinImplementsPromise == Spec => PromiseKept
<1>1. Init => PagesOK
  BY DEF Init, PagesOK
<1>2. Init => Promise!PromiseInit
  BY DEF Init, Promise!PromiseInit
<1>3. SpinInv /\ PagesOK /\ [Next]_vars => PagesOK' /\ [Promise!PromiseNext]_Promise!promiseVars
  BY PromiseStep DEF Kept
<1> QED BY <1>1, <1>2, <1>3, SpinsCorrect, PTL DEF Spec, PromiseKept, Promise!PromiseSpec
-------------------------------------------------------------------------------
(* What follows from the promise alone, whoever keeps it.                  *)

SpinTypesOK ==
    /\ prize \in [Clicks -> Outcomes \cup {None}]
    /\ when \in [Clicks -> Days \cup {0}]
    /\ used \in [Customers -> [Days -> 0 .. MaxSpins]]
    /\ slice \in [Prizes -> [total : Sizes, awarded : Nat,
                             state : {"live", "retired", "deleted"}]]
    /\ shown \in [Clicks -> Outcomes \cup {None}]

WonInBounds == \A c \in Customers, p \in Prizes : Cardinality(Won(c, p)) <= PerCustomer[p]

Spun == SpinTypesOK /\ AttemptsOK /\ SpinsAddUp /\ WonInBounds

LEMMA WholeSpin ==
    ASSUME Spun, NEW k \in Clicks, NEW d \in Days, NEW o \in Outcomes, Promise!Spin(k, d, o)
    PROVE  Spun'
<1> DEFINE c == Owner[k]
<1>0. c \in Customers /\ o # None /\ 0 \notin Days /\ MaxSpins \in Nat
  BY OwnerAssumption, OutcomesAssumption, BoundsAssumption DEF Days
<1>1. /\ prize[k] = None /\ used[c][d] < MaxSpins
      /\ prize' = [prize EXCEPT ![k] = o] /\ when' = [when EXCEPT ![k] = d]
      /\ used' = [used EXCEPT ![c][d] = @ + 1]
      /\ slice' = [r \in Prizes |->
           IF r = o THEN [slice[r] EXCEPT !.awarded = @ + 1] ELSE slice[r]]
      /\ shown' = shown
  BY DEF Promise!Spin
<1>2. /\ prize \in [Clicks -> Outcomes \cup {None}]
      /\ when \in [Clicks -> Days \cup {0}] /\ when[k] = 0
      /\ used \in [Customers -> [Days -> 0 .. MaxSpins]]
      /\ slice \in [Prizes -> [total : Sizes, awarded : Nat,
                               state : {"live", "retired", "deleted"}]]
  BY <1>1 DEF Spun, SpinTypesOK, AttemptsOK
<1>3. SpinTypesOK' /\ AttemptsOK'
  <2>1. prize' \in [Clicks -> Outcomes \cup {None}] /\ when' \in [Clicks -> Days \cup {0}]
    BY <1>1, <1>2
  <2>2. used' \in [Customers -> [Days -> 0 .. MaxSpins]]
    BY <1>0, <1>1, <1>2
  <2>3. slice' \in [Prizes -> [total : Sizes, awarded : Nat,
                               state : {"live", "retired", "deleted"}]]
    BY <1>1, <1>2
  <2> QED BY <1>0, <1>1, <1>2, <2>1, <2>2, <2>3 DEF Spun, SpinTypesOK, AttemptsOK
<1>4. \A e \in Customers, f \in Days :
         Spins(e, f)' = IF e = c /\ f = d THEN Spins(e, f) \cup {k} ELSE Spins(e, f)
  BY <1>0, <1>1, <1>2 DEF Spins
<1>5. \A r \in Outcomes :
         {j \in Clicks : prize'[j] = r} =
             IF r = o THEN {j \in Clicks : prize[j] = r} \cup {k}
             ELSE {j \in Clicks : prize[j] = r}
  BY <1>0, <1>1, <1>2, OutcomesAssumption
<1>6. \A r \in Outcomes, e \in Customers :
         Won(e, r)' = IF r = o /\ e = c THEN Won(e, r) \cup {k} ELSE Won(e, r)
  BY <1>0, <1>1, <1>2, OutcomesAssumption DEF Won
<1>7. /\ k \notin Spins(c, d) /\ k \notin {j \in Clicks : prize[j] = o}
      /\ k \notin Won(c, o)
  BY <1>0, <1>1, <1>2 DEF Spins, Won
<1>8. ASSUME NEW e \in Customers, NEW f \in Days
      PROVE  used'[e][f] = Cardinality(Spins(e, f)') /\ used'[e][f] <= MaxSpins
  <2>1. used[e][f] = Cardinality(Spins(e, f)) /\ used[e][f] <= MaxSpins /\ used[e][f] \in Nat
    BY <1>2 DEF Spun, SpinsAddUp
  <2>2. CASE e = c /\ f = d
    <3>1. Cardinality(Spins(e, f)') = Cardinality(Spins(e, f)) + 1
      BY <1>4, <1>7, <2>2, CountsFinite, CountsUp
    <3>2. used'[e][f] = used[e][f] + 1
      BY <1>1, <1>2, <2>2
    <3> QED BY <1>0, <1>1, <2>1, <2>2, <3>1, <3>2
  <2>3. CASE ~(e = c /\ f = d)
    <3>1. Spins(e, f)' = Spins(e, f) /\ used'[e][f] = used[e][f]
      BY <1>0, <1>1, <1>2, <1>4, <2>3
    <3> QED BY <2>1, <3>1
  <2> QED BY <2>2, <2>3
<1>9. ASSUME NEW r \in Prizes
      PROVE  slice'[r].awarded = Cardinality({j \in Clicks : prize'[j] = r})
  <2> DEFINE S == {j \in Clicks : prize[j] = r}
             T == {j \in Clicks : prize'[j] = r}
  <2>1. slice[r].awarded = Cardinality(S) /\ r \in Outcomes /\ IsFiniteSet(S)
    BY CountsFinite DEF Spun, SpinsAddUp, Outcomes
  <2>2. CASE r = o
    <3>1. T = S \cup {k} /\ k \notin S
      BY <1>5, <1>7, <2>1, <2>2
    <3>2. slice'[r].awarded = slice[r].awarded + 1
      BY <1>1, <1>2, <2>2
    <3> HIDE DEF S, T
    <3>3. Cardinality(T) = Cardinality(S) + 1
      BY <2>1, <3>1, CountsUp
    <3> QED BY <2>1, <3>2, <3>3 DEF T
  <2>3. CASE r # o
    <3>1. T = S
      BY <1>5, <2>1, <2>3
    <3>2. slice'[r] = slice[r]
      BY <1>1, <2>3
    <3> QED BY <2>1, <3>1, <3>2
  <2> QED BY <2>2, <2>3
<1>10. SpinsAddUp'
  <2>1. \A j \in Clicks : shown'[j] # None => shown'[j] = prize'[j]
    BY <1>1, <1>2 DEF Spun, SpinsAddUp
  <2> QED BY <1>8, <1>9, <2>1 DEF SpinsAddUp
<1>11. ASSUME NEW e \in Customers, NEW r \in Prizes
       PROVE  Cardinality(Won(e, r)') <= PerCustomer[r]
  <2>1. Cardinality(Won(e, r)) <= PerCustomer[r] /\ r \in Outcomes
    BY DEF Spun, WonInBounds, Outcomes
  <2>2. CASE r = o /\ e = c
    <3>1. Cardinality(Won(e, r)) < PerCustomer[r]
      BY <2>2, SameCount DEF Promise!Spin, Promise!Winnable, Won
    <3>2. Cardinality(Won(e, r)') = Cardinality(Won(e, r)) + 1
      BY <1>6, <1>7, <2>1, <2>2, CountsFinite, CountsUp
    <3>3. Cardinality(Won(e, r)) \in Nat /\ PerCustomer[r] \in Nat
      BY <2>1, CountsFinite, FS_CardinalityType, LimitAssumption
    <3> QED BY <3>1, <3>2, <3>3
  <2>3. CASE ~(r = o /\ e = c)
    BY <1>6, <2>1, <2>3
  <2> QED BY <2>2, <2>3
<1> QED BY <1>3, <1>10, <1>11 DEF Spun, WonInBounds

LEMMA SpinsStay ==
    ASSUME Spun, UNCHANGED <<prize, when, used>>
    PROVE  /\ prize' \in [Clicks -> Outcomes \cup {None}]
           /\ when' \in [Clicks -> Days \cup {0}]
           /\ used' \in [Customers -> [Days -> 0 .. MaxSpins]]
           /\ AttemptsOK' /\ WonInBounds'
           /\ \A c \in Customers, d \in Days :
                 used'[c][d] = Cardinality(Spins(c, d)') /\ used'[c][d] <= MaxSpins
           /\ \A p \in Prizes : {k \in Clicks : prize'[k] = p} = {k \in Clicks : prize[k] = p}
<1>1. /\ \A c \in Customers, d \in Days : Spins(c, d)' = Spins(c, d)
      /\ \A c \in Customers, p \in Prizes : Won(c, p)' = Won(c, p)
  BY DEF Spins, Won
<1>2. WonInBounds'
  BY <1>1 DEF Spun, WonInBounds
<1>3. AttemptsOK'
  BY DEF Spun, AttemptsOK
<1>4. \A c \in Customers, d \in Days :
         used'[c][d] = Cardinality(Spins(c, d)') /\ used'[c][d] <= MaxSpins
  BY <1>1 DEF Spun, SpinsAddUp
<1> QED BY <1>2, <1>3, <1>4 DEF Spun, SpinTypesOK

LEMMA OnlyTold ==
    ASSUME Spun, UNCHANGED <<prize, when, used, slice>>,
           shown' \in [Clicks -> Outcomes \cup {None}],
           \A k \in Clicks : shown'[k] # None => shown'[k] = prize'[k]
    PROVE  Spun'
<1>1. slice' \in [Prizes -> [total : Sizes, awarded : Nat,
                            state : {"live", "retired", "deleted"}]]
  BY DEF Spun, SpinTypesOK
<1>2. \A p \in Prizes : slice'[p].awarded = Cardinality({k \in Clicks : prize'[k] = p})
  <2>1. \A p \in Prizes : slice[p].awarded = Cardinality({k \in Clicks : prize[k] = p})
    BY DEF Spun, SpinsAddUp
  <2> QED BY <2>1
<1> QED BY <1>1, <1>2, SpinsStay DEF Spun, SpinTypesOK, SpinsAddUp

LEMMA OnlyArranged ==
    ASSUME Spun, UNCHANGED <<prize, when, used, shown>>,
           slice' \in [Prizes -> [total : Sizes, awarded : Nat,
                                 state : {"live", "retired", "deleted"}]],
           \A p \in Prizes : slice'[p].awarded = slice[p].awarded
    PROVE  Spun'
<1>1. \A p \in Prizes : slice'[p].awarded = Cardinality({k \in Clicks : prize'[k] = p})
  <2>1. \A p \in Prizes : slice[p].awarded = Cardinality({k \in Clicks : prize[k] = p})
    BY DEF Spun, SpinsAddUp
  <2> QED BY <2>1
<1>2. /\ shown' \in [Clicks -> Outcomes \cup {None}]
      /\ \A k \in Clicks : shown'[k] # None => shown'[k] = prize'[k]
  BY DEF Spun, SpinTypesOK, SpinsAddUp
<1> QED BY <1>1, <1>2, SpinsStay DEF Spun, SpinTypesOK, SpinsAddUp

\* No promise of a slot, a prize or an outcome is broken: however a wheel is run, if it
\* keeps SpinPromise its counters are its spins, and no customer wins a prize too often.
THEOREM PromiseAddsUp == PromiseKept => [](SpinsAddUp /\ WonInBounds)
<1>1. Promise!PromiseInit => Spun
  <2> SUFFICES ASSUME Promise!PromiseInit PROVE Spun
    OBVIOUS
  <2>1. /\ prize = [k \in Clicks |-> None] /\ when = [k \in Clicks |-> 0]
        /\ used = [c \in Customers |-> [d \in Days |-> 0]]
        /\ slice = [p \in Prizes |->
             [total |-> Quantity[p], awarded |-> 0, state |-> "live"]]
        /\ shown = [k \in Clicks |-> None]
    BY DEF Promise!PromiseInit
  <2>2. MaxSpins \in Nat /\ 0 \notin Days /\ None \notin Prizes
    BY BoundsAssumption, OutcomesAssumption DEF Days, Outcomes
  <2>3. SpinTypesOK
    <3>1. used \in [Customers -> [Days -> 0 .. MaxSpins]]
      BY <2>1, <2>2
    <3>2. slice \in [Prizes -> [total : Sizes, awarded : Nat,
                                state : {"live", "retired", "deleted"}]]
      BY <2>1, SizesAssumption
    <3> QED BY <2>1, <3>1, <3>2 DEF SpinTypesOK
  <2>4. /\ \A c \in Customers, d \in Days : Spins(c, d) = {}
        /\ \A p \in Prizes : {k \in Clicks : prize[k] = p} = {}
        /\ \A c \in Customers, p \in Prizes : Won(c, p) = {}
    BY <2>1, <2>2 DEF Spins, Won
  <2>5. Cardinality({}) = 0
    BY FS_EmptySet
  <2>6. SpinsAddUp
    <3>1. /\ \A c \in Customers, d \in Days : used[c][d] = 0
          /\ \A p \in Prizes : slice[p].awarded = 0
          /\ \A k \in Clicks : shown[k] = None
      BY <2>1
    <3>2. 0 <= MaxSpins
      BY <2>2
    <3>3. \A c \in Customers, d \in Days :
             used[c][d] = Cardinality(Spins(c, d)) /\ used[c][d] <= MaxSpins
      BY <2>4, <2>5, <3>1, <3>2
    <3>4. \A p \in Prizes : slice[p].awarded = Cardinality({k \in Clicks : prize[k] = p})
      BY <2>4, <2>5, <3>1
    <3> QED BY <3>1, <3>3, <3>4 DEF SpinsAddUp
  <2>7. WonInBounds
    BY <2>4, <2>5, LimitAssumption DEF WonInBounds
  <2> QED BY <2>1, <2>3, <2>6, <2>7 DEF Spun, AttemptsOK
<1>2. Spun /\ Kept => Spun'
  <2> SUFFICES ASSUME Spun, Kept PROVE Spun'
    OBVIOUS
  <2>1. ASSUME NEW k \in Clicks, NEW d \in Days, NEW o \in Prizes \cup {NoPrize},
               Promise!Spin(k, d, o)
        PROVE  Spun'
    BY <2>1, WholeSpin DEF Outcomes
  <2>2. ASSUME NEW k \in Clicks, Promise!Tell(k) PROVE Spun'
    <3>1. /\ UNCHANGED <<prize, when, used, slice>>
          /\ shown' = [shown EXCEPT ![k] = prize[k]]
      BY <2>2 DEF Promise!Tell
    <3>2. /\ shown' \in [Clicks -> Outcomes \cup {None}]
          /\ \A j \in Clicks : shown'[j] # None => shown'[j] = prize'[j]
      BY <3>1 DEF Spun, SpinTypesOK, SpinsAddUp
    <3> QED BY <3>1, <3>2, OnlyTold
  <2>3. ASSUME NEW p \in Prizes, NEW n \in Sizes,
               NEW state \in {"live", "retired", "deleted"}, Promise!Rearrange(p, n, state)
        PROVE  Spun'
    <3>1. /\ slice' = [slice EXCEPT ![p].total = n, ![p].state = state]
          /\ UNCHANGED <<prize, when, used, shown>>
      BY <2>3 DEF Promise!Rearrange
    <3>2. slice \in [Prizes -> [total : Sizes, awarded : Nat,
                               state : {"live", "retired", "deleted"}]]
      BY DEF Spun, SpinTypesOK
    <3>3. /\ slice' \in [Prizes -> [total : Sizes, awarded : Nat,
                                  state : {"live", "retired", "deleted"}]]
          /\ \A r \in Prizes : slice'[r].awarded = slice[r].awarded
      BY <3>1, <3>2
    <3> QED BY <3>1, <3>3, OnlyArranged
  <2>4. CASE UNCHANGED Promise!promiseVars
    <3>1. UNCHANGED <<prize, when, used, slice, shown>>
      BY <2>4 DEF Promise!promiseVars
    <3>2. /\ shown' \in [Clicks -> Outcomes \cup {None}]
          /\ \A j \in Clicks : shown'[j] # None => shown'[j] = prize'[j]
      BY <3>1 DEF Spun, SpinTypesOK, SpinsAddUp
    <3> QED BY <3>1, <3>2, OnlyTold
  <2> QED BY <2>1, <2>2, <2>3, <2>4 DEF Kept, Promise!PromiseNext
<1>3. Spun => SpinsAddUp /\ WonInBounds
  BY DEF Spun
<1> QED BY <1>1, <1>2, <1>3, PTL DEF PromiseKept, Promise!PromiseSpec, Kept
===============================================================================
