---------------------------- MODULE CheckoutProofs ----------------------------
(***************************************************************************)
(* Proofs about Checkout, for any number of calls, keys and products: its  *)
(* type invariant, the stock, one checkout per key, truthful answers, that *)
(* it implements CheckoutPromise, what that promise is worth by itself,    *)
(* and what prompt keys gain.                                              *)
(***************************************************************************)
EXTENDS CheckoutKeepsPromise, FiniteSetTheorems, TLAPS

\* Program counters of a call that has not passed its commit.
Before == {"new", "check", "lock", "find", "open", "commit"}

\* Where a call without a key can be.
Keyless == {"new", "open", "commit", "done"}

\* Calls whose checkout was committed.
Taken == placed \cup removed

\* A checkout was committed under key k.
Backed(k) == \E s \in Taken : Key(s) = k

\* A call commits once, and is past its commit from then on.
PlacedLate ==
    /\ \A r \in Taken : request[r].pc \notin Before
    /\ placed \cap removed = {}

\* What Redis calls a result was placed.
ResultsBacked == \A k \in Keys : results[k] # None => Backed(k)

\* A call works with Redis for its key only; it has no answer before it begins
\* and one with an order when it stores a result.
CallFits ==
    \A r \in Requests :
        /\ request[r].pc \notin Keyless => Key(r) # NoKey
        /\ At(r, "new") => request[r].answer = "none"
        /\ At(r, "store_result") => request[r].answer \in {"placed", "duplicate"}

\* The inductive invariant.
Correct ==
    /\ TypeOK
    /\ PlacedLate
    /\ ResultsBacked
    /\ CallFits
    /\ AnswerHasOrder
    /\ OneCheckoutPerKey
    /\ StockConserved
-----------------------------------------------------------------------------
(* The initial states.                                                     *)

LEMMA InitCorrect == Init => Correct
<1> SUFFICES ASSUME Init PROVE Correct
    OBVIOUS
<1>1. New \in Request
    BY SupplyAssumption DEF New, Request, PC, Payload, Answer
<1>2. TypeOK
    BY <1>1, SupplyAssumption, CrashesAssumption DEF Init, TypeOK, Payload
<1>3. PlacedLate /\ ResultsBacked /\ CallFits
    BY DEF Init, PlacedLate, Taken, ResultsBacked, CallFits, At, New, Keyless
<1>4. AnswerHasOrder /\ OneCheckoutPerKey
    BY DEF Init, AnswerHasOrder, OneCheckoutPerKey, New
<1>5. ASSUME NEW i \in Items PROVE stock[i] + Cardinality(Wanting(i)) = Supply
    <2>1. Wanting(i) = {}
        BY DEF Init, Wanting
    <2>2. Cardinality({}) = 0
        BY FS_EmptySet
    <2> QED
        BY <2>1, <2>2, SupplyAssumption DEF Init
<1> QED
    BY <1>2, <1>3, <1>4, <1>5 DEF Correct, StockConserved
-----------------------------------------------------------------------------
(* Steps of a call that has begun.                                         *)

\* Call r goes on to pc with an answer, its key and its payload unchanged.
Moves(r, pc, answer) ==
    /\ request' \in [Requests -> Request]
    /\ \A s \in Requests : /\ request'[s].key = request[s].key
                           /\ request'[s].want = request[s].want
                           /\ s # r => request'[s] = request[s]
    /\ request'[r].pc = pc
    /\ request'[r].answer = answer

LEMMA DecideMoves ==
    ASSUME TypeOK, NEW r \in Requests, ~At(r, "new"),
           NEW pc \in PC \ {"new"}, NEW answer \in Answer, Decide(r, pc, answer)
    PROVE  Moves(r, pc, answer)
<1> DEFINE rq == [request[r] EXCEPT !.pc = pc, !.answer = answer]
<1>1. request[r] \in Request /\ request[r].want \in Wants
    BY DEF TypeOK, At, Request
<1>2. rq \in Request /\ rq.key = request[r].key /\ rq.want = request[r].want
      /\ rq.pc = pc /\ rq.answer = answer
    BY <1>1 DEF Request
<1>3. request' = [request EXCEPT ![r] = rq]
    BY DEF Decide, TypeOK
<1> HIDE DEF rq
<1> QED
    BY <1>2, <1>3 DEF TypeOK, Moves

LEMMA EndMoves ==
    ASSUME TypeOK, NEW r \in Requests, ~At(r, "new"),
           NEW pc \in PC \ {"new"}, NEW answer \in Answer, End(r, pc, answer)
    PROVE  Moves(r, IF Key(r) = NoKey THEN "done" ELSE pc, answer)
<1> DEFINE to == IF Key(r) = NoKey THEN "done" ELSE pc
           rq == [request[r] EXCEPT !.pc = to, !.answer = answer,
                                    !.stock = New.stock, !.keys = {}]
<1>1. request[r] \in Request /\ request[r].want \in Wants
    BY DEF TypeOK, At, Request
<1>2. New.stock \in [Items -> Nat] /\ to \in PC \ {"new"}
    BY SupplyAssumption DEF New, PC
<1>3. request' = [request EXCEPT ![r] = rq]
    BY DEF End, TypeOK
<1> HIDE DEF to
<1>4. rq \in Request /\ rq.key = request[r].key /\ rq.want = request[r].want
      /\ rq.pc = to /\ rq.answer = answer
    BY <1>1, <1>2 DEF Request
<1> HIDE DEF rq
<1>5. Moves(r, to, answer)
    BY <1>3, <1>4 DEF TypeOK, Moves
<1> QED
    BY <1>5 DEF to

LEMMA GotoMoves ==
    ASSUME TypeOK, NEW r \in Requests, ~At(r, "new"),
           NEW pc \in PC \ {"new"}, Goto(r, pc)
    PROVE  Moves(r, pc, request[r].answer)
<1> DEFINE rq == [request[r] EXCEPT !.pc = pc]
<1>1. request[r] \in Request /\ request[r].want \in Wants
    BY DEF TypeOK, At, Request
<1>2. rq \in Request /\ rq.key = request[r].key /\ rq.want = request[r].want
      /\ rq.pc = pc /\ rq.answer = request[r].answer
    BY <1>1 DEF Request
<1>3. request' = [request EXCEPT ![r] = rq]
    BY DEF Goto, TypeOK
<1> HIDE DEF rq
<1> QED
    BY <1>2, <1>3 DEF TypeOK, Moves

LEMMA OpenMoves ==
    ASSUME TypeOK, NEW r \in Requests, Open(r)
    PROVE  Moves(r, "commit", request[r].answer)
<1> DEFINE rq == [request[r] EXCEPT !.pc = "commit", !.stock = stock,
                                    !.keys = PlacedKeys]
<1>1. request[r] \in Request /\ request[r].want \in Wants
    BY DEF TypeOK, Open, At, Request
<1>2. PlacedKeys \in SUBSET (Customers \X Keys)
    BY CallerAssumption DEF PlacedKeys, Name, Key, TypeOK, Request
<1>3. rq \in Request /\ rq.key = request[r].key /\ rq.want = request[r].want
      /\ rq.pc = "commit" /\ rq.answer = request[r].answer
    BY <1>1, <1>2 DEF Request, TypeOK, PC
<1>4. request' = [request EXCEPT ![r] = rq]
    BY DEF Open, TypeOK
<1> HIDE DEF rq
<1> QED
    BY <1>3, <1>4 DEF TypeOK, Moves

\* Where nothing commits and nothing expires in the database, the sales stand.
LEMMA SalesStand ==
    ASSUME Correct, UNCHANGED Database,
           \A s \in Taken : /\ request'[s].key = request[s].key
                            /\ request'[s].want = request[s].want
    PROVE  OneCheckoutPerKey' /\ StockConserved' /\ Sold' = Sold
<1>1. OneCheckoutPerKey'
    BY DEF Correct, OneCheckoutPerKey, Database, Taken, Name, Key
<1>2. \A i \in Items : Wanting(i)' = Wanting(i)
    BY DEF Wanting, Database, Taken
<1>3. StockConserved'
    BY <1>2 DEF Correct, StockConserved, Database
<1>4. Sold' = Sold
    BY DEF Sold, Database, Taken
<1> QED
    BY <1>1, <1>3, <1>4

\* A step of call r that leaves the database alone and tells the truth: it
\* answers or stores only what was committed, and does not go back.
LEMMA TruthfulStep ==
    ASSUME Correct, UNCHANGED Database,
           NEW r \in Requests, NEW pc \in PC \ {"new"}, NEW answer \in Answer,
           Moves(r, pc, answer),
           r \in Taken => pc \notin Before,
           pc \notin Keyless => Key(r) # NoKey,
           pc = "store_result" => answer \in {"placed", "duplicate"},
           answer = "placed" => r \in Taken,
           answer = "duplicate" => Backed(Key(r)),
           locked' \in SUBSET Keys,
           results' \in [Keys -> Payload],
           \A k \in Keys : results'[k] # None =>
                              results[k] # None \/ (k = Key(r) /\ Backed(k)),
           errors' \in [Keys -> Payload],
           crashes' \in 0 .. MaxCrashes
    PROVE  Correct' /\ Sold' = Sold
<1>1. TypeOK'
    BY DEF Correct, TypeOK, Moves, Database
<1>2. Taken' = Taken /\ Taken \in SUBSET Requests
    BY DEF Taken, Database, Correct, TypeOK
<1>3. PlacedLate'
    BY <1>2 DEF Correct, PlacedLate, Database, Moves
<1>4. \A k : Backed(k)' <=> Backed(k)
    BY <1>2 DEF Backed, Key, Moves
<1>5. ResultsBacked'
    BY <1>4 DEF Correct, ResultsBacked
<1>6. CallFits'
    BY DEF Correct, CallFits, Moves, At, Key
<1>7. AnswerHasOrder'
    <2> SUFFICES ASSUME NEW s \in Requests
                 PROVE  /\ request'[s].answer = "placed" => s \in Taken'
                        /\ request'[s].answer = "duplicate" => Backed(Key(s))'
        BY DEF AnswerHasOrder, Taken, Backed
    <2>1. Key(s)' = Key(s)
        BY DEF Key, Moves
    <2>2. Backed(Key(s))' <=> Backed(Key(s))
        BY <1>2, <2>1 DEF Backed, Key, Moves
    <2>3. CASE s = r
        BY <1>2, <2>2, <2>3 DEF Moves
    <2>4. CASE s # r
        BY <1>2, <2>2, <2>4 DEF Moves, Correct, AnswerHasOrder, Taken, Backed
    <2> QED
        BY <2>3, <2>4
<1>8. OneCheckoutPerKey' /\ StockConserved' /\ Sold' = Sold
    BY <1>2, SalesStand DEF Moves
<1> QED
    BY <1>1, <1>3, <1>5, <1>6, <1>7, <1>8 DEF Correct
-----------------------------------------------------------------------------
(* Each step keeps the invariant; all but two leave what was sold alone.   *)

\* The Redis part of a step that writes nothing there.
LEMMA RedisStands ==
    ASSUME Correct, UNCHANGED <<results, errors, crashes>>
    PROVE  /\ results' \in [Keys -> Payload] /\ errors' \in [Keys -> Payload]
           /\ crashes' \in 0 .. MaxCrashes
           /\ \A k \in Keys : results'[k] # None => results[k] # None
BY DEF Correct, TypeOK

\* What a call has answered so far is true, and it has a key where it needs one.
LEMMA CallStands ==
    ASSUME Correct, NEW r \in Requests
    PROVE  /\ request[r].answer \in Answer /\ TypeOK
           /\ request[r].answer = "placed" => r \in Taken
           /\ request[r].answer = "duplicate" => Backed(Key(r))
           /\ request[r].pc \notin Keyless => Key(r) \in Keys
           /\ request[r].pc \in Before => r \notin Taken
           /\ locked \in SUBSET Keys
BY DEF Correct, TypeOK, Request, AnswerHasOrder, Backed, Taken, CallFits, Key,
       PlacedLate

LEMMA StartKeeps ==
    ASSUME Correct, NEW r \in Requests, NEW k \in Keys \cup {NoKey},
           NEW want \in Wants, Start(r, k, want)
    PROVE  Correct' /\ Sold' = Sold
<1> DEFINE rq == [request[r] EXCEPT !.pc = IF k = NoKey THEN "open" ELSE "check",
                                    !.key = k, !.want = want]
<1>1. request[r] \in Request
    BY DEF Correct, TypeOK
<1>2. rq \in Request /\ rq.pc \in {"open", "check"}
      /\ rq.answer = request[r].answer /\ rq.key = k
      /\ (rq.pc = "check" => k # NoKey)
    BY <1>1 DEF Request, PC, Payload
<1>3. request' = [request EXCEPT ![r] = rq]
    BY DEF Start, Correct, TypeOK
<1> HIDE DEF rq
<1>4. request' \in [Requests -> Request] /\ request'[r] = rq
      /\ \A s \in Requests : s # r => request'[s] = request[s]
    BY <1>2, <1>3 DEF Correct, TypeOK
<1>5. request[r].answer = "none" /\ r \notin Taken
    BY DEF Start, Correct, CallFits, PlacedLate, At, Before
<1>6. Taken' = Taken /\ Taken \in SUBSET Requests
    BY DEF Start, Database, Taken, Correct, TypeOK
<1>7. \A s \in Taken : request'[s] = request[s]
    BY <1>4, <1>5, <1>6
<1>8. OneCheckoutPerKey' /\ StockConserved' /\ Sold' = Sold
    BY <1>7, SalesStand DEF Start
<1>9. TypeOK'
    BY <1>4 DEF Start, Redis, Database, Correct, TypeOK
<1>10. PlacedLate'
    BY <1>6, <1>7 DEF Start, Database, Correct, PlacedLate
<1>11. \A l : Backed(l)' <=> Backed(l)
    BY <1>6, <1>7 DEF Backed, Key
<1>12. ResultsBacked'
    BY <1>11 DEF Start, Redis, Correct, ResultsBacked
<1>13. CallFits'
    BY <1>2, <1>4, <1>5 DEF Correct, CallFits, At, Key, Keyless
<1>14. AnswerHasOrder'
    BY <1>2, <1>4, <1>5, <1>6, <1>7
       DEF Correct, AnswerHasOrder, Taken, Key
<1> QED
    BY <1>8, <1>9, <1>10, <1>12, <1>13, <1>14 DEF Correct

LEMMA CheckKeeps ==
    ASSUME Correct, NEW r \in Requests, Check(r)
    PROVE  Correct' /\ Sold' = Sold
<1> DEFINE k == Key(r)
<1>1. UNCHANGED <<locked, results, errors, crashes>> /\ UNCHANGED Database
      /\ At(r, "check") /\ ~At(r, "new") /\ r \notin Taken
    BY DEF Check, Redis, At, Correct, PlacedLate, Before
<1>0. k \in Keys
    BY <1>1 DEF At, Key, Correct, CallFits, TypeOK, Request, Keyless
<1>2. request[r].answer # "placed"
    BY <1>1 DEF Correct, AnswerHasOrder, Taken
<1>3. locked' \in SUBSET Keys /\ TypeOK
    BY <1>1 DEF Correct, TypeOK
<1>4. ASSUME NEW answer \in {"error", "duplicate", "in_progress", "mismatch"},
             answer = "duplicate" => Backed(k), Decide(r, "done", answer)
      PROVE  Correct' /\ Sold' = Sold
    <2>1. Moves(r, "done", answer)
        BY <1>1, <1>3, <1>4, DecideMoves DEF PC, Answer
    <2> QED
        BY <1>1, <1>3, <1>4, <2>1, RedisStands, TruthfulStep DEF PC, Answer, Keyless
<1>5. ASSUME Goto(r, "lock")
      PROVE  Correct' /\ Sold' = Sold
    <2>1. Moves(r, "lock", request[r].answer)
        BY <1>1, <1>3, <1>5, GotoMoves DEF PC
    <2>2. request[r].answer \in Answer
          /\ (request[r].answer = "duplicate" => Backed(Key(r)))
        BY DEF Correct, TypeOK, Request, AnswerHasOrder, Backed, Taken
    <2> QED
        BY <1>1, <1>0, <1>2, <1>3, <2>1, <2>2, RedisStands, TruthfulStep, NoKeyAssumption DEF PC
<1>6. CASE errors[k] # None
    BY <1>4, <1>6 DEF Check
<1>7. CASE errors[k] = None /\ results[k] # None
    BY <1>0, <1>4, <1>7 DEF Check, Correct, ResultsBacked
<1>8. CASE errors[k] = None /\ results[k] = None
    BY <1>4, <1>5, <1>8 DEF Check
<1> QED
    BY <1>6, <1>7, <1>8

LEMMA LockKeeps ==
    ASSUME Correct, NEW r \in Requests, Lock(r)
    PROVE  Correct' /\ Sold' = Sold
<1>1. /\ UNCHANGED <<results, errors, crashes>> /\ UNCHANGED Database
      /\ request[r].pc = "lock" /\ ~At(r, "new")
    BY DEF Lock, At
<1>2. Key(r) \in Keys /\ r \notin Taken /\ TypeOK
    BY <1>1, CallStands DEF Keyless, Before
<1>3. locked' \in SUBSET Keys
    BY <1>2, CallStands DEF Lock
<1>4. CASE Decide(r, "done", "in_progress")
    <2>1. Moves(r, "done", "in_progress")
        BY <1>1, <1>2, <1>4, DecideMoves DEF PC, Answer
    <2> QED
        BY <1>1, <1>2, <1>3, <2>1, RedisStands, TruthfulStep DEF PC, Answer, Keyless
<1>5. CASE Goto(r, "find")
    <2>1. Moves(r, "find", request[r].answer)
        BY <1>1, <1>2, <1>5, GotoMoves DEF PC
    <2> QED
        BY <1>1, <1>2, <1>3, <2>1, CallStands, RedisStands, TruthfulStep,
           NoKeyAssumption DEF PC
<1> QED
    BY <1>4, <1>5 DEF Lock

\* A checkout under a key of the database is one that was committed.
LEMMA FoundBacked ==
    ASSUME NEW r \in Requests, Name(r) \in PlacedKeys
    PROVE  Backed(Key(r))
BY DEF PlacedKeys, Name, Backed, Taken

LEMMA FindKeeps ==
    ASSUME Correct, NEW r \in Requests, Find(r)
    PROVE  Correct' /\ Sold' = Sold
<1>1. /\ UNCHANGED <<locked, results, errors, crashes>> /\ UNCHANGED Database
      /\ request[r].pc = "find" /\ ~At(r, "new")
    BY DEF Find, At, Redis
<1>2. Key(r) \in Keys /\ r \notin Taken /\ TypeOK /\ locked' \in SUBSET Keys
    BY <1>1, CallStands DEF Keyless, Before
<1>3. CASE Name(r) \in PlacedKeys
    <2>1. Moves(r, "store_result", "duplicate")
        BY <1>1, <1>2, <1>3, DecideMoves DEF PC, Answer, Find
    <2> QED
        BY <1>1, <1>2, <1>3, <2>1, FoundBacked, RedisStands, TruthfulStep,
           NoKeyAssumption DEF PC, Answer
<1>4. CASE Name(r) \notin PlacedKeys
    <2>1. Moves(r, "open", request[r].answer)
        BY <1>1, <1>2, <1>4, GotoMoves DEF PC, Find
    <2> QED
        BY <1>1, <1>2, <2>1, CallStands, RedisStands, TruthfulStep DEF PC, Keyless
<1> QED
    BY <1>3, <1>4

LEMMA OpenKeeps ==
    ASSUME Correct, NEW r \in Requests, Open(r)
    PROVE  Correct' /\ Sold' = Sold
<1>1. /\ UNCHANGED <<locked, results, errors, crashes>> /\ UNCHANGED Database
      /\ request[r].pc = "open"
    BY DEF Open, At, Redis
<1>2. r \notin Taken /\ TypeOK /\ locked' \in SUBSET Keys
    BY <1>1, CallStands DEF Before
<1>3. Moves(r, "commit", request[r].answer)
    BY <1>2, OpenMoves
<1> QED
    BY <1>1, <1>2, <1>3, CallStands, RedisStands, TruthfulStep DEF PC, Keyless

\* Every way in which the transaction is given up.
LEMMA AbortKeeps ==
    ASSUME Correct, NEW r \in Requests, At(r, "commit"),
           NEW pc \in {"store_error", "release"}, NEW answer \in {"clash", "error"},
           End(r, pc, answer), UNCHANGED <<Redis, Database, crashes>>
    PROVE  Correct' /\ Sold' = Sold
<1> DEFINE to == IF Key(r) = NoKey THEN "done" ELSE pc
<1>1. /\ UNCHANGED <<locked, results, errors, crashes>> /\ UNCHANGED Database
      /\ request[r].pc = "commit" /\ ~At(r, "new")
    BY DEF At, Redis
<1>2. r \notin Taken /\ TypeOK /\ locked' \in SUBSET Keys
    BY <1>1, CallStands DEF Before
<1>4. to \in PC \ {"new", "store_result"} /\ (to \notin Keyless => Key(r) # NoKey)
      /\ answer \in Answer /\ answer \notin {"placed", "duplicate"}
    BY DEF PC, Keyless, Answer
<1>5. Moves(r, to, answer)
    BY <1>1, <1>2, <1>4, EndMoves DEF PC
<1> HIDE DEF to
<1> QED
    BY <1>1, <1>2, <1>4, <1>5, RedisStands, TruthfulStep

LEMMA FailKeeps ==
    ASSUME Correct, NEW r \in Requests, Fail(r)
    PROVE  Correct' /\ Sold' = Sold
BY AbortKeeps DEF Fail

LEMMA StoreResultKeeps ==
    ASSUME Correct, NEW r \in Requests, StoreResult(r)
    PROVE  Correct' /\ Sold' = Sold
<1>1. /\ UNCHANGED <<locked, errors, crashes>> /\ UNCHANGED Database
      /\ request[r].pc = "store_result" /\ ~At(r, "new")
    BY DEF StoreResult, At
<1>2. Key(r) \in Keys /\ TypeOK /\ locked' \in SUBSET Keys
    BY <1>1, CallStands DEF Keyless
<1>3. Moves(r, "free", request[r].answer)
    BY <1>1, <1>2, GotoMoves DEF PC, StoreResult
<1>4. Backed(Key(r))
    <2>1. request[r].answer \in {"placed", "duplicate"}
        BY <1>1 DEF Correct, CallFits, At
    <2> QED
        BY <2>1, CallStands DEF Backed
<1>5. results' = [results EXCEPT ![Key(r)] = request[r].want]
      /\ request[r].want \in Payload
    BY <1>2 DEF StoreResult, TypeOK, Request
<1>6. /\ results' \in [Keys -> Payload]
      /\ \A k \in Keys : results'[k] # None =>
                         results[k] # None \/ (k = Key(r) /\ Backed(k))
    BY <1>2, <1>4, <1>5 DEF TypeOK
<1>7. errors' \in [Keys -> Payload] /\ crashes' \in 0 .. MaxCrashes
    BY <1>1, <1>2 DEF TypeOK
<1> QED
    BY <1>1, <1>2, <1>3, <1>6, <1>7, CallStands, TruthfulStep, NoKeyAssumption
       DEF PC, Before

LEMMA StoreErrorKeeps ==
    ASSUME Correct, NEW r \in Requests, StoreError(r)
    PROVE  Correct' /\ Sold' = Sold
<1>1. /\ UNCHANGED <<locked, results, crashes>> /\ UNCHANGED Database
      /\ request[r].pc = "store_error" /\ ~At(r, "new")
    BY DEF StoreError, At
<1>2. Key(r) \in Keys /\ TypeOK /\ locked' \in SUBSET Keys
    BY <1>1, CallStands DEF Keyless
<1>3. Moves(r, "free", request[r].answer)
    BY <1>1, <1>2, GotoMoves DEF PC, StoreError
<1>4. errors' = [errors EXCEPT ![Key(r)] = request[r].want]
      /\ request[r].want \in Payload
    BY <1>2 DEF StoreError, TypeOK, Request
<1>5. errors' \in [Keys -> Payload] /\ results' \in [Keys -> Payload]
      /\ crashes' \in 0 .. MaxCrashes
    BY <1>1, <1>2, <1>4 DEF TypeOK
<1> QED
    BY <1>1, <1>2, <1>3, <1>5, CallStands, TruthfulStep, NoKeyAssumption
       DEF PC, Before

LEMMA FreeKeeps ==
    ASSUME Correct, NEW r \in Requests, Free(r)
    PROVE  Correct' /\ Sold' = Sold
<1> DEFINE to == IF request[r].answer = "clash" THEN "look_up" ELSE "done"
<1>1. /\ UNCHANGED <<results, errors, crashes>> /\ UNCHANGED Database
      /\ request[r].pc \in {"free", "release"} /\ ~At(r, "new")
    BY DEF Free, At
<1>2. Key(r) \in Keys /\ TypeOK /\ locked' \in SUBSET Keys
    BY <1>1, CallStands DEF Keyless, Free
<1>3. Moves(r, to, request[r].answer)
    BY <1>1, <1>2, GotoMoves DEF PC, Free
<1> QED
    BY <1>1, <1>2, <1>3, CallStands, RedisStands, TruthfulStep, NoKeyAssumption
       DEF PC, Before

LEMMA LookUpKeeps ==
    ASSUME Correct, NEW r \in Requests, LookUp(r)
    PROVE  Correct' /\ Sold' = Sold
<1>1. /\ UNCHANGED <<locked, results, errors, crashes>> /\ UNCHANGED Database
      /\ request[r].pc = "look_up" /\ ~At(r, "new")
    BY DEF LookUp, At, Redis
<1>2. Key(r) \in Keys /\ TypeOK /\ locked' \in SUBSET Keys
    BY <1>1, CallStands DEF Keyless
<1>3. CASE Name(r) \in PlacedKeys
    <2>1. Moves(r, "store_result", "duplicate")
        BY <1>1, <1>2, <1>3, DecideMoves DEF PC, Answer, LookUp
    <2> QED
        BY <1>1, <1>2, <1>3, <2>1, FoundBacked, RedisStands, TruthfulStep,
           NoKeyAssumption DEF PC, Answer, Before
<1>4. CASE Name(r) \notin PlacedKeys
    <2>1. Moves(r, "done", "error")
        BY <1>1, <1>2, <1>4, DecideMoves DEF PC, Answer, LookUp
    <2> QED
        BY <1>1, <1>2, <2>1, RedisStands, TruthfulStep DEF PC, Answer, Keyless, Before
<1> QED
    BY <1>3, <1>4

LEMMA CrashKeeps ==
    ASSUME Correct, NEW r \in Requests, Crash(r)
    PROVE  Correct' /\ Sold' = Sold
<1>1. UNCHANGED <<locked, results, errors>> /\ UNCHANGED Database /\ ~At(r, "new")
    BY DEF Crash, At, Redis
<1>2. TypeOK /\ locked' \in SUBSET Keys /\ results' \in [Keys -> Payload]
      /\ errors' \in [Keys -> Payload] /\ crashes' \in 0 .. MaxCrashes
    BY <1>1, CrashesAssumption DEF Crash, Correct, TypeOK
<1>3. Moves(r, "done", "lost")
    BY <1>1, <1>2, DecideMoves DEF PC, Answer, Crash
<1> QED
    BY <1>1, <1>2, <1>3, TruthfulStep DEF PC, Answer, Keyless, Before

\* What expires in Redis, and what is no step at all.
LEMMA ExpiryKeeps ==
    ASSUME Correct, UNCHANGED <<request, crashes>>, UNCHANGED Database,
           locked' \in SUBSET Keys, results' \in [Keys -> Payload],
           errors' \in [Keys -> Payload],
           \A k \in Keys : results'[k] # None => results[k] # None
    PROVE  Correct' /\ Sold' = Sold
<1>1. TypeOK'
    BY DEF Correct, TypeOK, Database
<1>2. PlacedLate' /\ CallFits' /\ AnswerHasOrder'
    BY DEF Correct, PlacedLate, CallFits, AnswerHasOrder, Database, Taken, At, Key
<1>3. ResultsBacked'
    BY DEF Correct, ResultsBacked, Backed, Database, Taken, Key
<1>4. OneCheckoutPerKey' /\ StockConserved' /\ Sold' = Sold
    BY SalesStand
<1> QED
    BY <1>1, <1>2, <1>3, <1>4 DEF Correct

LEMMA RedisExpiryKeeps ==
    ASSUME Correct, NEW k \in Keys,
           LockExpires(k) \/ ResultExpires(k) \/ ErrorExpires(k)
    PROVE  Correct' /\ Sold' = Sold
<1>1. TypeOK /\ None \in Payload
    BY DEF Correct, Payload
<1>2. CASE LockExpires(k)
    BY <1>1, <1>2, ExpiryKeeps DEF LockExpires, TypeOK
<1>3. CASE ResultExpires(k)
    BY <1>1, <1>3, ExpiryKeeps DEF ResultExpires, TypeOK
<1>4. CASE ErrorExpires(k)
    BY <1>1, <1>4, ExpiryKeeps DEF ErrorExpires, TypeOK
<1> QED
    BY <1>2, <1>3, <1>4
-----------------------------------------------------------------------------
(* The two steps that change what is on record.                            *)

LEMMA RecordExpiresKeeps ==
    ASSUME Correct, NEW r \in Requests, RecordExpires(r)
    PROVE  Correct' /\ Promise!Forget(r)
<1>1. UNCHANGED <<request, locked, results, errors, stock, crashes>>
      /\ r \in placed /\ placed' = placed \ {r} /\ removed' = removed \cup {r}
    BY DEF RecordExpires, Redis
<1>2. Taken' = Taken
    BY <1>1 DEF Taken
<1>3. TypeOK'
    BY <1>1 DEF Correct, TypeOK
<1>4. PlacedLate' /\ CallFits'
    BY <1>1, <1>2 DEF Correct, PlacedLate, CallFits, At, Key
<1>5. ResultsBacked'
    BY <1>1, <1>2 DEF Correct, ResultsBacked, Backed, Key
<1>6. AnswerHasOrder'
    BY <1>1, <1>2 DEF Correct, AnswerHasOrder, Taken, Key
<1>7. OneCheckoutPerKey'
    BY <1>1 DEF Correct, OneCheckoutPerKey, Name, Key
<1>8. StockConserved'
    <2>1. \A i \in Items : Wanting(i)' = Wanting(i)
        BY <1>1, <1>2 DEF Wanting, Taken
    <2> QED
        BY <1>1, <2>1 DEF Correct, StockConserved
<1>9. Sold' = Sold
    BY <1>1, <1>2 DEF Sold, Taken
<1> QED
    BY <1>1, <1>3, <1>4, <1>5, <1>6, <1>7, <1>8, <1>9 DEF Correct, Promise!Forget

\* The transaction of call r commits.
Commits(r) ==
    /\ At(r, "commit")
    /\ Name(r) \notin request[r].keys
    /\ Enough(r)
    /\ ~Conflict(r)
    /\ placed' = placed \cup {r}
    /\ stock' = [i \in Items |-> stock[i] - IF i \in request[r].want THEN 1 ELSE 0]
    /\ End(r, "store_result", "placed")
    /\ UNCHANGED <<Redis, removed, crashes>>

LEMMA CommitCases ==
    ASSUME Correct, NEW r \in Requests, Commit(r)
    PROVE  Commits(r) \/ (Correct' /\ Sold' = Sold /\ UNCHANGED Database)
<1>1. CASE Name(r) \in request[r].keys
    BY <1>1, AbortKeeps DEF Commit, Database
<1>2. CASE Name(r) \notin request[r].keys /\ (~Enough(r) \/ Conflict(r))
    BY <1>2, AbortKeeps DEF Commit, Database
<1>3. CASE Name(r) \notin request[r].keys /\ Enough(r) /\ ~Conflict(r)
    BY <1>3 DEF Commit, Commits
<1> QED
    BY <1>1, <1>2, <1>3

LEMMA CommitsKeeps ==
    ASSUME Correct, NEW r \in Requests, Commits(r)
    PROVE  Correct' /\ Promise!Sell(r, Key(r), request[r].want)
<1> DEFINE to == IF Key(r) = NoKey THEN "done" ELSE "store_result"
           want == request[r].want
<1>1. /\ UNCHANGED <<locked, results, errors, removed, crashes>>
      /\ placed' = placed \cup {r} /\ ~At(r, "new") /\ request[r].pc = "commit"
    BY DEF Commits, At, Redis
<1>2. r \notin Taken /\ TypeOK /\ Taken \in SUBSET Requests
    BY <1>1, CallStands DEF Before, Taken, TypeOK
<1>3. Moves(r, to, "placed")
    <2>1. End(r, "store_result", "placed")
        BY DEF Commits
    <2> QED
        BY <1>1, <1>2, <2>1, EndMoves DEF PC, Answer
<1>4. Taken' = Taken \cup {r}
    BY <1>1 DEF Taken
<1>5. want \in SUBSET Items /\ request[r].stock \in [Items -> Nat]
    BY <1>1, <1>2, WantsAssumption DEF TypeOK, Request, At
<1>6. \A i \in want : stock[i] > 0
    BY <1>5 DEF Commits, Enough, Conflict
<1>7. Name(r) \notin PlacedKeys
    BY DEF Commits, Conflict
<1>8. TypeOK'
    <2>1. stock' \in [Items -> Nat]
        <3> SUFFICES ASSUME NEW i \in Items
                     PROVE  stock[i] - (IF i \in want THEN 1 ELSE 0) \in Nat
            BY DEF Commits
        <3> QED
            BY <1>2, <1>6 DEF TypeOK
    <2> QED
        BY <1>1, <1>2, <1>3, <2>1 DEF TypeOK, Moves
<1>9. PlacedLate'
    BY <1>1, <1>2, <1>3, <1>4 DEF Correct, PlacedLate, Moves, Before, Taken
<1>10. \A k : Backed(k) => Backed(k)'
    BY <1>2, <1>3, <1>4 DEF Backed, Key, Moves
<1>11. ResultsBacked'
    BY <1>1, <1>10 DEF Correct, ResultsBacked
<1>12. CallFits'
    BY <1>3 DEF Correct, CallFits, Moves, At, Key, Keyless
<1>13. AnswerHasOrder'
    <2> SUFFICES ASSUME NEW s \in Requests
                 PROVE  /\ request'[s].answer = "placed" => s \in Taken'
                        /\ request'[s].answer = "duplicate" => Backed(Key(s))'
        BY DEF AnswerHasOrder, Taken, Backed
    <2>1. CASE s = r
        BY <1>3, <1>4, <2>1 DEF Moves
    <2>2. CASE s # r
        <3>1. request'[s] = request[s]
            BY <1>3, <2>2 DEF Moves
        <3>2. request[s].answer = "placed" => s \in Taken'
            BY <1>4, CallStands
        <3>3. request[s].answer = "duplicate" => Backed(Key(s))'
            BY <1>2, <1>3, <1>4, CallStands DEF Backed, Key, Moves
        <3> QED
            BY <3>1, <3>2, <3>3
    <2> QED
        BY <2>1, <2>2
<1>14. OneCheckoutPerKey'
    <2> SUFFICES ASSUME NEW s \in placed', NEW q \in placed',
                        Name(s)' = Name(q)', Key(s)' # NoKey
                 PROVE  s = q
        BY DEF OneCheckoutPerKey
    <2>1. s \in Requests /\ q \in Requests
        BY <1>1, <1>2 DEF TypeOK
    <2>2. Name(s) = Name(q) /\ Key(s) = Key(q) /\ Key(s) # NoKey
        BY <1>3, <2>1 DEF Name, Key, Moves
    <2>3. \A p \in placed : Key(p) # NoKey => Name(p) # Name(r)
        BY <1>7 DEF PlacedKeys
    <2> QED
        BY <1>1, <2>2, <2>3 DEF Correct, OneCheckoutPerKey
<1>15. StockConserved'
    <2> SUFFICES ASSUME NEW i \in Items
                 PROVE  stock'[i] + Cardinality(Wanting(i)') = Supply
        BY DEF StockConserved
    <2>1. stock[i] + Cardinality(Wanting(i)) = Supply /\ stock[i] \in Nat
        BY <1>2 DEF Correct, StockConserved, TypeOK
    <2>2. Wanting(i) \in SUBSET Requests /\ r \notin Wanting(i)
        BY <1>2 DEF Wanting, Taken
    <2>3. IsFiniteSet(Wanting(i)) /\ Cardinality(Wanting(i)) \in Nat
        BY <2>2, RequestsAssumption, FS_Subset, FS_CardinalityType
    <2>4. stock'[i] = stock[i] - IF i \in want THEN 1 ELSE 0
        BY DEF Commits
    <2>5. CASE i \in want
        <3>1. Wanting(i)' = Wanting(i) \cup {r}
            BY <1>1, <1>2, <1>3, <2>5 DEF Wanting, Taken, Moves
        <3>2. Cardinality(Wanting(i)') = Cardinality(Wanting(i)) + 1
            BY <2>2, <2>3, <3>1, FS_AddElement
        <3> QED
            BY <2>1, <2>3, <2>4, <2>5, <3>2
    <2>6. CASE i \notin want
        <3>1. Wanting(i)' = Wanting(i)
            BY <1>1, <1>2, <1>3, <2>6 DEF Wanting, Taken, Moves
        <3> QED
            BY <2>1, <2>3, <2>4, <2>6, <3>1
    <2> QED
        BY <2>5, <2>6
<1>16. Promise!Sell(r, Key(r), want)
    <2>1. \A s \in Sold : s.call # r
        BY <1>2 DEF Sold, Taken
    <2>2. Key(r) # NoKey =>
              \A s \in Sold : s.call \in placed /\ Caller[s.call] = Caller[r] =>
                                s.key # Key(r)
        BY <1>7 DEF Sold, PlacedKeys, Name, Key
    <2>3. Sold' = Sold \cup {[call |-> r, key |-> Key(r), want |-> want]}
        <3>1. \A s \in Requests : request'[s].key = request[s].key
                                 /\ request'[s].want = request[s].want
            BY <1>3 DEF Moves
        <3> QED
            BY <1>1, <1>2, <3>1 DEF Sold, Taken, Key
    <2> QED
        BY <1>1, <1>6, <2>1, <2>2, <2>3 DEF Promise!Sell, Commits
<1> QED
    BY <1>8, <1>9, <1>11, <1>12, <1>13, <1>14, <1>15, <1>16 DEF Correct
-----------------------------------------------------------------------------
(* The theorems.                                                           *)

LEMMA NextKeeps ==
    ASSUME Correct, [Next]_vars
    PROVE  Correct' /\ [Promise!PromiseNext]_Promise!promiseVars
<1>1. ASSUME Correct' /\ Sold' = Sold, UNCHANGED Database
      PROVE  Correct' /\ [Promise!PromiseNext]_Promise!promiseVars
    BY <1>1 DEF Database, Promise!promiseVars
<1>2. CASE UNCHANGED vars
    <2>1. UNCHANGED Database /\ UNCHANGED <<request, locked, results, errors, crashes>>
        BY <1>2 DEF vars, Database
    <2> QED
        BY <1>1, <2>1, ExpiryKeeps DEF Correct, TypeOK
<1>3. ASSUME NEW r \in Requests, NEW k \in Keys \cup {NoKey}, NEW want \in Wants,
             Start(r, k, want)
      PROVE  Correct' /\ [Promise!PromiseNext]_Promise!promiseVars
    BY <1>1, <1>3, StartKeeps DEF Start
<1>4. ASSUME NEW r \in Requests, Continue(r)
      PROVE  Correct' /\ [Promise!PromiseNext]_Promise!promiseVars
    <2>1. CASE Check(r)
        BY <1>1, <2>1, CheckKeeps DEF Check
    <2>2. CASE Lock(r)
        BY <1>1, <2>2, LockKeeps DEF Lock
    <2>3. CASE Find(r)
        BY <1>1, <2>3, FindKeeps DEF Find
    <2>4. CASE Open(r)
        BY <1>1, <2>4, OpenKeeps DEF Open
    <2>5. CASE Commit(r)
        <3>1. CASE Commits(r)
            <4>1. Key(r) \in Keys \cup {NoKey} /\ request[r].want \in Wants
                BY <3>1 DEF Commits, At, Correct, TypeOK, Request, Key
            <4> QED
                BY <3>1, <4>1, CommitsKeeps DEF Promise!PromiseNext
        <3> QED
            BY <1>1, <2>5, <3>1, CommitCases
    <2>6. CASE Fail(r)
        BY <1>1, <2>6, FailKeeps DEF Fail
    <2>7. CASE StoreResult(r)
        BY <1>1, <2>7, StoreResultKeeps DEF StoreResult
    <2>8. CASE StoreError(r)
        BY <1>1, <2>8, StoreErrorKeeps DEF StoreError
    <2>9. CASE Free(r)
        BY <1>1, <2>9, FreeKeeps DEF Free
    <2>10. CASE LookUp(r)
        BY <1>1, <2>10, LookUpKeeps DEF LookUp
    <2> QED
        BY <1>4, <2>1, <2>2, <2>3, <2>4, <2>5, <2>6, <2>7, <2>8, <2>9, <2>10
           DEF Continue
<1>5. ASSUME NEW r \in Requests, RecordExpires(r)
      PROVE  Correct' /\ [Promise!PromiseNext]_Promise!promiseVars
    BY <1>5, RecordExpiresKeeps DEF Promise!PromiseNext
<1>6. ASSUME NEW r \in Requests, Crash(r)
      PROVE  Correct' /\ [Promise!PromiseNext]_Promise!promiseVars
    BY <1>1, <1>6, CrashKeeps DEF Crash
<1>7. ASSUME NEW k \in Keys, LockExpires(k) \/ ResultExpires(k) \/ ErrorExpires(k)
      PROVE  Correct' /\ [Promise!PromiseNext]_Promise!promiseVars
    BY <1>1, <1>7, RedisExpiryKeeps DEF LockExpires, ResultExpires, ErrorExpires
<1> QED
    BY <1>2, <1>3, <1>4, <1>5, <1>6, <1>7 DEF Next

\* The inductive invariant: who has committed is past the commit, and what is
\* stored or answered was committed.
THEOREM CheckoutCorrect == Spec => []Correct
<1>1. Init => Correct
    BY InitCorrect
<1>2. Correct /\ [Next]_vars => Correct'
    BY NextKeeps
<1> QED
    BY <1>1, <1>2, PTL DEF Spec

\* Every variable keeps its type; a stock below zero is ruled out by the filter
\* on the snapshot and the write conflict together.
THEOREM CheckoutTypeCorrect == Spec => []TypeOK
<1>1. Correct => TypeOK
    BY DEF Correct
<1> QED
    BY <1>1, CheckoutCorrect, PTL

\* No unit is sold twice and none is lost, for any number of calls and products.
THEOREM StockAddsUp == Spec => []StockConserved
<1>1. Correct => StockConserved
    BY DEF Correct
<1> QED
    BY <1>1, CheckoutCorrect, PTL

\* At most one checkout is on record under a key, though locks expire.
THEOREM KeysAreSingle == Spec => []OneCheckoutPerKey
<1>1. Correct => OneCheckoutPerKey
    BY DEF Correct
<1> QED
    BY <1>1, CheckoutCorrect, PTL

\* A call that answers with an order has one to show.
THEOREM AnswersAreTrue == Spec => []AnswerHasOrder
<1>1. Correct => AnswerHasOrder
    BY DEF Correct
<1> QED
    BY <1>1, CheckoutCorrect, PTL

\* placeOrderAtomic sells all at once or not at all: Checkout implements its
\* promise.
THEOREM CheckoutImplementsPromise == Spec => PromiseKept
<1>1. Init => Promise!PromiseInit
    BY DEF Init, Promise!PromiseInit, Sold
<1>2. Correct /\ [Next]_vars => [Promise!PromiseNext]_Promise!promiseVars
    BY NextKeeps
<1> QED
    BY <1>1, <1>2, CheckoutCorrect, PTL DEF Spec, PromiseKept, Promise!PromiseSpec
-----------------------------------------------------------------------------
(* Prompt keys: the lock keeps their calls apart.                          *)

\* A call with a prompt key that works under the lock is the only one, and what it has
\* seen of its key (nothing placed) stays true until its own commit.  Its key is then not
\* in its snapshot, so that it never meets a duplicate key and never looks up.
PromptInv ==
    \A r \in Requests : Key(r) \in PromptKeys =>
        /\ request[r].pc \in Holding =>
               /\ Key(r) \in locked
               /\ \A s \in Requests :
                      Key(s) = Key(r) /\ request[s].pc \in Holding => s = r
        /\ request[r].pc \in {"open", "commit"} => Name(r) \notin PlacedKeys
        /\ request[r].pc = "commit" => Name(r) \notin request[r].keys
        /\ request[r].answer # "clash" /\ request[r].pc # "look_up"

LEMMA InitPrompt == Init => PromptInv
BY DEF Init, PromptInv, New, Key, Holding

\* A step of call r, which touches the lock and the record of its own key at most, and
\* only while it holds the lock, or to take one that is free.
LEMMA PromptStep ==
    ASSUME PromptInv, NEW r \in Requests,
           \A s \in Requests : s # r => request'[s] = request[s],
           locked \ {Key(r)} \subseteq locked',
           PlacedKeys' \subseteq PlacedKeys \cup {Name(r)},
           \/ request[r].pc \in Holding /\ Key(r)' = Key(r)
           \/ locked \subseteq locked' /\ PlacedKeys' \subseteq PlacedKeys,
           Key(r)' \in PromptKeys =>
               /\ request'[r].pc \in Holding =>
                      /\ Key(r)' \in locked'
                      /\ \/ request[r].pc \in Holding /\ Key(r)' = Key(r)
                         \/ \A s \in Requests :
                                Key(s) = Key(r)' => request[s].pc \notin Holding
               /\ request'[r].pc \in {"open", "commit"} => Name(r)' \notin PlacedKeys'
               /\ request'[r].pc = "commit" => Name(r)' \notin request'[r].keys
               /\ request'[r].answer # "clash" /\ request'[r].pc # "look_up"
    PROVE  PromptInv'
<1>1. \A s \in Requests : s # r => Key(s)' = Key(s) /\ Name(s)' = Name(s)
  BY DEF Key, Name
<1>2. SUFFICES ASSUME NEW q \in Requests, Key(q)' \in PromptKeys
               PROVE  /\ request'[q].pc \in Holding =>
                             /\ Key(q)' \in locked'
                             /\ \A s \in Requests :
                                    Key(s)' = Key(q)' /\ request'[s].pc \in Holding => s = q
                      /\ request'[q].pc \in {"open", "commit"} => Name(q)' \notin PlacedKeys'
                      /\ request'[q].pc = "commit" => Name(q)' \notin request'[q].keys
                      /\ request'[q].answer # "clash" /\ request'[q].pc # "look_up"
  BY DEF PromptInv
<1>3. CASE q = r
  <2>1. ASSUME request'[r].pc \in Holding, NEW s \in Requests, s # r,
               Key(s)' = Key(r)', request'[s].pc \in Holding
        PROVE  FALSE
    <3>1. Key(s) = Key(r)' /\ request[s].pc \in Holding
      BY <1>1, <2>1
    <3> QED BY <1>2, <1>3, <2>1, <3>1 DEF PromptInv
  <2> QED BY <1>2, <1>3, <2>1
<1>4. CASE q # r
  <2>1. Key(q)' = Key(q) /\ Name(q)' = Name(q) /\ request'[q] = request[q]
    BY <1>1, <1>4
  <2>2. request[q].pc \in Holding =>
            /\ Key(q) \in locked'
            /\ Name(q) \in PlacedKeys' => Name(q) \in PlacedKeys
    BY <1>2, <1>4, <2>1 DEF PromptInv, Name
  <2>3. request[q].pc \in Holding /\ Key(r)' = Key(q) => request'[r].pc \notin Holding
    BY <1>2, <1>4, <2>1 DEF PromptInv
  <2>4. {"open", "commit"} \subseteq Holding
    BY DEF Holding
  <2>5. ASSUME request[q].pc \in Holding, NEW s \in Requests, s # q,
               Key(s)' = Key(q), request'[s].pc \in Holding
        PROVE  FALSE
    <3>1. s # r
      BY <2>3, <2>5
    <3> QED BY <1>1, <1>2, <2>1, <2>5, <3>1 DEF PromptInv
  <2> QED BY <1>2, <2>1, <2>2, <2>4, <2>5 DEF PromptInv
<1> QED BY <1>3, <1>4

\* What a step of a call that has begun does to the keys on record.
LEMMA KeysOnRecord ==
    ASSUME TypeOK, NEW r \in Requests, NEW pc, NEW answer, Moves(r, pc, answer),
           placed' \subseteq placed \cup {r}
    PROVE  /\ Key(r)' = Key(r) /\ Name(r)' = Name(r)
           /\ PlacedKeys' \subseteq PlacedKeys \cup {Name(r)}
           /\ placed' = placed => PlacedKeys' = PlacedKeys
BY DEF Moves, Name, Key, PlacedKeys, TypeOK

\* A call that has begun goes on, to anything but a new transaction.
LEMMA PromptGoes ==
    ASSUME TypeOK, PromptInv, NEW r \in Requests, NEW pc, NEW answer,
           Moves(r, pc, answer), pc \notin {"open", "commit"},
           placed' \subseteq placed \cup {r}, locked \ {Key(r)} \subseteq locked',
           request[r].pc \in Holding \/ (locked \subseteq locked' /\ placed' = placed),
           Key(r) \in PromptKeys =>
               /\ pc \in Holding =>
                      /\ Key(r) \in locked'
                      /\ \/ request[r].pc \in Holding
                         \/ \A s \in Requests :
                                Key(s) = Key(r) => request[s].pc \notin Holding
               /\ answer # "clash" /\ pc # "look_up"
    PROVE  PromptInv'
<1>1. /\ \A s \in Requests : s # r => request'[s] = request[s]
      /\ request'[r].pc = pc /\ request'[r].answer = answer
  BY DEF Moves
<1> QED BY <1>1, KeysOnRecord, PromptStep

LEMMA PromptStart ==
    ASSUME Correct, PromptInv, NEW r \in Requests, NEW k \in Keys \cup {NoKey},
           NEW want \in Wants, Start(r, k, want)
    PROVE  PromptInv'
<1>1. /\ \A s \in Requests : s # r => request'[s] = request[s]
      /\ request'[r].key = k /\ request'[r].answer = "none"
      /\ request'[r].pc = IF k = NoKey THEN "open" ELSE "check"
      /\ UNCHANGED <<locked, placed>>
  BY DEF Start, Correct, TypeOK, CallFits, Request, Redis, Database
<1>2. r \notin placed
  BY DEF Start, At, Correct, PlacedLate, Taken, Before
<1>3. PlacedKeys' = PlacedKeys
  BY <1>1, <1>2 DEF PlacedKeys, Name, Key, Correct, TypeOK
<1>4. Key(r)' = k /\ (k \in PromptKeys => k # NoKey)
  BY <1>1, PromptAssumption, NoKeyAssumption DEF Key
<1> QED BY <1>1, <1>3, <1>4, PromptStep DEF Holding

LEMMA PromptOpen ==
    ASSUME Correct, PromptInv, NEW r \in Requests, Open(r)
    PROVE  PromptInv'
<1>1. TypeOK /\ request[r].pc = "open" /\ UNCHANGED <<locked, placed>>
  BY DEF Open, At, Correct, Redis, Database
<1>2. Moves(r, "commit", request[r].answer)
  BY <1>1, OpenMoves
<1>3. request'[r].keys = PlacedKeys
  BY <1>1 DEF Open, TypeOK, Request
<1>4. Name(r)' = Name(r) /\ Key(r)' = Key(r) /\ PlacedKeys' = PlacedKeys
  BY <1>1, <1>2, KeysOnRecord
<1>5. Key(r) \in PromptKeys => /\ Key(r) \in locked /\ Name(r) \notin PlacedKeys
                               /\ request[r].answer # "clash"
  BY <1>1 DEF PromptInv, Holding
<1>6. {"open", "commit"} \subseteq Holding
  BY DEF Holding
<1> QED BY <1>1, <1>2, <1>3, <1>4, <1>5, <1>6, PromptStep DEF Moves

LEMMA PromptCheck ==
    ASSUME Correct, PromptInv, NEW r \in Requests, Check(r)
    PROVE  PromptInv'
<1>1. /\ TypeOK /\ request[r].pc = "check" /\ ~At(r, "new")
      /\ UNCHANGED <<locked, placed>>
  BY DEF Check, At, Correct, Redis, Database
<1>2. ASSUME NEW answer \in Answer, answer # "clash", Decide(r, "done", answer)
      PROVE  PromptInv'
  <2>1. Moves(r, "done", answer)
    BY <1>1, <1>2, DecideMoves DEF PC
  <2> QED BY <1>1, <1>2, <2>1, PromptGoes DEF Holding
<1>3. CASE Goto(r, "lock")
  <2>1. Moves(r, "lock", request[r].answer)
    BY <1>1, <1>3, GotoMoves DEF PC
  <2>2. Key(r) \in PromptKeys => request[r].answer # "clash"
    BY DEF PromptInv
  <2> QED BY <1>1, <2>1, <2>2, PromptGoes DEF Holding
<1> QED BY <1>2, <1>3 DEF Check, Answer

LEMMA PromptLock ==
    ASSUME Correct, PromptInv, NEW r \in Requests, Lock(r)
    PROVE  PromptInv'
<1>1. /\ TypeOK /\ request[r].pc = "lock" /\ ~At(r, "new") /\ placed' = placed
  BY DEF Lock, At, Correct, Database
<1>2. CASE Decide(r, "done", "in_progress") /\ locked' = locked
  <2>1. Moves(r, "done", "in_progress")
    BY <1>1, <1>2, DecideMoves DEF PC, Answer
  <2> QED BY <1>1, <1>2, <2>1, PromptGoes DEF Holding
<1>3. CASE Key(r) \notin locked /\ Goto(r, "find") /\ locked' = locked \cup {Key(r)}
  <2>1. Moves(r, "find", request[r].answer)
    BY <1>1, <1>3, GotoMoves DEF PC
  <2>2. Key(r) \in PromptKeys =>
            /\ request[r].answer # "clash"
            /\ \A s \in Requests : Key(s) = Key(r) => request[s].pc \notin Holding
    BY <1>3 DEF PromptInv
  <2> QED BY <1>1, <1>3, <2>1, <2>2, PromptGoes
<1> QED BY <1>2, <1>3 DEF Lock

LEMMA PromptFind ==
    ASSUME Correct, PromptInv, NEW r \in Requests, Find(r)
    PROVE  PromptInv'
<1>1. /\ TypeOK /\ request[r].pc = "find" /\ request[r].pc \in Holding /\ ~At(r, "new")
      /\ UNCHANGED <<locked, placed>>
  BY DEF Find, At, Correct, Redis, Database, Holding
<1>2. Key(r) \in PromptKeys => Key(r) \in locked /\ request[r].answer # "clash"
  BY <1>1 DEF PromptInv
<1>3. CASE Decide(r, "store_result", "duplicate")
  <2>1. Moves(r, "store_result", "duplicate")
    BY <1>1, <1>3, DecideMoves DEF PC, Answer
  <2> QED BY <1>1, <1>2, <2>1, PromptGoes
<1>4. CASE Name(r) \notin PlacedKeys /\ Goto(r, "open")
  <2>1. Moves(r, "open", request[r].answer)
    BY <1>1, <1>4, GotoMoves DEF PC
  <2>2. Name(r)' = Name(r) /\ Key(r)' = Key(r) /\ PlacedKeys' = PlacedKeys
    BY <1>1, <2>1, KeysOnRecord
  <2> QED BY <1>1, <1>2, <1>4, <2>1, <2>2, PromptStep DEF Moves
<1> QED BY <1>3, <1>4 DEF Find

\* Under a prompt key nobody else commits between a call's look-up and its commit.
LEMMA PromptCommit ==
    ASSUME Correct, PromptInv, NEW r \in Requests, Commit(r) \/ Fail(r)
    PROVE  PromptInv'
<1>1. /\ TypeOK /\ request[r].pc = "commit" /\ request[r].pc \in Holding /\ ~At(r, "new")
      /\ locked' = locked
  BY DEF Commit, Fail, At, Correct, Redis, Holding
<1>2. Key(r) \in PromptKeys => Key(r) \in locked /\ Name(r) \notin request[r].keys
  BY <1>1 DEF PromptInv
<1>3. PICK pc \in {"store_error", "store_result", "release"}, answer \in Answer :
          /\ End(r, pc, answer)
          /\ Key(r) \in PromptKeys => answer # "clash"
          /\ placed' \subseteq placed \cup {r}
  BY <1>2 DEF Commit, Fail, Answer, Database
<1>4. PICK to \in PC : /\ to = IF Key(r) = NoKey THEN "done" ELSE pc
                       /\ to \notin {"new", "open", "commit", "look_up"}
  BY <1>3 DEF PC
<1>5. Moves(r, to, answer)
  BY <1>1, <1>3, <1>4, EndMoves DEF PC
<1> QED BY <1>1, <1>2, <1>3, <1>4, <1>5, PromptGoes

LEMMA PromptStore ==
    ASSUME Correct, PromptInv, NEW r \in Requests, StoreResult(r) \/ StoreError(r)
    PROVE  PromptInv'
<1>1. /\ TypeOK /\ request[r].pc \in Holding /\ ~At(r, "new")
      /\ UNCHANGED <<locked, placed>> /\ Goto(r, "free")
  BY DEF StoreResult, StoreError, At, Correct, Database, Holding
<1>2. Key(r) \in PromptKeys => Key(r) \in locked /\ request[r].answer # "clash"
  BY <1>1 DEF PromptInv
<1>3. Moves(r, "free", request[r].answer)
  BY <1>1, GotoMoves DEF PC
<1> QED BY <1>1, <1>2, <1>3, PromptGoes

LEMMA PromptFree ==
    ASSUME Correct, PromptInv, NEW r \in Requests, Free(r)
    PROVE  PromptInv'
<1>1. /\ TypeOK /\ request[r].pc \in Holding /\ ~At(r, "new")
      /\ placed' = placed /\ locked' = locked \ {Key(r)}
  BY DEF Free, At, Correct, Database, Holding
<1>2. Key(r) \in PromptKeys => request[r].answer # "clash"
  BY DEF PromptInv
<1>3. PICK to \in {"look_up", "done"} :
          Goto(r, to) /\ (Key(r) \in PromptKeys => to = "done")
  BY <1>2 DEF Free
<1>4. Moves(r, to, request[r].answer)
  BY <1>1, <1>3, GotoMoves DEF PC
<1> QED BY <1>1, <1>2, <1>3, <1>4, PromptGoes DEF Holding

LEMMA PromptLookUp ==
    ASSUME Correct, PromptInv, NEW r \in Requests, LookUp(r)
    PROVE  PromptInv'
<1>1. /\ TypeOK /\ request[r].pc = "look_up" /\ ~At(r, "new")
      /\ UNCHANGED <<locked, placed>>
  BY DEF LookUp, At, Correct, Redis, Database
<1>2. Key(r) \notin PromptKeys
  BY <1>1 DEF PromptInv
<1>3. PICK pc \in {"store_result", "done"}, answer \in Answer : Decide(r, pc, answer)
  BY DEF LookUp, Answer
<1>4. Moves(r, pc, answer)
  BY <1>1, <1>3, DecideMoves DEF PC
<1> QED BY <1>1, <1>2, <1>4, PromptGoes

LEMMA PromptCrash ==
    ASSUME Correct, PromptInv, NEW r \in Requests, Crash(r)
    PROVE  PromptInv'
<1>1. TypeOK /\ ~At(r, "new") /\ UNCHANGED <<locked, placed>> /\ Decide(r, "done", "lost")
  BY DEF Crash, At, Correct, Redis, Database
<1>2. Moves(r, "done", "lost")
  BY <1>1, DecideMoves DEF PC, Answer
<1> QED BY <1>1, <1>2, PromptGoes DEF Holding

\* Time: locks are kept while a prompt call works, records only disappear.
LEMMA PromptTime ==
    ASSUME Correct, PromptInv, UNCHANGED request, placed' \subseteq placed,
           \/ UNCHANGED locked
           \/ \E k \in Keys : LockExpires(k)
    PROVE  PromptInv'
<1>1. \A r \in Requests : Key(r)' = Key(r) /\ Name(r)' = Name(r)
  BY DEF Key, Name
<1>2. PlacedKeys' \subseteq PlacedKeys
  BY <1>1 DEF PlacedKeys, Correct, TypeOK
<1>3. \A r \in Requests :
          Key(r) \in PromptKeys /\ request[r].pc \in Holding /\ Key(r) \in locked
              => Key(r) \in locked'
  BY DEF LockExpires
<1> QED BY <1>1, <1>2, <1>3 DEF PromptInv

LEMMA NextPrompt ==
    ASSUME Correct, PromptInv, [Next]_vars
    PROVE  PromptInv'
<1>1. ASSUME NEW r \in Requests,
             \/ \E k \in Keys \cup {NoKey}, want \in Wants : Start(r, k, want)
             \/ Continue(r) \/ Crash(r)
      PROVE  PromptInv'
  BY <1>1, PromptStart, PromptCheck, PromptLock, PromptFind, PromptOpen, PromptCommit,
     PromptStore, PromptFree, PromptLookUp, PromptCrash DEF Continue
<1>2. ASSUME NEW r \in Requests, RecordExpires(r)
      PROVE  PromptInv'
  BY <1>2, PromptTime DEF RecordExpires, Redis
<1>3. ASSUME NEW k \in Keys, LockExpires(k) \/ ResultExpires(k) \/ ErrorExpires(k)
      PROVE  PromptInv'
  BY <1>3, PromptTime DEF LockExpires, ResultExpires, ErrorExpires, Database
<1>4. CASE UNCHANGED vars
  BY <1>4, PromptTime DEF vars
<1> QED BY <1>1, <1>2, <1>3, <1>4 DEF Next

\* placeOrderAtomic: once a checkout is placed under a key whose calls are prompt, no retry
\* opens a transaction for it, however many of them overlap and whichever are abandoned.
THEOREM RetriesOpenNothing == Spec => []RetryOpensNothing
<1>1. PromptInv => RetryOpensNothing
  BY DEF PromptInv, RetryOpensNothing, At
<1> QED BY <1>1, InitPrompt, NextPrompt, CheckoutCorrect, PTL DEF Spec
-----------------------------------------------------------------------------
(* What CheckoutPromise is worth.                                          *)

Sales == placed \cup removed

LEMMA SalesAreSold == Sold = {[call |-> r, key |-> Key(r), want |-> request[r].want] : r \in Sales}
BY DEF Sold, Sales, Key

\* The sales are what they were, each under its key, but for the one that is added.
LEMMA SalesSame ==
    ASSUME Sold' = Sold
    PROVE  /\ Sales' = Sales
           /\ \A r \in Sales : Key(r)' = Key(r) /\ request'[r].want = request[r].want
<1> DEFINE Is(s) == [call |-> s, key |-> Key(s), want |-> request[s].want]
           Was(s) == [call |-> s, key |-> Key(s)', want |-> request'[s].want]
<1>1. Sold = {Is(s) : s \in Sales} /\ Sold' = {Was(s) : s \in Sales'}
  BY DEF Sold, Sales, Key
<1>2. ASSUME NEW s \in Sales
      PROVE  s \in Sales' /\ Key(s)' = Key(s) /\ request'[s].want = request[s].want
  <2>1. PICK q \in Sales' : Is(s) = Was(q)
    BY <1>1
  <2>2. Is(s).call = Was(q).call /\ Is(s).key = Was(q).key /\ Is(s).want = Was(q).want
    BY <2>1
  <2> QED BY <2>2
<1>3. ASSUME NEW s \in Sales' PROVE s \in Sales
  <2>1. PICK q \in Sales : Is(q) = Was(s)
    BY <1>1
  <2>2. Is(q).call = Was(s).call
    BY <2>1
  <2> QED BY <2>2
<1> QED BY <1>2, <1>3

LEMMA SalesGrow ==
    ASSUME NEW r, NEW k, NEW w, \A s \in Sold : s.call # r,
           Sold' = Sold \cup {[call |-> r, key |-> k, want |-> w]}
    PROVE  /\ r \notin Sales /\ Sales' = Sales \cup {r}
           /\ Key(r)' = k /\ request'[r].want = w
           /\ \A q \in Sales : Key(q)' = Key(q) /\ request'[q].want = request[q].want
<1> DEFINE Is(s) == [call |-> s, key |-> Key(s), want |-> request[s].want]
           Was(s) == [call |-> s, key |-> Key(s)', want |-> request'[s].want]
           new == [call |-> r, key |-> k, want |-> w]
<1>1. Sold = {Is(s) : s \in Sales} /\ Sold' = {Was(s) : s \in Sales'}
  BY DEF Sold, Sales, Key
<1>2. r \notin Sales
  <2>1. \A s \in Sales : Is(s) \in Sold /\ Is(s).call = s
    BY <1>1
  <2> QED BY <2>1
<1>3. ASSUME NEW s \in Sales
      PROVE  s \in Sales' /\ Key(s)' = Key(s) /\ request'[s].want = request[s].want
  <2>1. PICK q \in Sales' : Is(s) = Was(q)
    BY <1>1
  <2>2. Is(s).call = Was(q).call /\ Is(s).key = Was(q).key /\ Is(s).want = Was(q).want
    BY <2>1
  <2> QED BY <2>2
<1>4. r \in Sales' /\ Key(r)' = k /\ request'[r].want = w
  <2>1. PICK q \in Sales' : new = Was(q)
    BY <1>1
  <2>2. new.call = Was(q).call /\ new.key = Was(q).key /\ new.want = Was(q).want
    BY <2>1
  <2> QED BY <2>2
<1>5. ASSUME NEW s \in Sales', s # r PROVE s \in Sales
  <2>1. Was(s) \in Sold \cup {new}
    BY <1>1
  <2>2. Was(s) # new
    <3>1. Was(s).call = s /\ new.call = r
      OBVIOUS
    <3> QED BY <1>5, <3>1
  <2>3. PICK q \in Sales : Is(q) = Was(s)
    BY <1>1, <2>1, <2>2
  <2>4. Is(q).call = Was(s).call
    BY <2>3
  <2> QED BY <2>4
<1> QED BY <1>2, <1>3, <1>4, <1>5

\* However a shop is run, if it keeps CheckoutPromise, then what is left and what was sold
\* are together what there was, and a key has one checkout on record.
THEOREM PromiseSells == PromiseKept => [](StockConserved /\ OneCheckoutPerKey)
<1> DEFINE Sound == /\ Sales \subseteq Requests /\ stock \in [Items -> Int]
                    /\ StockConserved /\ OneCheckoutPerKey
           Step == [Promise!PromiseNext]_Promise!promiseVars
<1>1. Promise!PromiseInit => Sound
  <2> SUFFICES ASSUME Promise!PromiseInit PROVE Sound
    OBVIOUS
  <2>1. Sold = {} /\ placed = {} /\ stock = [i \in Items |-> Supply]
    BY DEF Promise!PromiseInit
  <2>2. Sales = {}
    <3>1. \A r \in Sales : [call |-> r, key |-> Key(r), want |-> request[r].want] \in Sold
      BY SalesAreSold
    <3> QED BY <2>1, <3>1
  <2>3. \A i \in Items : Wanting(i) = {}
    BY <2>2 DEF Wanting, Sales
  <2>4. Cardinality({}) = 0
    BY FS_EmptySet
  <2>5. StockConserved
    BY <2>1, <2>3, <2>4, SupplyAssumption DEF StockConserved
  <2>6. OneCheckoutPerKey
    BY <2>1 DEF OneCheckoutPerKey
  <2> QED BY <2>1, <2>2, <2>5, <2>6, SupplyAssumption
<1>2. Sound /\ Step => Sound'
  <2> SUFFICES ASSUME Sound, Step PROVE Sound'
    OBVIOUS
  <2>1. ASSUME Sold' = Sold, placed' \subseteq placed, stock' = stock PROVE Sound'
    <3>1. /\ Sales' = Sales
          /\ \A r \in Sales : Key(r)' = Key(r) /\ request'[r].want = request[r].want
      BY <2>1, SalesSame
    <3>2. \A i \in Items : Wanting(i)' = Wanting(i)
      BY <3>1 DEF Wanting, Sales
    <3>3. StockConserved'
      BY <2>1, <3>2 DEF StockConserved
    <3>4. OneCheckoutPerKey'
      BY <2>1, <3>1 DEF OneCheckoutPerKey, Sales, Name
    <3> QED BY <2>1, <3>1, <3>3, <3>4
  <2>2. ASSUME NEW r \in Requests, NEW k \in Keys \cup {NoKey}, NEW w \in Wants,
               Promise!Sell(r, k, w)
        PROVE  Sound'
    <3>1. /\ \A s \in Sold : s.call # r
          /\ k # NoKey => \A s \in Sold :
                 s.call \in placed /\ Caller[s.call] = Caller[r] => s.key # k
          /\ Sold' = Sold \cup {[call |-> r, key |-> k, want |-> w]}
          /\ placed' = placed \cup {r}
          /\ stock' = [i \in Items |-> stock[i] - IF i \in w THEN 1 ELSE 0]
      BY <2>2 DEF Promise!Sell
    <3>2. /\ r \notin Sales /\ Sales' = Sales \cup {r}
          /\ Key(r)' = k /\ request'[r].want = w
          /\ \A q \in Sales : Key(q)' = Key(q) /\ request'[q].want = request[q].want
      BY <3>1, SalesGrow
    <3>3. ASSUME NEW i \in Items PROVE stock'[i] + Cardinality(Wanting(i)') = Supply
      <4>1. /\ Wanting(i)' = IF i \in w THEN Wanting(i) \cup {r} ELSE Wanting(i)
            /\ r \notin Wanting(i)
        BY <3>2 DEF Wanting, Sales
      <4>2. IsFiniteSet(Wanting(i))
        <5>1. Wanting(i) \subseteq Requests
          BY DEF Wanting, Sales
        <5> QED BY <5>1, RequestsAssumption, FS_Subset
      <4>3. /\ Cardinality(Wanting(i)) \in Nat
            /\ Cardinality(Wanting(i) \cup {r}) = Cardinality(Wanting(i)) + 1
        BY <4>1, <4>2, FS_CardinalityType, FS_AddElement
      <4>4. stock[i] \in Int /\ stock[i] + Cardinality(Wanting(i)) = Supply
        BY DEF StockConserved
      <4>5. CASE i \in w
        BY <3>1, <4>1, <4>3, <4>4, <4>5
      <4>6. CASE i \notin w
        BY <3>1, <4>1, <4>3, <4>4, <4>6
      <4> QED BY <4>5, <4>6
    <3>4. OneCheckoutPerKey'
      <4>1. \A q \in placed : q \in Sales /\ Key(q)' = Key(q)
        BY <3>2 DEF Sales
      <4>2. ASSUME NEW q \in placed, k # NoKey PROVE Name(q) # <<Caller[r], k>>
        <5>1. [call |-> q, key |-> Key(q), want |-> request[q].want] \in Sold
          BY <4>1, SalesAreSold
        <5>2. Caller[q] = Caller[r] => Key(q) # k
          BY <3>1, <4>2, <5>1
        <5> QED BY <5>2 DEF Name
      <4>3. Name(r)' = <<Caller[r], k>>
        BY <3>2 DEF Name
      <4>4. \A q \in placed : Name(q)' = Name(q)
        BY <4>1 DEF Name
      <4>5. ASSUME NEW q \in placed, Key(q)' # NoKey, Name(q)' = Name(r)' PROVE FALSE
        <5>1. k # NoKey
          BY <3>2, <4>3, <4>5 DEF Name
        <5> QED BY <4>2, <4>3, <4>4, <4>5, <5>1
      <4> SUFFICES ASSUME NEW p \in placed', NEW q \in placed',
                          Name(p)' = Name(q)', Key(p)' # NoKey
                   PROVE  p = q
        BY DEF OneCheckoutPerKey
      <4>6. Key(p)' = Key(q)'
        BY DEF Name
      <4>7. CASE p \in placed /\ q \in placed
        BY <4>1, <4>4, <4>7 DEF OneCheckoutPerKey
      <4> QED BY <3>1, <4>5, <4>6, <4>7
    <3>5. stock' \in [Items -> Int]
      BY <3>1
    <3> QED BY <3>2, <3>3, <3>4, <3>5 DEF StockConserved
  <2>3. ASSUME NEW r \in Requests, Promise!Forget(r) PROVE Sound'
    <3>1. Sold' = Sold /\ placed' \subseteq placed /\ stock' = stock
      BY <2>3 DEF Promise!Forget
    <3> QED BY <2>1, <3>1
  <2>4. CASE UNCHANGED Promise!promiseVars
    <3>1. Sold' = Sold /\ placed' \subseteq placed /\ stock' = stock
      BY <2>4 DEF Promise!promiseVars
    <3> QED BY <2>1, <3>1
  <2> QED BY <2>2, <2>3, <2>4 DEF Promise!PromiseNext
<1>3. Sound => StockConserved /\ OneCheckoutPerKey
  OBVIOUS
<1> HIDE DEF Sound
<1> QED BY <1>1, <1>2, <1>3, PTL DEF PromiseKept, Promise!PromiseSpec
===============================================================================
