------------------------------- MODULE Checkout -------------------------------
(***************************************************************************)
(* Placing a checkout: placeOrderAtomic (orderPlacementService.js), the    *)
(* idempotency keys kept in Redis (idempotencyService.js) and the stock    *)
(* reservation in its transaction (stockService.js).                       *)
(*                                                                         *)
(* A request is one HTTP call with what it wants and perhaps a key; a      *)
(* retry is another request with the same key.  Redis holds per key a lock *)
(* of a minute, a result of a day and an error of an hour, each under its  *)
(* own name, whoever the customer is; the database keeps the keys of two   *)
(* customers apart.  A time-to-live is the fact that it may end.  The      *)
(* orders, the group, the wallet, the cart and the stock are written by    *)
(* one MongoDB transaction, which commits unless something it wrote has    *)
(* changed since its snapshot.  A set of items stands for the payload, one *)
(* unit each.                                                              *)
(***************************************************************************)
EXTENDS Integers, FiniteSets

CONSTANTS
    Requests,      \* calls of placeOrderAtomic
    Customers,
    Caller,        \* Caller[r]: the customer who makes call r
    Keys,          \* idempotency keys
    NoKey,         \* a call without one
    Items,         \* products
    Wants,         \* payloads
    Supply,        \* units of each product at the start
    PromptKeys,    \* keys whose calls all come within a day and finish in a minute
    MaxCrashes     \* bound: calls abandoned half way

ASSUME RequestsAssumption == IsFiniteSet(Requests)
ASSUME CallerAssumption == Caller \in [Requests -> Customers]
ASSUME NoKeyAssumption == NoKey \notin Keys
ASSUME WantsAssumption == Wants \subseteq (SUBSET Items) \ {{}}
ASSUME SupplyAssumption == Supply \in Nat
ASSUME CrashesAssumption == MaxCrashes \in Nat
ASSUME PromptAssumption == PromptKeys \subseteq Keys

VARIABLES
    request,   \* request[r]: what call r asks and where it is
    locked,    \* keys with a lock in Redis
    results,   \* results[k]: payload of the cached result, or none
    errors,    \* errors[k]: payload of the cached error, or none
    placed,    \* requests whose checkout is in the database
    removed,   \* requests whose checkout the TTL index has removed
    stock,     \* stock[i]: Product.stock
    crashes    \* calls abandoned so far

vars == <<request, locked, results, errors, placed, removed, stock, crashes>>

PC == {"new", "check", "lock", "find", "open", "commit", "store_result",
       "store_error", "release", "free", "look_up", "done"}

\* What the call will answer, or has answered once it is done.
Answer == {"none", "placed", "duplicate", "error", "clash", "in_progress",
           "mismatch", "lost"}

None == {}     \* no payload
Payload == Wants \cup {None}

Request ==
    {rq \in [pc : PC, key : Keys \cup {NoKey}, want : Payload,
             stock : [Items -> Nat], keys : SUBSET (Customers \X Keys),
             answer : Answer] :
        rq.pc # "new" => rq.want \in Wants}

New == [pc |-> "new", key |-> NoKey, want |-> None,
        stock |-> [i \in Items |-> Supply], keys |-> {}, answer |-> "none"]

TypeOK ==
    /\ request \in [Requests -> Request]
    /\ locked \in SUBSET Keys
    /\ results \in [Keys -> Payload]
    /\ errors \in [Keys -> Payload]
    /\ placed \in SUBSET Requests
    /\ removed \in SUBSET Requests
    /\ stock \in [Items -> Nat]
    /\ crashes \in 0 .. MaxCrashes

Init ==
    /\ request = [r \in Requests |-> New]
    /\ locked = {}
    /\ results = [k \in Keys |-> None]
    /\ errors = [k \in Keys |-> None]
    /\ placed = {}
    /\ removed = {}
    /\ stock = [i \in Items |-> Supply]
    /\ crashes = 0

Redis == <<locked, results, errors>>
Database == <<placed, removed, stock>>
-----------------------------------------------------------------------------
(* Steps of a call.                                                        *)

At(r, pc) == request[r].pc = pc

Key(r) == request[r].key

Goto(r, pc) == request' = [request EXCEPT ![r].pc = pc]

\* The call goes on to pc, its answer known.
Decide(r, pc, answer) ==
    request' = [request EXCEPT ![r].pc = pc, ![r].answer = answer]

\* What the database knows a call by.
Name(r) == <<Caller[r], Key(r)>>

\* The customers and keys under which a checkout is in the database.
PlacedKeys == {Name(r) : r \in {s \in placed : Key(s) # NoKey}}

Start(r, k, want) ==
    /\ At(r, "new")
    /\ request' = [request EXCEPT ![r].pc = IF k = NoKey THEN "open" ELSE "check",
                                  ![r].key = k, ![r].want = want]
    /\ UNCHANGED <<Redis, Database, crashes>>

\* Mutated form: a call in progress is taken for one that has succeeded.
CheckEagerly(r) ==
    LET k == Key(r)
        Cached(payload, answer) ==
            Decide(r, "done", IF payload = request[r].want THEN answer ELSE "mismatch")
    IN
    /\ At(r, "check")
    /\ IF errors[k] # None THEN Cached(errors[k], "error")
       ELSE IF results[k] # None THEN Cached(results[k], "duplicate")
       ELSE IF k \in locked THEN Decide(r, "done", "duplicate")
       ELSE Goto(r, "lock")
    /\ UNCHANGED <<Redis, Database, crashes>>

\* checkIdempotency: a cached error hides a cached result, and a cached answer
\* to another payload is refused.  Nothing here tells customers apart.
Check(r) ==
    LET k == Key(r)
        Cached(payload, answer) ==
            Decide(r, "done", IF payload = request[r].want THEN answer ELSE "mismatch")
    IN
    /\ At(r, "check")
    /\ IF errors[k] # None THEN Cached(errors[k], "error")
       ELSE IF results[k] # None THEN Cached(results[k], "duplicate")
       ELSE IF k \in locked THEN Decide(r, "done", "in_progress")
       ELSE Goto(r, "lock")
    /\ UNCHANGED <<Redis, Database, crashes>>

\* Mutated form: SET without NX.
LockAnyway(r) ==
    /\ At(r, "lock")
    /\ locked' = locked \cup {Key(r)}
    /\ Goto(r, "find")
    /\ UNCHANGED <<results, errors, Database, crashes>>

\* acquireIdempotencyLock: SET NX.
Lock(r) ==
    /\ At(r, "lock")
    /\ IF Key(r) \in locked
       THEN Decide(r, "done", "in_progress") /\ UNCHANGED locked
       ELSE Goto(r, "find") /\ locked' = locked \cup {Key(r)}
    /\ UNCHANGED <<results, errors, Database, crashes>>

\* findExistingCheckoutByIdempotency looks at the customer and the key, not at
\* the payload.
Find(r) ==
    /\ At(r, "find")
    /\ IF Name(r) \in PlacedKeys THEN Decide(r, "store_result", "duplicate")
                                ELSE Goto(r, "open")
    /\ UNCHANGED <<Redis, Database, crashes>>
-----------------------------------------------------------------------------
(* The transaction.                                                        *)

\* startTransaction and the first read: what follows sees this snapshot.
Open(r) ==
    /\ At(r, "open")
    /\ request' = [request EXCEPT ![r].pc = "commit", ![r].stock = stock,
                                  ![r].keys = PlacedKeys]
    /\ UNCHANGED <<Redis, Database, crashes>>

\* The transaction and its snapshot end, aborted or committed: what is left to do
\* is in Redis, if the call has a key.
End(r, pc, answer) ==
    request' = [request EXCEPT ![r].pc = IF Key(r) = NoKey THEN "done" ELSE pc,
                               ![r].answer = answer,
                               ![r].stock = New.stock, ![r].keys = {}]

Enough(r) == \A i \in request[r].want : request[r].stock[i] > 0

\* Something this transaction writes was written by another since its snapshot.
Conflict(r) ==
    \/ \E i \in request[r].want : stock[i] # request[r].stock[i]
    \/ Name(r) \in PlacedKeys \ request[r].keys

\* Mutated form: no unique index on the customer and the key.
CommitAgain(r) ==
    /\ At(r, "commit")
    /\ IF ~Enough(r) \/ \E i \in request[r].want : stock[i] # request[r].stock[i]
       THEN End(r, "store_error", "error") /\ UNCHANGED <<placed, stock>>
       ELSE /\ placed' = placed \cup {r}
            /\ stock' = [i \in Items |->
                            stock[i] - IF i \in request[r].want THEN 1 ELSE 0]
            /\ End(r, "store_result", "placed")
    /\ UNCHANGED <<Redis, removed, crashes>>

\* Inserts under the unique (customer, key), deducts the stock, commits.  A key
\* in the snapshot is a duplicate key (11000), a later one a write conflict.
Commit(r) ==
    /\ At(r, "commit")
    /\ IF Name(r) \in request[r].keys
       THEN End(r, "store_error", "clash") /\ UNCHANGED <<placed, stock>>
       ELSE IF ~Enough(r) \/ Conflict(r)
       THEN End(r, "store_error", "error") /\ UNCHANGED <<placed, stock>>
       ELSE /\ placed' = placed \cup {r}
            /\ stock' = [i \in Items |->
                            stock[i] - IF i \in request[r].want THEN 1 ELSE 0]
            /\ End(r, "store_result", "placed")
    /\ UNCHANGED <<Redis, removed, crashes>>

\* A retryable error (isRetryableError): nothing is stored.
Fail(r) ==
    /\ At(r, "commit")
    /\ End(r, "release", "error")
    /\ UNCHANGED <<Redis, Database, crashes>>
-----------------------------------------------------------------------------
(* After the transaction: Redis, one command at a time.                    *)

StoreResult(r) ==
    /\ At(r, "store_result")
    /\ results' = [results EXCEPT ![Key(r)] = request[r].want]
    /\ Goto(r, "free")
    /\ UNCHANGED <<locked, errors, Database, crashes>>

StoreError(r) ==
    /\ At(r, "store_error")
    /\ errors' = [errors EXCEPT ![Key(r)] = request[r].want]
    /\ Goto(r, "free")
    /\ UNCHANGED <<locked, results, Database, crashes>>

\* The lock is deleted, whoever holds it; a duplicate key goes on to look up.
Free(r) ==
    /\ request[r].pc \in {"free", "release"}
    /\ locked' = locked \ {Key(r)}
    /\ Goto(r, IF request[r].answer = "clash" THEN "look_up" ELSE "done")
    /\ UNCHANGED <<results, errors, Database, crashes>>

LookUp(r) ==
    /\ At(r, "look_up")
    /\ IF Name(r) \in PlacedKeys THEN Decide(r, "store_result", "duplicate")
                                ELSE Decide(r, "done", "error")
    /\ UNCHANGED <<Redis, Database, crashes>>
-----------------------------------------------------------------------------
(* Times to live, and calls that do not come back.  A lock expires under a *)
(* slow owner, and a record is removed by its TTL index, unless the key's  *)
(* calls are prompt.                                                       *)

Holding == {"find", "open", "commit", "store_result", "store_error", "release",
            "free"}

LockExpires(k) ==
    /\ k \in locked
    /\ k \in PromptKeys => ~\E r \in Requests : Key(r) = k /\ request[r].pc \in Holding
    /\ locked' = locked \ {k}
    /\ UNCHANGED <<request, results, errors, Database, crashes>>

ResultExpires(k) ==
    /\ results[k] # None
    /\ results' = [results EXCEPT ![k] = None]
    /\ UNCHANGED <<request, locked, errors, Database, crashes>>

ErrorExpires(k) ==
    /\ errors[k] # None
    /\ errors' = [errors EXCEPT ![k] = None]
    /\ UNCHANGED <<request, locked, results, Database, crashes>>

\* The TTL indexes on placement.idempotencyKeyExpiry: the orders and their group.
RecordExpires(r) ==
    /\ r \in placed
    /\ Key(r) \notin PromptKeys \cup {NoKey}
    /\ placed' = placed \ {r}
    /\ removed' = removed \cup {r}
    /\ UNCHANGED <<request, Redis, stock, crashes>>

\* The process dies, or Redis or MongoDB throws where nothing is cleaned up:
\* after the commit, abortTransaction throws before the lock is released.
Crash(r) ==
    /\ request[r].pc \notin {"new", "done"}
    /\ crashes < MaxCrashes
    /\ crashes' = crashes + 1
    /\ Decide(r, "done", "lost")
    /\ UNCHANGED <<Redis, Database>>

Continue(r) ==
    \/ Check(r) \/ Lock(r) \/ Find(r) \/ Open(r) \/ Commit(r) \/ Fail(r)
    \/ StoreResult(r) \/ StoreError(r) \/ Free(r) \/ LookUp(r)

Next ==
    \/ \E r \in Requests :
          \/ \E k \in Keys \cup {NoKey}, want \in Wants : Start(r, k, want)
          \/ Continue(r)
          \/ RecordExpires(r)
          \/ Crash(r)
    \/ \E k \in Keys : LockExpires(k) \/ ResultExpires(k) \/ ErrorExpires(k)

Spec == Init /\ [][Next]_vars
-----------------------------------------------------------------------------
(* What placing a checkout guarantees.                                     *)

Wanting(i) == {r \in placed \cup removed : i \in request[r].want}

\* No unit is sold twice and none is lost: what was deducted from a product is
\* what the committed checkouts took of it, whatever transactions overlapped
\* (reserveStockForItems inside placeOrderAtomic's transaction).
StockConserved ==
    \A i \in Items : stock[i] + Cardinality(Wanting(i)) = Supply

\* One checkout per customer and key, however many calls with it overlap and
\* however late the lock's owner comes back (models/checkoutGroup.js, the unique
\* index).
OneCheckoutPerKey ==
    \A r, s \in placed : Name(r) = Name(s) /\ Key(r) # NoKey => r = s

\* A call that answers with an order has one to show: its own, or one that was
\* placed under its key.  Whose it is nobody asks: Redis answers any customer who
\* presents the key, so that the order is the caller's own only if no other
\* customer has used the key (idempotencyService.js, checkIdempotency).
AnswerHasOrder ==
    \A r \in Requests :
        /\ request[r].answer = "placed" => r \in placed \cup removed
        /\ request[r].answer = "duplicate" =>
              \E s \in placed \cup removed : Key(s) = Key(r)

\* Once a checkout of a customer is placed under a key, no retry opens a
\* transaction for it: the lock keeps the look-up and the transaction of a call
\* apart from another call's commit, if they are prompt
\* (phase0-order-placement.test.js, mockStartSession).
RetryOpensNothing ==
    \A r \in Requests :
        At(r, "open") \/ At(r, "commit") =>
            Key(r) \notin PromptKeys \/ Name(r) \notin PlacedKeys
=============================================================================
