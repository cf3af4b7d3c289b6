---------------------------- MODULE SchedulerLock ----------------------------
(***************************************************************************)
(* One scheduled job under distributedScheduler.js: the instances of the   *)
(* scheduler role fire it each by its own timer, and a key in Redis, set   *)
(* with NX and PX, is to let one of them execute it.                       *)
(*                                                                         *)
(* A run is one call of executeJob.  Its round trips to Redis, and its     *)
(* handler, take any time; time itself passes in ticks, of which a lock    *)
(* lives LockTime.  The timer may fire whenever an instance has a run to   *)
(* spare, earlier runs of the same instance finished or not.               *)
(***************************************************************************)
EXTENDS Integers, FiniteSets

CONSTANTS
    Runs,           \* executions in flight
    NoRun,          \* the value of a key that is not set
    Instances,      \* processes with the scheduler role
    Host,           \* Host[r]: the instance of run r
    LockTime,       \* ticks a lock lives: twice the job's interval
    MaxFaults       \* bound: throws, crashes and failing calls to Redis

ASSUME NoRunAssumption == NoRun \notin Runs
ASSUME HostAssumption == Host \in [Runs -> Instances]
ASSUME LockTimeAssumption == LockTime \in Nat \ {0}
ASSUME FaultsAssumption == MaxFaults \in Nat

VARIABLES
    redis,      \* whether Redis is configured
    lock,       \* the value of the job's key: the run that set it
    ttl,        \* ticks until the key expires
    run,        \* run[r]: where r is, and the ticks since it set the key
    slow,       \* whether a lock has ever expired between its holder's GET and DEL
    faults      \* faults so far

vars == <<redis, lock, ttl, run, slow, faults>>

\* Waiting for the timer; for the answer to SET; in the handler; for the answer to
\* GET; for the answer to DEL.
PC == {"idle", "asking", "working", "checking", "deleting"}

Rest == [pc |-> "idle", age |-> 0]

Holding == {"working", "checking", "deleting"}

TypeOK ==
    /\ redis \in BOOLEAN
    /\ lock \in Runs \cup {NoRun}
    /\ ttl \in 0 .. LockTime
    /\ run \in [Runs -> [pc : PC, age : 0 .. LockTime]]
    /\ slow \in BOOLEAN
    /\ faults \in 0 .. MaxFaults

Init ==
    /\ redis \in BOOLEAN
    /\ lock = NoRun
    /\ ttl = 0
    /\ run = [r \in Runs |-> Rest]
    /\ slow = FALSE
    /\ faults = 0

At(r, pc) == run[r].pc = pc

Goto(r, pc) == run' = [run EXCEPT ![r].pc = pc]

Stop(r) == run' = [run EXCEPT ![r] = Rest]

Fault == faults < MaxFaults /\ faults' = faults + 1
-----------------------------------------------------------------------------
\* At the start of the process, and at every interval.
TimerFires(r) ==
    /\ At(r, "idle")
    /\ Goto(r, "asking")
    /\ UNCHANGED <<redis, lock, ttl, slow, faults>>

Sets(r) ==
    /\ lock' = r
    /\ ttl' = LockTime

\* Mutated form: SET without NX.
AcquireOver(r) ==
    /\ At(r, "asking")
    /\ run' = [run EXCEPT ![r] = [pc |-> "working", age |-> 0]]
    /\ IF redis THEN Sets(r) ELSE UNCHANGED <<lock, ttl>>
    /\ UNCHANGED <<redis, slow, faults>>

\* acquireLock: a run that finds the key set gives up; without Redis every run goes on.
Acquire(r) ==
    /\ At(r, "asking")
    /\ IF redis /\ lock # NoRun
       THEN Stop(r) /\ UNCHANGED <<lock, ttl>>
       ELSE /\ run' = [run EXCEPT ![r] = [pc |-> "working", age |-> 0]]
            /\ IF redis THEN Sets(r) ELSE UNCHANGED <<lock, ttl>>
    /\ UNCHANGED <<redis, slow, faults>>

\* The call to Redis throws, before the key is set or after; the run takes it as not
\* acquired.
AcquireThrows(r) ==
    /\ redis /\ At(r, "asking") /\ Fault
    /\ Stop(r)
    /\ \/ UNCHANGED <<lock, ttl>>
       \/ lock = NoRun /\ Sets(r)
    /\ UNCHANGED <<redis, slow>>

\* The handler returns; releaseLock has nothing to release without a key.
HandlerReturns(r) ==
    /\ At(r, "working")
    /\ IF redis THEN Goto(r, "checking") ELSE Stop(r)
    /\ UNCHANGED <<redis, lock, ttl, slow, faults>>

\* The handler throws: executeJob logs it, and the key stays.
HandlerThrows(r) ==
    /\ At(r, "working") /\ Fault
    /\ Stop(r)
    /\ UNCHANGED <<redis, lock, ttl, slow>>

\* releaseLock reads the key
Check(r) ==
    /\ At(r, "checking")
    /\ IF lock = r THEN Goto(r, "deleting") ELSE Stop(r)
    /\ UNCHANGED <<redis, lock, ttl, slow, faults>>

\* and deletes it in a second command, whatever its value is by then.
Delete(r) ==
    /\ At(r, "deleting")
    /\ lock' = NoRun
    /\ ttl' = 0
    /\ Stop(r)
    /\ UNCHANGED <<redis, slow, faults>>

\* Either command fails; the key is left to expire, or the answer to DEL is lost.
ReleaseThrows(r) ==
    /\ run[r].pc \in {"checking", "deleting"} /\ Fault
    /\ Stop(r)
    /\ \/ UNCHANGED <<lock, ttl>>
       \/ At(r, "deleting") /\ lock' = NoRun /\ ttl' = 0
    /\ UNCHANGED <<redis, slow>>

\* The process dies and is started again; its keys stay.
Crash(i) ==
    /\ Fault
    /\ \E r \in Runs : Host[r] = i /\ run[r].pc # "idle"
    /\ run' = [r \in Runs |-> IF Host[r] = i THEN Rest ELSE run[r]]
    /\ UNCHANGED <<redis, lock, ttl, slow>>

\* The key is about to expire while its holder waits for the answer to DEL.
ExpiresUnderDelete == ttl = 1 /\ \E r \in Runs : lock = r /\ At(r, "deleting")

Older(r) ==
    IF run[r].pc \in Holding /\ run[r].age < LockTime
    THEN [run[r] EXCEPT !.age = @ + 1] ELSE run[r]

\* Mutated form: the key is set without PX.
TickForever ==
    /\ run' = [r \in Runs |-> Older(r)]
    /\ UNCHANGED <<redis, lock, ttl, slow, faults>>

Tick ==
    /\ run' = [r \in Runs |-> Older(r)]
    /\ slow' = (slow \/ ExpiresUnderDelete)
    /\ ttl' = IF ttl > 0 THEN ttl - 1 ELSE 0
    /\ lock' = IF ttl > 1 THEN lock ELSE NoRun
    /\ UNCHANGED <<redis, faults>>

Next ==
    \/ \E r \in Runs :
          \/ TimerFires(r) \/ Acquire(r) \/ AcquireThrows(r)
          \/ HandlerReturns(r) \/ HandlerThrows(r)
          \/ Check(r) \/ Delete(r) \/ ReleaseThrows(r)
    \/ \E i \in Instances : Crash(i)
    \/ Tick

Spec == Init /\ [][Next]_vars

\* Fairness: timers fire, Redis answers and keys expire.
FairSpec ==
    /\ Spec
    /\ \A r \in Runs : WF_vars(TimerFires(r)) /\ WF_vars(Acquire(r))
                       /\ WF_vars(HandlerReturns(r)) /\ WF_vars(Check(r) \/ Delete(r))
    /\ WF_vars(Tick)
-----------------------------------------------------------------------------
\* Of two runs that are in the handler, or giving the lock back, at once, one has
\* outlived its lock - unless a lock once expired between GET and DEL, so that the
\* next holder's key was deleted in its place.
SingleExecution ==
    redis /\ ~slow => \A r, q \in Runs :
        r # q /\ run[r].pc \in Holding /\ run[q].pc \in Holding
            => run[r].age = LockTime \/ run[q].age = LockTime

\* Whatever throws or dies with the lock in hand, the job is executed again.
JobRunsAgain ==
    (\A r \in Runs : run[r].pc # "working") ~> (\E r \in Runs : run[r].pc = "working")
=============================================================================
