-------------------------- MODULE SchedulerLockProofs --------------------------
(***************************************************************************)
(* For any number of instances and runs and any life time of the lock:     *)
(* the types, and that runs which keep within their lock exclude each      *)
(* other.                                                                  *)
(***************************************************************************)
EXTENDS SchedulerLock, TLAPS

OnTime(r) == run[r].pc \in Holding /\ run[r].age < LockTime

\* A run within its time has its key set, with the rest of that time to live.
OnTimeHolds == \A r \in Runs : OnTime(r) => lock = r /\ ttl = LockTime - run[r].age

\* Whoever is about to delete the key is the one who set it.
DeletesOwn == \A r \in Runs : run[r].pc = "deleting" => lock = r

KeyLives == lock # NoRun => ttl > 0

LockInv == TypeOK /\ KeyLives /\ (redis /\ ~slow => OnTimeHolds /\ DeletesOwn)

Run == [pc : PC, age : 0 .. LockTime]

\* What a step that moves only run r, and neither the key nor its time, has to
\* establish.
LEMMA MovesRun ==
    ASSUME LockInv, NEW r \in Runs, NEW to \in Run,
           run' = [run EXCEPT ![r] = to],
           UNCHANGED <<redis, lock, ttl, slow>>,
           faults' \in 0 .. MaxFaults,
           redis /\ to.pc \in Holding =>
               run[r].pc \in Holding /\ to.age = run[r].age,
           redis /\ to.pc = "deleting" => lock = r
    PROVE  LockInv'
<1>1. TypeOK'
  BY DEF LockInv, TypeOK, Run
<1>2. ASSUME redis', ~slow'
      PROVE  OnTimeHolds' /\ DeletesOwn'
  <2>1. OnTimeHolds /\ DeletesOwn /\ redis
    BY <1>2 DEF LockInv
  <2>2. \A q \in Runs : q # r => run'[q] = run[q]
    BY DEF LockInv, TypeOK
  <2>3. run'[r] = to
    BY DEF LockInv, TypeOK
  <2>4. OnTimeHolds'
    BY <2>1, <2>2, <2>3 DEF OnTimeHolds, OnTime
  <2>5. DeletesOwn'
    BY <2>1, <2>2, <2>3 DEF DeletesOwn
  <2> QED BY <2>4, <2>5
<1>3. KeyLives'
  BY DEF LockInv, KeyLives
<1> QED BY <1>1, <1>2, <1>3 DEF LockInv

\* What a step does that sets the free key for r.
LEMMA SetsFree ==
    ASSUME LockInv, NEW r \in Runs, NEW to \in Run,
           redis => lock = NoRun,
           run' = [run EXCEPT ![r] = to], redis' = redis, slow' = slow,
           IF redis THEN Sets(r) ELSE UNCHANGED <<lock, ttl>>,
           faults' \in 0 .. MaxFaults,
           to.age = 0, to.pc # "deleting"
    PROVE  LockInv'
<1> USE LockTimeAssumption, NoRunAssumption
<1>1. TypeOK'
  BY DEF LockInv, TypeOK, Run, Sets
<1>2. ASSUME redis', ~slow'
      PROVE  OnTimeHolds' /\ DeletesOwn'
  <2>1. OnTimeHolds /\ DeletesOwn /\ redis /\ lock = NoRun
    BY <1>2 DEF LockInv
  <2>2. \A q \in Runs : ~OnTime(q) /\ run[q].pc # "deleting"
    BY <2>1 DEF OnTimeHolds, DeletesOwn
  <2>3. \A q \in Runs : q # r => run'[q] = run[q]
    BY DEF LockInv, TypeOK
  <2>4. run'[r] = to /\ lock' = r /\ ttl' = LockTime
    BY <2>1 DEF LockInv, TypeOK, Sets
  <2>5. OnTimeHolds'
    BY <2>2, <2>3, <2>4 DEF OnTimeHolds, OnTime
  <2>6. DeletesOwn'
    BY <2>2, <2>3, <2>4 DEF DeletesOwn
  <2> QED BY <2>5, <2>6
<1>3. KeyLives'
  BY DEF LockInv, KeyLives, Sets
<1> QED BY <1>1, <1>2, <1>3 DEF LockInv

\* What a step does in which r, deleting, removes the key.
LEMMA Removes ==
    ASSUME LockInv, NEW r \in Runs, run[r].pc = "deleting",
           run' = [run EXCEPT ![r] = Rest], UNCHANGED <<redis, slow>>,
           lock' = NoRun, ttl' = 0, faults' \in 0 .. MaxFaults
    PROVE  LockInv'
<1> USE LockTimeAssumption
<1>1. TypeOK'
  BY DEF LockInv, TypeOK, Rest, PC
<1>2. ASSUME redis', ~slow'
      PROVE  OnTimeHolds' /\ DeletesOwn'
  <2>1. OnTimeHolds /\ DeletesOwn /\ lock = r
    BY <1>2 DEF LockInv, DeletesOwn
  <2>2. \A q \in Runs : q # r => ~OnTime(q) /\ run[q].pc # "deleting" /\ run'[q] = run[q]
    BY <2>1 DEF OnTimeHolds, DeletesOwn, LockInv, TypeOK
  <2>3. run'[r].pc = "idle"
    BY DEF LockInv, TypeOK, Rest
  <2> QED BY <2>2, <2>3 DEF OnTimeHolds, OnTime, DeletesOwn, Holding
<1>3. KeyLives'
  BY DEF KeyLives
<1> QED BY <1>1, <1>2, <1>3 DEF LockInv

LEMMA LockInit == Init => LockInv
<1> SUFFICES ASSUME Init PROVE LockInv
  OBVIOUS
<1> USE LockTimeAssumption, FaultsAssumption
<1>1. Rest \in [pc : PC, age : 0 .. LockTime] /\ Rest.pc = "idle"
  BY DEF Rest, PC
<1>2. \A r \in Runs : run[r].pc = "idle"
  BY <1>1 DEF Init
<1>3. TypeOK
  <2>1. run \in [Runs -> [pc : PC, age : 0 .. LockTime]]
    BY <1>1 DEF Init
  <2>2. ttl \in 0 .. LockTime /\ faults \in 0 .. MaxFaults
    BY DEF Init
  <2>3. redis \in BOOLEAN /\ slow \in BOOLEAN /\ lock \in Runs \cup {NoRun}
    BY DEF Init
  <2> QED BY <2>1, <2>2, <2>3 DEF TypeOK
<1>4. OnTimeHolds /\ DeletesOwn
  BY <1>2 DEF OnTimeHolds, OnTime, DeletesOwn, Holding
<1>5. KeyLives
  BY DEF Init, KeyLives
<1> QED BY <1>3, <1>4, <1>5 DEF LockInv

\* One run's step.
LEMMA RunStep ==
    ASSUME LockInv, NEW r \in Runs,
           \/ TimerFires(r) \/ Acquire(r) \/ AcquireThrows(r)
           \/ HandlerReturns(r) \/ HandlerThrows(r)
           \/ Check(r) \/ Delete(r) \/ ReleaseThrows(r)
    PROVE  LockInv'
<1> USE LockTimeAssumption, FaultsAssumption
<1> DEFINE Working == [pc |-> "working", age |-> 0]
           Moved(pc) == [run[r] EXCEPT !.pc = pc]
<1>t. /\ run \in [Runs -> Run] /\ faults \in 0 .. MaxFaults
      /\ Rest \in Run /\ Working \in Run
      /\ \A pc \in PC : Moved(pc) \in Run /\ Moved(pc).pc = pc /\ Moved(pc).age = run[r].age
      /\ \A pc : [run EXCEPT ![r].pc = pc] = [run EXCEPT ![r] = Moved(pc)]
  BY DEF LockInv, TypeOK, Run, Rest, PC
<1>f. Fault => faults' \in 0 .. MaxFaults
  BY DEF LockInv, TypeOK, Fault
<1>r. Rest.pc = "idle" /\ Rest.age = 0 /\ "idle" \notin Holding /\ "asking" \notin Holding
  BY DEF Rest, Holding
<1>p. PC = {"idle", "asking", "working", "checking", "deleting"}
  BY DEF PC
<1> HIDE DEF Moved
<1>1. CASE TimerFires(r)
  <2>1. run' = [run EXCEPT ![r] = Moved("asking")]
    BY <1>1, <1>t DEF TimerFires, Goto
  <2>2. Moved("asking") \in Run /\ Moved("asking").pc = "asking"
    BY <1>t, <1>p
  <2> QED BY <1>1, <1>t, <1>r, <2>1, <2>2, MovesRun DEF TimerFires
<1>2. CASE Acquire(r)
  <2>1. CASE redis /\ lock # NoRun
    BY <1>2, <1>t, <1>r, <2>1, MovesRun DEF Acquire, Stop
  <2>2. CASE ~(redis /\ lock # NoRun)
    BY <1>2, <1>t, <2>2, SetsFree DEF Acquire
  <2> QED BY <2>1, <2>2
<1>3. CASE AcquireThrows(r)
  <2>1. CASE UNCHANGED <<lock, ttl>>
    BY <1>3, <1>t, <1>f, <1>r, <2>1, MovesRun DEF AcquireThrows, Stop
  <2>2. CASE lock = NoRun /\ Sets(r)
    BY <1>3, <1>t, <1>f, <1>r, <2>2, SetsFree DEF AcquireThrows, Stop
  <2> QED BY <1>3, <2>1, <2>2 DEF AcquireThrows
<1>4. CASE HandlerReturns(r)
  <2>1. CASE redis
    <3>1. run' = [run EXCEPT ![r] = Moved("checking")]
      BY <1>4, <2>1, <1>t DEF HandlerReturns, Goto
    <3>2. /\ Moved("checking") \in Run /\ Moved("checking").pc = "checking"
          /\ Moved("checking").age = run[r].age
      BY <1>t, <1>p
    <3> QED BY <1>4, <1>t, <3>1, <3>2, MovesRun DEF HandlerReturns, At, Holding
  <2>2. CASE ~redis
    BY <1>4, <1>t, <1>r, <2>2, MovesRun DEF HandlerReturns, Stop
  <2> QED BY <2>1, <2>2
<1>5. CASE HandlerThrows(r)
  BY <1>5, <1>t, <1>f, <1>r, MovesRun DEF HandlerThrows, Stop
<1>6. CASE Check(r)
  <2>1. CASE lock = r
    <3>1. run' = [run EXCEPT ![r] = Moved("deleting")]
      BY <1>6, <2>1, <1>t DEF Check, Goto
    <3>2. /\ Moved("deleting") \in Run /\ Moved("deleting").pc = "deleting"
          /\ Moved("deleting").age = run[r].age
      BY <1>t, <1>p
    <3> QED BY <1>6, <1>t, <2>1, <3>1, <3>2, MovesRun DEF Check, At, Holding
  <2>2. CASE lock # r
    BY <1>6, <1>t, <1>r, <2>2, MovesRun DEF Check, Stop
  <2> QED BY <2>1, <2>2
<1>7. CASE Delete(r)
  BY <1>7, <1>t, Removes DEF Delete, At, Stop
<1>8. CASE ReleaseThrows(r)
  <2>1. CASE UNCHANGED <<lock, ttl>>
    BY <1>8, <1>t, <1>f, <1>r, <2>1, MovesRun DEF ReleaseThrows, Stop
  <2>2. CASE At(r, "deleting") /\ lock' = NoRun /\ ttl' = 0
    BY <1>8, <1>f, <2>2, Removes DEF ReleaseThrows, At, Stop
  <2> QED BY <1>8, <2>1, <2>2 DEF ReleaseThrows
<1> QED BY <1>1, <1>2, <1>3, <1>4, <1>5, <1>6, <1>7, <1>8

LEMMA CrashStep ==
    ASSUME LockInv, NEW i \in Instances, Crash(i)
    PROVE  LockInv'
<1> USE LockTimeAssumption, FaultsAssumption
<1>1. TypeOK'
  BY DEF LockInv, TypeOK, Crash, Fault, Rest, PC
<1>2. \A r \in Runs : run'[r] = run[r] \/ run'[r] = Rest
  BY DEF Crash
<1>3. UNCHANGED <<redis, lock, ttl, slow>>
  BY DEF Crash
<1> QED BY <1>1, <1>2, <1>3
        DEF LockInv, KeyLives, OnTimeHolds, OnTime, DeletesOwn, Rest, Holding

LEMMA TickStep ==
    ASSUME LockInv, Tick
    PROVE  LockInv'
<1> USE LockTimeAssumption
<1>1. TypeOK'
  <2>1. run' \in [Runs -> [pc : PC, age : 0 .. LockTime]]
    <3>1. ASSUME NEW r \in Runs
          PROVE  Older(r) \in [pc : PC, age : 0 .. LockTime]
      BY DEF LockInv, TypeOK, Older
    <3> QED BY <3>1 DEF Tick
  <2>2. ttl' \in 0 .. LockTime /\ lock' \in Runs \cup {NoRun} /\ slow' \in BOOLEAN
    BY DEF LockInv, TypeOK, Tick, ExpiresUnderDelete
  <2> QED BY <2>1, <2>2 DEF LockInv, TypeOK, Tick
<1>2. ASSUME redis', ~slow'
      PROVE  OnTimeHolds' /\ DeletesOwn'
  <2>1. OnTimeHolds /\ DeletesOwn /\ ~ExpiresUnderDelete
    BY <1>2 DEF LockInv, Tick
  <2>2. \A r \in Runs : run'[r] = Older(r)
    BY DEF Tick
  <2>3. ASSUME NEW r \in Runs, OnTime(r)'
        PROVE  lock' = r /\ ttl' = LockTime - run'[r].age
    <3>1. run[r] \in [pc : PC, age : 0 .. LockTime]
      BY DEF LockInv, TypeOK
    <3>2. /\ run[r].pc \in Holding /\ run[r].age + 1 < LockTime
          /\ run'[r].age = run[r].age + 1
      BY <2>2, <2>3, <3>1 DEF OnTime, Older
    <3>3. lock = r /\ ttl = LockTime - run[r].age
      BY <2>1, <3>1, <3>2 DEF OnTimeHolds, OnTime
    <3> QED BY <3>1, <3>2, <3>3 DEF Tick
  <2>4. ASSUME NEW r \in Runs, run'[r].pc = "deleting"
        PROVE  lock' = r
    <3>1. run[r].pc = "deleting"
      <4>1. run[r] \in [pc : PC, age : 0 .. LockTime]
        BY DEF LockInv, TypeOK
      <4> QED BY <2>2, <2>4, <4>1 DEF Older
    <3>2. lock = r /\ ttl # 1
      BY <2>1, <3>1 DEF DeletesOwn, ExpiresUnderDelete, At
    <3>3. ttl > 0
      BY <3>2, NoRunAssumption DEF LockInv, KeyLives
    <3> QED BY <3>2, <3>3 DEF Tick, LockInv, TypeOK
  <2> QED BY <2>3, <2>4 DEF OnTimeHolds, DeletesOwn
<1>3. KeyLives'
  BY DEF LockInv, TypeOK, KeyLives, Tick
<1> QED BY <1>1, <1>2, <1>3 DEF LockInv

LEMMA LockNext == LockInv /\ [Next]_vars => LockInv'
<1> SUFFICES ASSUME LockInv, [Next]_vars PROVE LockInv'
  OBVIOUS
<1>1. ASSUME NEW r \in Runs,
             \/ TimerFires(r) \/ Acquire(r) \/ AcquireThrows(r)
             \/ HandlerReturns(r) \/ HandlerThrows(r)
             \/ Check(r) \/ Delete(r) \/ ReleaseThrows(r)
      PROVE  LockInv'
  BY <1>1, RunStep
<1>2. ASSUME NEW i \in Instances, Crash(i) PROVE LockInv'
  BY <1>2, CrashStep
<1>3. CASE Tick
  BY <1>3, TickStep
<1>4. CASE UNCHANGED vars
  BY <1>4 DEF vars, LockInv, TypeOK, KeyLives, OnTimeHolds, OnTime, DeletesOwn
<1> QED BY <1>1, <1>2, <1>3, <1>4 DEF Next

LEMMA LockAlways == Spec => []LockInv
<1>1. LockInv /\ [Next]_vars => LockInv'
  BY LockNext
<1> QED BY LockInit, <1>1, PTL DEF Spec

\* The variables keep their types (executeJob and the keys it sets).
THEOREM LockTypeCorrect == Spec => []TypeOK
<1>1. LockInv => TypeOK
  BY DEF LockInv
<1> QED BY LockAlways, <1>1, PTL

\* Runs that keep within the time of their lock exclude each other, whatever throws,
\* dies or comes back, and however many instances share the job.
THEOREM OnTimeRunsExclude == Spec => []SingleExecution
<1>1. LockInv => SingleExecution
  <2> SUFFICES ASSUME LockInv, redis, ~slow, NEW r \in Runs, NEW q \in Runs, r # q,
                      run[r].pc \in Holding, run[q].pc \in Holding
               PROVE  run[r].age = LockTime \/ run[q].age = LockTime
    BY DEF SingleExecution
  <2>1. run[r].age \in 0 .. LockTime /\ run[q].age \in 0 .. LockTime
    BY DEF LockInv, TypeOK
  <2>2. ~(OnTime(r) /\ OnTime(q))
    BY DEF LockInv, OnTimeHolds
  <2> QED BY <2>1, <2>2, LockTimeAssumption DEF OnTime
<1> QED BY LockAlways, <1>1, PTL
===============================================================================
