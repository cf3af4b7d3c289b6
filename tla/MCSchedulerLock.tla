--------------------------- MODULE MCSchedulerLock ---------------------------
\* Two instances of the scheduler, one of which may have two runs at once.
EXTENDS SchedulerLock, TLC

CONSTANTS i1, i2, r1, r2, r3

Hosts == (r1 :> i1) @@ (r2 :> i1) @@ (r3 :> i2)
==============================================================================
