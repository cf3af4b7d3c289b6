SPECIFICATION FairSpec
CONSTANTS
    i1 = i1
    i2 = i2
    r1 = r1
    r2 = r2
    r3 = r3
    Runs = {r1, r2, r3}
    NoRun = NoRun
    Instances = {i1, i2}
    Host <- Hosts
    LockTime = 2
    MaxFaults = 2
INVARIANTS
    SingleExecution
PROPERTIES
    JobRunsAgain
