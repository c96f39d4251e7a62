CONSTANTS
    t1 = t1
    t2 = t2
    s1 = s1
    s2 = s2
    c1 = c1
    c2 = c2
    Threads <- MC_Threads1
    Sites <- MC_Sites
    Callstacks <- MC_Callstacks
    MAX_BRANCH_COUNT = 2
    MaxRuns = 3
    MaxEvents = 4
SPECIFICATION Spec
INVARIANT TypeOK
INVARIANT SolvedOnce
