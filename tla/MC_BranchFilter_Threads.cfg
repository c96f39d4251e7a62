CONSTANTS
    t1 = t1
    t2 = t2
    s1 = s1
    s2 = s2
    c1 = c1
    c2 = c2
    Threads <- MC_Threads2
    Sites <- MC_Sites
    Callstacks <- MC_Callstacks
    MAX_BRANCH_COUNT = 2
    MaxRuns = 2
    MaxEvents = 2
SPECIFICATION Spec
INVARIANT SolvedOnce
