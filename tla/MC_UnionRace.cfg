CONSTANTS
    t1 = t1
    t2 = t2
    r1 = r1
    r2 = r2
    Threads <- MC_Threads
    Records <- MC_Records
    LabelCap = 3
    MaxCalls = 2
SPECIFICATION Spec
INVARIANT TypeOK
INVARIANT ResultFaithful
PROPERTY ImplementsLabelStore
