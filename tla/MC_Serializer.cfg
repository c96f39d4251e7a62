CONSTANTS
    FileSize = 2
    NDerived = 2
    Ops <- MC_Ops
    MaxLoad = 2
SPECIFICATION Spec
INVARIANT TypeOK
INVARIANT DepsCover
