CONSTANTS
    FileSize = 3
    NDerived = 2
    Ops <- MC_Ops
    MaxLoad = 2
    Indices = {0}
SPECIFICATION Spec
INVARIANT DepsCover
INVARIANT TreesPartition
INVARIANT IndexConstraintReachable
PROPERTY ImplementsConstraintGroups
