CONSTANTS
    Fds <- MC_Fds
    FileSize = 2
    UtmpOffsets = {0, 1}
    OffsetLabels = {0, 1}
SPECIFICATION Spec
INVARIANT TaintSourceExact
