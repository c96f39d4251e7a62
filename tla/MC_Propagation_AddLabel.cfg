CONSTANTS
    CONST_OFFSET = 1
    FileSize <- MC_FileSize
    LabelCap <- MC_LabelCap
    MemSize <- MC_MemSize
    AccessSizes <- MC_AccessSizes
    ByteVal <- MC_ByteVal
    AddConsts <- MC_AddConsts
    AddLabelSizes <- MC_AddLabelSizes
    MaxSteps <- MC_MaxSteps
SPECIFICATION Spec
INVARIANT LoadBounded
