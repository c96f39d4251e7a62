CONSTANTS
    CONST_OFFSET = 1
    FileSize <- MC_HoleFileSize
    LabelCap <- MC_LabelCap
    MemSize <- MC_MemSize
    AccessSizes <- MC_AccessSizes
    ByteVal <- MC_ByteVal
    AddConsts <- MC_HoleAddConsts
    AddLabelSizes <- MC_HoleAddLabelSizes
    MaxSteps <- MC_HoleMaxSteps
SPECIFICATION Spec
INVARIANT ShapePathSound
