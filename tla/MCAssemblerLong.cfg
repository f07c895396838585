CONSTANTS
    ByteBits = 2
    ValueSize = 2
    RegisterCount = 2
    MemorySize = 6
    Prefix63 <- MCPrefix63
    FirstCapacity = 2
    Sources <- LongSources
SPECIFICATION Spec
INVARIANT LabelsResolve
CHECK_DEADLOCK FALSE
