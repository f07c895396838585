CONSTANTS
    ByteBits = 2
    ValueSize = 2
    RegisterCount = 2
    MemorySize = 6
    MaxSteps = 5
    Programs <- MCTraced
SPECIFICATION TraceSpec
INVARIANT VerdictExplains
PROPERTY TraceTerminates
