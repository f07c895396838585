CONSTANTS
    ByteBits = 2
    ValueSize = 2
    RegisterCount = 2
    MemorySize = 6
    MaxDump = 4
    MaxCells = 2
    Programs <- MCResumed
SPECIFICATION DebugSpec
INVARIANT ContinueResumes
