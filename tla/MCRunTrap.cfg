CONSTANTS
    ByteBits = 2
    ValueSize = 2
    RegisterCount = 2
    MemorySize = 6
    Programs <- MCTrapping
SPECIFICATION RunSpec
INVARIANT CoreReturns
