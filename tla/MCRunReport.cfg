CONSTANTS
    ByteBits = 2
    ValueSize = 2
    RegisterCount = 2
    MemorySize = 6
    Programs <- MCFailing
SPECIFICATION RunSpec
INVARIANT ReportNamesInstruction
