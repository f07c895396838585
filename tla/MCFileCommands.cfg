CONSTANTS
    ByteBits = 2
    ValueSize = 2
    RegisterCount = 2
    MemorySize = 6
    MaxCount = 8
    MaxCommands = 2
    Procs = {p, q}
    AsmResults <- MCAsmResults
    InitialFiles <- MCInitialFiles
SPECIFICATION FileSpec
INVARIANTS FileTypeOK AcceptedIsWhole SuccessIsComplete NothingElseIsLoaded SourcesAreTaken InfoCountsInstructions
PROPERTIES RefusedKeepsFile
SYMMETRY Perms
CHECK_DEADLOCK FALSE
