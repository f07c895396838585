CONSTANTS
    ByteBits = 2
    ValueSize = 2
    RegisterCount = 2
    MemorySize = 6
    Programs <- MCRuns
SPECIFICATION RunSpec
INVARIANTS CalleeSavedRestored NativeStackShape ResultMatchesError ExitTellsOutcome
PROPERTIES RefinesStepper
