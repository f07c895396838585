CONSTANTS
    ByteBits = 2
    ValueSize = 2
    RegisterCount = 2
    MemorySize = 6
    Programs <- MCMachines
SPECIFICATION Spec
INVARIANTS TypeOK StackInMemory IpInProgram ErrorMatchesResult BytesRoundTrip AcceptedFaultsAreDynamic CheckersAgree
PROPERTIES FaultHasNoEffect ImplementsStack RejectedMeansFault
