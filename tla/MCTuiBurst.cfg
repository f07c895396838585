CONSTANTS
    Programs <- MCBoth
    PageSize = 2
    OutputLengths = {1, 4}
    Keys = {"quit", "help", "down"}
    MaxPending = 2
    MaxEdits = 0
SPECIFICATION TuiFairSpec
PROPERTIES QuitIsHeard
CHECK_DEADLOCK FALSE
