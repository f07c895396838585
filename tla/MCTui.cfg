CONSTANTS
    Programs <- MCListed
    PageSize = 2
    OutputLengths = {3}
    Keys = {"quit", "down", "pagedown", "clear", "enter", "debug", "info"}
    MaxPending = 2
    MaxEdits = 1
SPECIFICATION TuiFairSpec
INVARIANTS TuiTypeOK TerminalRestored OutputIsAbout ScrollWithinOutput
PROPERTIES LoneQuitExits
CHECK_DEADLOCK FALSE
