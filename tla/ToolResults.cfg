CONSTANTS
    MaxTurns = 2
    MaxCalls = 2
    Policies = {"refuse", "standard"}
    ModeChanges = {}
    Setters = {1}
    Stops = {"cancel", "clear"}
    MayFail = FALSE
    MaxCommands = 2
    MayHandIn = TRUE
SPECIFICATION Spec
INVARIANTS TypeOK OneResultPerCall NoForgottenCall CancelStopsTools
CONSTRAINT ShortSecond
CHECK_DEADLOCK FALSE
