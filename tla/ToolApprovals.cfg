CONSTANTS
    MaxTurns = 1
    MaxCalls = 2
    Policies = {"standard", "hard", "block"}
    ModeChanges = {"normal", "yolo", "unsafe"}
    Setters = {1}
    Stops = {"cancel", "terminate"}
    MayFail = TRUE
    MaxCommands = 2
    MayHandIn = FALSE
SPECIFICATION FairSpec
INVARIANTS HardNeedsUser NoForgottenCall
PROPERTY BatchProgress
CHECK_DEADLOCK FALSE
