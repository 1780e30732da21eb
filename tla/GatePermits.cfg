CONSTANTS
    Sessions = {s1}
    Slots = {i1, i2}
    ActivePermits = {a1, a2}
    SuspendedPermits = {q1}
    NoPermit = NoPermit
    NoTask = NoTask
    Operations = {"start", "inject", "resume", "pause", "cancel", "terminate", "clear", "respond", "llmError", "uitool", "open"}
    DbMayFail = TRUE
SPECIFICATION Spec
SYMMETRY Symmetry
INVARIANTS TypeOK NoDoubleOwner NoLostPermit TransitionAnnounced
PROPERTIES ImplementsPool
CHECK_DEADLOCK FALSE
