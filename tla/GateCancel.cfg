CONSTANTS
    Sessions = {s1}
    Slots = {i1, i2}
    ActivePermits = {a1}
    SuspendedPermits = {q1}
    NoPermit = NoPermit
    NoTask = NoTask
    Operations = {"start", "respond", "cancel"}
    DbMayFail = FALSE
SPECIFICATION Spec
SYMMETRY Symmetry
INVARIANTS CancelConsumed
CHECK_DEADLOCK FALSE
