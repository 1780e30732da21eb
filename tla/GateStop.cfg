CONSTANTS
    Sessions = {s1}
    Slots = {i1, i2}
    ActivePermits = {a1}
    SuspendedPermits = {q1}
    NoPermit = NoPermit
    NoTask = NoTask
    Operations = {"start", "pause", "cancel", "terminate", "clear", "respond"}
    DbMayFail = TRUE
SPECIFICATION FairSpec
INVARIANTS MemoryMatchesDb WedgeNeedsCrowd
PROPERTIES StopReturns WedgeIsForever
CHECK_DEADLOCK FALSE
