CONSTANTS
    root = root
    child = child
    Sessions <- Pair
    Parent <- ParentOfPair
    NoParent = NoParent
    Stops = {"cancel", "terminate"}
    MayFail = TRUE
SPECIFICATION FairSpec
INVARIANTS TypeOK NoWaitCycle
PROPERTIES WaitEnds CancelEndsWait
