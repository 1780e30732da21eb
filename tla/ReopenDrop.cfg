CONSTANTS
    Prompts = {p1, p2}
    Resumers = {}
    OpenWindow = 3
    MaxCrashes = 0
    MaxOpens = 1
    MaxPauses = 0
    MaxBatches = 1
    Nobody = Nobody
SPECIFICATION Spec
CONSTRAINT OpenedBusy
PROPERTIES WaitersAreClaimed
CHECK_DEADLOCK FALSE
