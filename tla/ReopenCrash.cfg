CONSTANTS
    Prompts = {p1, p2, p3}
    Resumers = {r1}
    OpenWindow = 3
    MaxCrashes = 1
    MaxOpens = 1
    MaxPauses = 1
    MaxBatches = 1
    Nobody = Nobody
SPECIFICATION Spec
CONSTRAINT FewTroubles
SYMMETRY Symmetry
INVARIANTS TypeOK NoneForgotten OnePlace SentNeverWaits
CHECK_DEADLOCK FALSE
