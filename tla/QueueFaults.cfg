CONSTANTS
    Prompts = {p1, p2, p3, p4}
    ClaimBatch = 2
    MaxFaults = 2
    MayCancel = TRUE
    MayTerminate = TRUE
    Nobody = Nobody
SPECIFICATION Spec
SYMMETRY Symmetry
INVARIANTS TypeOK CancelWins
PROPERTIES FifoClaims KeptUntilAnswered StoredSurvives
CONSTRAINT FewTroubles
CHECK_DEADLOCK FALSE
