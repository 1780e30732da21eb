CONSTANTS
    Futures = {f1, f2}
    MaxMessages = 2
    MaxRetries = 1
    MaxSummaryRetries = 1
    MaxTroubles = 1
SPECIFICATION FairSpec
INVARIANTS TypeOK NeverStranded OneLoop
PROPERTIES SummaryGrows ParkedEnds
CHECK_DEADLOCK FALSE
