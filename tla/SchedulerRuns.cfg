CONSTANTS
    Tasks = {t1}
    NoTask = NoTask
    Crons = {1}
    MaxClock = 3
    MaxCommands = 2
    MaxFaults = 1
SPECIFICATION FairSpec
INVARIANTS TypeOK EditsSurviveRuns OncePerOccurrence StoppedSoon OneSessionPerTask
PROPERTIES OneShotSent
CHECK_DEADLOCK FALSE
