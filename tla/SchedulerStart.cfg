CONSTANTS
    Tasks = {t1}
    NoTask = NoTask
    Crons = {1}
    MaxClock = 3
    MaxCommands = 2
    MaxFaults = 1
SPECIFICATION FairSpec
PROPERTY WorkerStarts
CHECK_DEADLOCK FALSE
