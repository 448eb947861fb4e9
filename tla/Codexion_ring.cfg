SPECIFICATION FairSpec
CONSTANTS
    N = 3
    Scheduler = "fifo"
    Burnout = 2
    Compile = 1
    Debug = 1
    Refactor = 1
    Required = 1
    Cooldown = 1
    StartOffset = 0
    MaxTime = 3
INVARIANTS DongleExclusion NoDeadlock
PROPERTIES Shutdown BurnoutDetected
