SPECIFICATION Spec_Hist
CONSTANTS
    N = 2
    Scheduler = "edf"
    Burnout = 7
    Compile = 1
    Debug = 1
    Refactor = 1
    Required = 3
    Cooldown = 1
    StartOffset = 0
    MaxTime = 8
INVARIANTS QueueMatchesWaiters PassedAtMostOnce EndsInOrder
PROPERTY CooldownRespected
