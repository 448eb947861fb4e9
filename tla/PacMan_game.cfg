CONSTANTS
    Width = 5
    Pacgum = 1
    Lives = 1
    Levels = 2
    MaxTime = 4
    EdibleDuration = 2
    RespawnDelay = 2
    SlowInterval = 2
    BaseInterval = 2
    MaxEntries = 2
    MaxLives = 2
    MaxScore = 2
SPECIFICATION Spec
CHECK_DEADLOCK FALSE
 
PROPERTY BestStays
