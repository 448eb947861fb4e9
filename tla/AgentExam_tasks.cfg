\* Two tasks, of which one must pass, in each of the three exams.
SPECIFICATION FairSpec
CONSTANTS
    Modes = {"mbpp", "fixture", "docker"}
    Tasks = 2
    Threshold = 1
    MaxIterations = 2
    MaxTokensIn = 1
    MaxTokensOut = 1
    MaxRetries = 1
    Keys = 2
    MaxCost = 2
CHECK_DEADLOCK FALSE
   
PROPERTY ExamEnds
