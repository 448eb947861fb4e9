SPECIFICATION Spec
CONSTANTS
    md = md  py = py  bin = bin  None = None
    Files <- FilesDef
    Kind <- KindDef
    Trees <- TreesDef
    Indexables <- IndexablesDef
    Edits <- EditsDef
    Sizes = {2}
    Ks = {0, 2}
    Limits <- LimitsDef
    Marks = {0, 1, 2}
    MaxSources = 2
    MaxContext = 3
    Questions <- QuestionsDef
    MaxEdits = 1
    MaxKills = 1
    MaxRuns = 3
CHECK_DEADLOCK FALSE
INVARIANTS  RebuildRepairs 
