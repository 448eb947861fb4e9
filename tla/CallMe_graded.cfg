SPECIFICATION FairSpec
CONSTANTS
    None = None
    Vocabulary <- VocabularyDef
    Functions <- FunctionsDef
    Order <- OrderDef
    Exercises <- ExercisesDef
    Prompts <- PromptsDef
    Result <- ResultDef
    MaxRuns = 4
    MaxKills = 1
CHECK_DEADLOCK FALSE
 
PROPERTY RunEnds
