CONSTANTS
    Width = 3
    Height = 3
    Worlds <- MCWorlds
    ExtraPercent = 100
SPECIFICATION ViewSpec
CHECK_DEADLOCK FALSE
INVARIANTS WallsAgree MazeSound OutputLeads 
PROPERTY MazesCome
