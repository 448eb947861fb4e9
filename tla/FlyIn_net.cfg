SPECIFICATION FairSpec
CONSTANTS
    None = None
    Names <- NamesDef
    Lines <- LinesDef
    MaxTurns = 40
INVARIANTS FlightSound RefusedWithoutRoute RoutesBest
PROPERTY EverybodyArrives
