SPECIFICATION FairSpec
CONSTANTS
    t1 = t1  a = a  b = b  k1 = k1  k2 = k2
    p1 = p1  p2 = p2  q1 = q1  c1 = c1  i1 = i1
    Topics = {t1}
    InitTopics = {t1}
    Names = {a, b}
    Keys = {k1, k2}
    Subscribers = {p1}
    Producers = {}
    Creators = {}
    Queriers = {}
    NameOf <- TwoNames
    TopicOf <- OneTopic
    PrefixOf <- Prefixes
    Offsets <- NoOffset
    MaxLog = 1
    PipeCap = 1
    MaxKills = 1
    MaxSignals = 0
    MayShutDown = FALSE
    Stalled = {}
CHECK_DEADLOCK FALSE
PROPERTY Responsive
