SPECIFICATION FairSpec
CONSTANTS
    t1 = t1  a = a  b = b  k1 = k1  k2 = k2
    p1 = p1  p2 = p2  q1 = q1  c1 = c1  i1 = i1
    Topics = {t1}
    InitTopics = {}
    Names = {a, b}
    Keys = {k1, k2}
    Subscribers = {p1}
    Producers = {q1}
    Creators = {c1}
    Queriers = {i1}
    NameOf <- TwoNames
    TopicOf <- OneTopic
    PrefixOf <- Prefixes
    Offsets <- SomeOffsets
    MaxLog = 2
    PipeCap = 1
    MaxKills = 0
    MaxSignals = 1
    MayShutDown = TRUE
    Stalled = {}
CHECK_DEADLOCK FALSE
PROPERTIES Delivered ShutdownCompletes ReadersEnd
