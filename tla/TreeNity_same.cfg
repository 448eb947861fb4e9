SPECIFICATION Spec
CONSTANTS
    t1 = t1  a = a  b = b  k1 = k1  k2 = k2
    p1 = p1  p2 = p2  q1 = q1  c1 = c1  i1 = i1
    Topics = {t1}
    InitTopics = {t1}
    Names = {a, b}
    Keys = {k1, k2}
    Subscribers = {p1, p2}
    Producers = {q1}
    Creators = {}
    Queriers = {}
    NameOf <- SameName
    TopicOf <- OneTopic
    PrefixOf <- Prefixes
    Offsets <- NoOffset
    MaxLog = 2
    PipeCap = 1
    MaxKills = 1
    MaxSignals = 1
    MayShutDown = TRUE
    Stalled = {}
CHECK_DEADLOCK FALSE
INVARIANTS WellOwned ExactlyOnce InfoInSync IteratorValid
PROPERTY CommittedNeverRegresses
