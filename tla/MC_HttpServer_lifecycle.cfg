CONSTANTS
    m1 = m1
    m2 = m2
    m3 = m3
    p1 = p1
    Msgs = {m1, m2}
    Names = {p1}
    NoName = NoName
    NoMsg = NoMsg
    Requests <- MCLifecycleRequests
    MaxThreads = 2
    EngineOutcomes = {TRUE, FALSE}
    SpecCapacity = 2
    MaxStarts = 2

SPECIFICATION Spec

INVARIANT HandlesReleasedOnce
PROPERTY ServerReleasedAfterDrain
PROPERTY HttpServiceRefined
