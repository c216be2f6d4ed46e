CONSTANTS
    m1 = m1
    m2 = m2
    m3 = m3
    p1 = p1
    Msgs = {m1, m2, m3}
    Names = {p1}
    NoName = NoName
    NoMsg = NoMsg
    Requests <- MCRequests
    MaxThreads = 2
    EngineOutcomes = {TRUE, FALSE}
    SpecCapacity = 2
    MaxStarts = 1

SPECIFICATION Spec

INVARIANT MissingNameIsBadValue
