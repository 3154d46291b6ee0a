CONSTANTS
    i1 = i1  c1 = c1  c2 = c2  c3 = c3  k1 = k1  r1 = r1  r2 = r2
    Identifiers = {i1}
    Callers = {c1, c2, c3}
    MaxRequests = 2
    Window = 2
    Keys = {k1}
    Readers = {r1}
    Ttl = 2
    Attempts = 2
    MaxVersion = 1
    Forever = Forever
    Nothing = Nothing
SPECIFICATION FairSpec
INVARIANT OvershootIsBounded
PROPERTIES LimitsLift StaleValuesLeave FlushEmpties
CHECK_DEADLOCK FALSE
