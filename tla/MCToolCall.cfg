\* Any two of four calls, concurrently: two under one id, one of them protected
\* by the vault; one under an id of its own, whose logs may fail; one of a tool
\* that is not registered.  Tools need never end.
CONSTANTS
    a = a  b = b  c = c  d = d
    k1 = k1  k2 = k2  k3 = k3
    cached = cached  missing = missing
    Requests = {a, b, c, d}
    Protected = {b}
    Keys = {k1, k2, k3}
    Tools = {cached, missing}
    KeyOf <- Ids
    ToolOf <- Calls
    Registered = {cached}
    Cacheable = {cached}
    LogsFail = {c}
    MaxCalls = 2
    NoRequest = NoRequest
SPECIFICATION FairSpec
INVARIANTS
    OnlyAdmittedCallsServed
    CancellationExact
    RecordsAgree
PROPERTIES
    CancellationTakesEffect
CHECK_DEADLOCK FALSE
