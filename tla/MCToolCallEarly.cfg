\* Does a cancellation stop the tool when it arrives while the call, which is
\* protected, waits at the vault for its decision?
CONSTANTS
    a = a  b = b  c = c  d = d
    k1 = k1  k2 = k2  k3 = k3
    cached = cached  missing = missing
    Requests = {b}
    Protected = {b}
    Keys = {k1, k2, k3}
    Tools = {cached, missing}
    KeyOf <- Ids
    ToolOf <- Calls
    Registered = {cached}
    Cacheable = {cached}
    LogsFail = {}
    MaxCalls = 2
    NoRequest = NoRequest
SPECIFICATION FairSpec
PROPERTIES
    NoTaskOrphaned
CHECK_DEADLOCK FALSE
