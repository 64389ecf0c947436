\* Is a probe in flight whenever the breaker is half-open?
CONSTANTS
    Calls = {c1, c2, c3}
    ErrorLimit = 2
    Period = 1
SPECIFICATION Spec
INVARIANTS
    HalfOpenMeansProbeInFlight
CHECK_DEADLOCK FALSE
