\* Two errors open the breaker: the first opening takes two of the five
\* calls, an older call may linger, and two can be probes.
CONSTANTS
    Calls = {c1, c2, c3, c4, c5}
    ErrorLimit = 2
    Period = 1
SPECIFICATION Spec
SYMMETRY Symmetry
INVARIANTS
    ProbesInOrder
PROPERTIES
    OpensOnBurst
CHECK_DEADLOCK FALSE
