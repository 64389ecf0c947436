\* Three protected calls and one that bypasses the vault, a table of one
\* entry and two threads: the table can overshoot.  A caller's timeout and
\* its entry's life are one tick each and need not end in the same tick.
CONSTANTS
    Requests = {r1, r2, r3, u}
    Protected = {r1, r2, r3}
    MaxPending = 1
    Workers = 2
    Window = 1
SPECIFICATION FairSpec
INVARIANTS
    GrantedOnlyIfApproved
    BoundedOvershoot
    DecisionsArrive
PROPERTIES
    EntryLeavesForCause
    EveryCallEnds
    ImplementsGate
CHECK_DEADLOCK FALSE
