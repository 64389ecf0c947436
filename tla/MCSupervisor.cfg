\* Three calls through a channel of two places, three failures of the
\* upstream, one pause: it stops on two failures to start in a row.
CONSTANTS
    Calls = {c1, c2, c3}
    ChannelSize = 2
    Pauses = 1
    MaxFailures = 3
SPECIFICATION FairSpec
INVARIANTS
    EachCallOnce
PROPERTIES
    ImplementsPromise
    FailureReachesCallers
CHECK_DEADLOCK FALSE
