SPECIFICATION FairSpec
CONSTANTS
    Transports = {"stdio", "http"}
    Messages <- TheMessages
    MaxFrames = 2
    MaxBatch = 3
    Slots = 2
INVARIANTS
    AnswersMatchRequests
    TraceTellsSession
PROPERTY AnsweredUnlessStuck
CHECK_DEADLOCK FALSE
