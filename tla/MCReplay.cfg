SPECIFICATION Spec
CONSTANTS
    Transports = {"stdio"}
    Messages <- TheMessages
    MaxFrames = 2
    MaxBatch = 3
    Slots = 2
INVARIANT ReplayVerifies
CHECK_DEADLOCK FALSE
