\* Can the server always be restarted after a crash?
CONSTANT
    MaxReceipts = 2
SPECIFICATION ReceiptSpec
INVARIANTS
    RestartPossible
CHECK_DEADLOCK FALSE
