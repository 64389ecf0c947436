\* Two threads; servers set up in six ways, each with the calls it takes to
\* reach its limits.
CONSTANTS
    w1 = w1  w2 = w2
    sigX = sigX  sigY = sigY  sigZ = sigZ
    toolP = toolP  toolQ = toolQ
    Threads = {w1, w2}
    Signatures = {sigX, sigY, sigZ}
    Tools = {toolP, toolQ}
    ToolOf <- Of
    Configs <- Servers
    Minute = 2
    Hour = 2
    Recent = 3
    Outputs <- Texts
    Skew = 1
SPECIFICATION Spec
SYMMETRY Symmetry
INVARIANTS
    RatesHold
    LoopsBreak
    BudgetHolds
