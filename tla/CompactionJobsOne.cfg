CONSTANTS
    Jobs = {j1}
    Workers = {w1, w2}
    Batches = 2
    Targets = {x, y}
    NoWorker = NoWorker
    InputTokens <- GrowingInput
    OutputReserve = 2
    MaxCalls = 3
    MaxInput = 5
    MaxOutput = 7
SYMMETRY WorkerSymmetry
SPECIFICATION Safety
INVARIANTS NeverReplayed ReadyIsComplete ChargedWithinLimits OutcomesHold
