CONSTANTS
    Jobs = {j1, j2}
    Workers = {w1, w2}
    Batches = 1
    Targets = {x}
    NoWorker = NoWorker
    InputTokens <- GrowingInput
    OutputReserve = 1
    MaxCalls = 1
    MaxInput = 1
    MaxOutput = 1
SPECIFICATION Spec
INVARIANTS SingleFlight
PROPERTIES Decided
