SPECIFICATION Spec
CONSTANTS
    Workers = {w1}
    Tasks = {t1, t2, t3, t4}
    t1 = t1  t2 = t2  t3 = t3  t4 = t4
    Prompt <- MCAlike
    MaxTokens = 2
    NumBlocks = 3
    BlockSize = 2
    MaxInFlight = 2
    MaxBatched = 8
    Policies = {"PREFILL_FIRST"}
    Cancellable = {}
    MayBreak = FALSE
INVARIANT SharedBlocksSharePrefix
CHECK_DEADLOCK FALSE
