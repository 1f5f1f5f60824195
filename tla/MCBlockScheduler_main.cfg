SPECIFICATION FairSpec
CONSTANTS
    Workers = {w1}
    Tasks = {t1, t2, t3}
    t1 = t1  t2 = t2  t3 = t3  t4 = t4

    Prompt <- MCNested
    MaxTokens = 3
    NumBlocks = 3
    BlockSize = 3
    MaxInFlight = 3
    MaxBatched = 9
    Policies = {"PREFILL_FIRST", "MAX_OCCUPANCY"}
    Cancellable = {t2}
    MayBreak = TRUE
INVARIANTS BlocksAccounted NoDangling OneHome
PROPERTIES AbortIsFinal Served
CHECK_DEADLOCK FALSE
