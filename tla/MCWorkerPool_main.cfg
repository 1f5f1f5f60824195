\* One worker, the health monitor, which may or may not restart the pool, and a device reset
\* over HTTP that races with it.
CONSTANTS
    N = 1
    MaxRestarts = 1
    AllowDeepReset = {TRUE, FALSE}
    Resets = {"r1"}
SPECIFICATION Spec
INVARIANTS
    RestartBudget
    OneProcessPerWorker
    NoOrphan
PROPERTIES
    DeadIsHandled
CHECK_DEADLOCK FALSE
