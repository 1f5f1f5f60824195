\* Three requests for one slot, of which one is aborted; every queue has one place.
SPECIFICATION Spec
CONSTANTS
    None = None
    Requests = {r1, r2, r3}
    Slots = {s1}
    SchedCap = 1
    MaxSessions = 1
    EvictionRate = 90
    EvictionCount = 1
    Retries = 1
    MemCap = 1
    Leavers = {r1}
INVARIANTS
    SlotHome
    InFlightOwned
    LossNeedsAbort
PROPERTIES
    LegalTransitions
    ComesToRest
