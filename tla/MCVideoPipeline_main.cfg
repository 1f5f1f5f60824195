SPECIFICATION FairSpec
CONSTANTS
    Requests = {r1, r2}
    Conditioned = {r1}
    Canaries = {"deep"}
    InputSlots = 1
    OutputSlots = 1
    QueueMax = 1
    MaxProbes = 2
    MaxRestarts = 1
INVARIANTS SideFileKept VideoHasOwner
PROPERTIES OneLine AllAnswered
CHECK_DEADLOCK FALSE
