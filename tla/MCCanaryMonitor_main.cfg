\* Two tiers, every second probe deep, two misses make a model dead.
SPECIFICATION FairSpec
CONSTANTS
    DeadMisses = 2
    DeepEvery = 2
    QueueSize = 3
    Threads = 1
    MaxAnswers = 1
    MaxBusy = 1
PROPERTIES
    DeviceNoticed
    RecoveryNoticed
