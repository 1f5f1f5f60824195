\* A training job, two killed servers and a refused write: it ends all the same.
SPECIFICATION FairSpec
CONSTANTS
    t1 = t1
    v1 = v1
    Jobs <- OneJob
    Training <- OneTraining
    MaxJobs = 1
    MaxItems = 1
    MaxCrashes = 2
    MaxOutages = 1
PROPERTIES
    EveryTaskEnds
    SlotsFreed
