\* Safety: a training job and a video job at once, the server killed once.
SPECIFICATION Spec
CONSTANTS
    t1 = t1
    v1 = v1
    Jobs <- TwoJobs
    Training <- OneTraining
    MaxJobs = 2
    MaxItems = 1
    MaxCrashes = 1
    MaxOutages = 0
INVARIANTS
    DbAgrees
    ActiveHasTask
    CancelNeverCompletes
    FinishedDataSaved
    FileThere
PROPERTIES
    SettledStays
