\* Crashes that respect both disciplines: safety, refinement and liveness.
SPECIFICATION FairSpec
CONSTANTS
  Slots = 3
  MaxMsgs = 6
  MaxCrashes = 3
  Discipline <- BothDisciplines
INVARIANTS NoTornPayload
PROPERTIES FifoSpec Drains
CHECK_DEADLOCK FALSE
