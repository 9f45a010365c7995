SPECIFICATION FairTrainingSpec
CONSTANTS
  Limit = 1
  MaxJobs = 2
  MaxFaults = 2
  MaxRestarts = 1
INVARIANTS JobsAreKept StoppedOnRequest
PROPERTIES RestartKeepsResults StopEndsJob QueueDrains
CHECK_DEADLOCK FALSE
