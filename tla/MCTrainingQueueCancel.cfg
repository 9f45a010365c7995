SPECIFICATION TrainingSpec
CONSTANTS
  Limit = 1
  MaxJobs = 1
  MaxFaults = 0
  MaxRestarts = 0
PROPERTIES CanceledNeverStarts
CHECK_DEADLOCK FALSE
