CONSTANTS
  Goroutines = {"worker", "deadline", "waiter"}
  MaxSessions = 1
  MaxForeign = 0
SPECIFICATION FairSessionSpec
PROPERTIES
  EverySessionEnds
  CallsReturn
CHECK_DEADLOCK FALSE
