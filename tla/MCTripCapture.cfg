SPECIFICATION FairTripSpec
CONSTANTS
  Callers = {"start1", "start2", "stop1", "stop2"}
  Starters = {"start1", "start2"}
  Stoppers = {"stop1", "stop2"}
  MaxCaptures = 2
  MaxCalls = 5
  Attempts <- TwoThenOne
  MaxFaults = 1
  MaxRestarts = 1
INVARIANTS SessionsMatchProcesses CollectedIsWhole NothingRecordsUnattended BarrierHolds
PROPERTIES EverythingReturns
ACTION_CONSTRAINT OneMishap
CHECK_DEADLOCK FALSE
