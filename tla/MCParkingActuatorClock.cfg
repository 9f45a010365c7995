CONSTANTS
  SpeedLimit = 8
  OverspeedMargin = 1
  OverspeedBrake = 25
  SteeringGain = 100
  ThrottleGain = 100
  ThrottleFloor = 0
  BrakeThreshold = 55
  ReverseLockout = 1
  StaleTimeout = 1
  PlanTimeout = 1
  TelemetryTimeout = 1
  FutureSkew = 0
  MaxDT = 1
  HoldSpeed = 0
  StopBrake = 45
  StepMayRefuse = FALSE
  Outputs <- MCOutputs
  Requests <- FewRequests
  ObservationAges <- MCObservationAges
  Samples <- FewSamples
  ClockSteps <- MCClockSteps
  MaxSetBack = 1
  MaxCommands = 2
  MaxPlans = 2
SPECIFICATION Spec
INVARIANTS
  DirectDriveExpires
