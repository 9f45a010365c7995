SPECIFICATION FairFeedbackSpec
CONSTANTS
  SteeringProfile <- MCProfile
  SteeringFeedbackGain = 50
  SteeringKi = 500
  SteeringIntegralMin <- MCSteeringIntegralMin
  SteeringIntegralMax = 2
  SteeringSlew = 50
  SpeedKp = 20
  SpeedKi = 10
  SpeedIntegralMin <- MCSpeedIntegralMin
  SpeedIntegralMax = 4
  MaxThrottleEffort = 50
  MaxBrakeEffort = 100
  StopBrakeEffort = 60
  LongitudinalSlew = 25
  StopThreshold = 70
  ReleaseThreshold = 40
  HoldSpeed = 1
  MaxDesiredSpeed = 2
  MaxDT = 2
  Inputs <- MCInputs
INVARIANTS LatchedNeverDrives
PROPERTIES Settles
