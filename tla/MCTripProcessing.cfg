SPECIFICATION MCTripSpec
CONSTANTS
  WindowSize = 3
  FrameStride = 1
  SampleStride = 1
  LabelTolerance = 3
  SampleInterval = 4
  TelemetryOffsets <- MCTelemetryOffsets
  FutureOffsets <- MCFutureOffsets
  SpeedDeltaClip = 60
  FlashFrameLimit = 4
  SmoothingRadius = 1
  StoppedBurst = 2
  StoppedSpacing = 8
  NumTrips = 2
  Workers = {w1, w2}
  Recorded <- MCRecorded
  MaxBatches = 2
  MaxFaults = 2
  MaxCrashes = 1
INVARIANTS CompletedIsWhole LiveFindsItsRow ReportAgrees SamplesAreSound
PROPERTIES OnlyForceRewrites BatchEnds
CHECK_DEADLOCK FALSE
