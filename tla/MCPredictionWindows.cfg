SPECIFICATION MCWindowsSpec
ACTION_CONSTRAINT MCWindowsBound
CONSTANTS
  Games <- MCGames
  ClockOffsets <- MCNoLead
  HistoryLimit = 3
  TemporalEntries = 2
  TemporalDuration = 2
  MaxTime = 3
  MaxSamples = 3
  MaxChanges = 1
  ImageOffsets <- MCOffsets
  DispatchStride = 1
  FrameInterval = 1
  TelemetryOffsets <- MCOffsets
  SampleInterval = 2
  AlignmentTolerance = 1
  MaxSkew = 1
  CadenceTolerance = 0
  ClockLead = 1
  TimingTimeout = 1
  TimingBuffer = 1
  StaleAfter = 1
  Answers <- MCAnswers
  MaxFrames = 3
  MaxFaults = 1
  Unit = 1
  MaxSpeed = 2
INVARIANTS InputsAreOfTheFrame NewestWindowWaits DrivesFromEnvelope
PROPERTIES PlansAreCurrent WindowsAreHandled
CHECK_DEADLOCK FALSE
