CONSTANTS
  Goroutines = {"worker", "frames", "waiter"}
  MaxSessions = 2
  MaxForeign = 1
SPECIFICATION SessionSpec
ACTION_CONSTRAINT MCSessionBound
INVARIANTS
  ArmedOnlyForSession
  HeldAfterSession
  PlanOfActiveSession
  FlagsCoherent
PROPERTIES
  StaleGoroutinesAreHarmless
CHECK_DEADLOCK FALSE
