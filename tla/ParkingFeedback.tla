--------------------------- MODULE ParkingFeedback ---------------------------
(***************************************************************************)
(* The feedback controller of backend/internal/parkingcontrol: Step turns  *)
(* one sampled setpoint and the measured wheel and speed into a stick      *)
(* position and one signed longitudinal effort, or a hold.                 *)
(*                                                                         *)
(* Stick, wheel, efforts and probabilities are whole percents; speeds,     *)
(* times and gains are whole numbers of a unit of their own, so that a     *)
(* gain times an error is in percents (steering gains: hundredths of it).  *)
(* Not-a-number and infinities have no counterpart: Step refuses them as   *)
(* it refuses any other value out of range.                                *)
(***************************************************************************)
EXTENDS Interpolation

CONSTANTS
  SteeringProfile,      \* points [at, value] of the measured wheel map
  SteeringFeedbackGain, SteeringKi, SteeringIntegralMin, SteeringIntegralMax,
  SteeringSlew,         \* percents in one time unit
  SpeedKp, SpeedKi, SpeedIntegralMin, SpeedIntegralMax,
  MaxThrottleEffort, MaxBrakeEffort, StopBrakeEffort,
  LongitudinalSlew,     \* percents in one time unit
  StopThreshold, ReleaseThreshold,
  HoldSpeed, MaxDesiredSpeed, MaxDT,
  Inputs                \* inputs considered, valid or not

Input == [desiredWheel: Int, wheel: Int, desiredSpeed: Int, speed: Int,
          stop: Int, dt: Int]

(* newSteeringProfile and validateConfig.                                  *)
ASSUME ProfileAssumption ==
  /\ SteeringProfile \in Seq([at: -100..100, value: -100..100])
  /\ Len(SteeringProfile) >= 2
  /\ Increasing(SteeringProfile)
  /\ \A i \in 1..Len(SteeringProfile) - 1 :
       SteeringProfile[i].value <= SteeringProfile[i + 1].value
  /\ SteeringProfile[1].at = -100
  /\ SteeringProfile[Len(SteeringProfile)].at = 100

ASSUME FeedbackAssumption ==
  /\ {SteeringFeedbackGain, SteeringKi, SpeedKp, SpeedKi, HoldSpeed} \subseteq Nat
  /\ {SteeringSlew, LongitudinalSlew, MaxDesiredSpeed, MaxDT} \subseteq Nat \ {0}
  /\ {MaxThrottleEffort, MaxBrakeEffort, StopBrakeEffort} \subseteq 1..100
  /\ StopBrakeEffort <= MaxBrakeEffort
  /\ {SteeringIntegralMin, SteeringIntegralMax, SpeedIntegralMin, SpeedIntegralMax} \subseteq Int
  /\ SteeringIntegralMin <= 0 /\ 0 <= SteeringIntegralMax
  /\ SpeedIntegralMin <= 0 /\ 0 <= SpeedIntegralMax
  /\ StopThreshold \in 1..100
  /\ ReleaseThreshold \in 0..StopThreshold - 1
  /\ Inputs \subseteq Input

VARIABLES
  steering,          \* previousSteering
  effort,            \* previousEffort
  steeringIntegral,
  speedIntegral,     \* speedController.integral
  stopLatched,
  output,            \* what the last Step returned
  given              \* history: the input of the last Step

feedbackVars == <<steering, effort, steeringIntegral, speedIntegral,
                  stopLatched, output, given>>

Output == [steer: -100..100, effort: -100..100, hold: BOOLEAN]

FailSafeOutput == [steer |-> 0, effort |-> 0, hold |-> TRUE]

NoInput == [desiredWheel |-> 0, wheel |-> 0, desiredSpeed |-> 0, speed |-> 0,
            stop |-> 0, dt |-> 0]

FeedbackTypeOK ==
  /\ steering \in -100..100
  /\ effort \in -MaxBrakeEffort..MaxThrottleEffort
  /\ steeringIntegral \in SteeringIntegralMin..SteeringIntegralMax
  /\ speedIntegral \in SpeedIntegralMin..SpeedIntegralMax
  /\ stopLatched \in BOOLEAN
  /\ output \in Output
  /\ given \in Input

FeedbackInit ==
  /\ steering = 0
  /\ effort = 0
  /\ steeringIntegral = 0
  /\ speedIntegral = 0
  /\ stopLatched = FALSE
  /\ output = FailSafeOutput
  /\ given = NoInput

-----------------------------------------------------------------------------
Limited(x, lo, hi) == IF x < lo THEN lo ELSE IF x > hi THEN hi ELSE x

(* validateInput                                                           *)
ValidInput(in) ==
  /\ in.speed >= 0
  /\ in.desiredWheel \in -100..100 /\ in.wheel \in -100..100
  /\ in.desiredSpeed \in 0..MaxDesiredSpeed
  /\ in.stop \in 0..100
  /\ in.dt \in 1..MaxDT

(* updateStopLatch                                                         *)
Latched(in) ==
  IF stopLatched THEN in.stop > ReleaseThreshold ELSE in.stop >= StopThreshold

Slewed(current, target, delta) == current + Limited(target - current, -delta, delta)

(* Faults to be caught: a change of sign slews through the other pedal, or *)
(* the last part of a slew is not cut short.                               *)
SlewedThroughZero(current, target, delta) == Slewed(current, target, delta)

SlewedPastTarget(current, target, delta) ==
  Limited(IF current < target THEN current + delta ELSE current - delta, -100, 100)

(* slewLongitudinal: a change of sign starts from zero.                    *)
SlewedEffort(current, target, delta) ==
  LET opposed == (current > 0 /\ target <= 0) \/ (current < 0 /\ target >= 0)
  IN  Slewed(IF opposed THEN 0 ELSE current, target, delta)

(* Saturated by an error that pushes further: the integral stays.          *)
Pushes(unsaturated, lo, hi, err) ==
  (unsaturated > hi /\ err > 0) \/ (unsaturated < lo /\ err < 0)

-----------------------------------------------------------------------------
SpeedError(in) == in.desiredSpeed - in.speed

SpeedCandidate(in) ==
  Limited(speedIntegral + SpeedError(in) * in.dt, SpeedIntegralMin, SpeedIntegralMax)

SpeedUnsaturated(in) == SpeedKp * SpeedError(in) + SpeedKi * SpeedCandidate(in)

(* boundedPI.step                                                          *)
EffortTarget(in) == Limited(SpeedUnsaturated(in), -MaxBrakeEffort, MaxThrottleEffort)

NextSpeedIntegral(in) ==
  IF Pushes(SpeedUnsaturated(in), -MaxBrakeEffort, MaxThrottleEffort, SpeedError(in))
  THEN speedIntegral ELSE SpeedCandidate(in)

WheelError(in) == in.desiredWheel - in.wheel

SteeringCandidate(in) ==
  Limited(steeringIntegral + WheelError(in) * in.dt, SteeringIntegralMin, SteeringIntegralMax)

SteeringUnsaturated(in) ==
  Interpolate(SteeringProfile, in.desiredWheel)
    + (SteeringFeedbackGain * WheelError(in) + SteeringKi * SteeringCandidate(in)) \div 100

(* steeringTarget                                                          *)
SteeringTarget(in) == Limited(SteeringUnsaturated(in), -100, 100)

NextSteeringIntegral(in) ==
  IF Pushes(SteeringUnsaturated(in), -100, 100, WheelError(in))
  THEN steeringIntegral ELSE SteeringCandidate(in)

-----------------------------------------------------------------------------
Holding(in) == Latched(in) /\ in.speed <= HoldSpeed

(* Step of an input that validateInput refuses: Reset, and a hold.         *)
StepRefused(in) ==
  /\ ~ValidInput(in)
  /\ steering' = 0
  /\ effort' = 0
  /\ steeringIntegral' = 0
  /\ speedIntegral' = 0
  /\ stopLatched' = FALSE
  /\ output' = FailSafeOutput
  /\ given' = in

(* Latched and slow enough: the handbrake holds, the wheel is centred.     *)
StepHolds(in) ==
  /\ ValidInput(in)
  /\ Holding(in)
  /\ stopLatched' = TRUE
  /\ speedIntegral' = 0
  /\ steeringIntegral' = 0
  /\ effort' = 0
  /\ steering' = Slewed(steering, 0, SteeringSlew * in.dt)
  /\ output' = [steer |-> steering', effort |-> 0, hold |-> TRUE]
  /\ given' = in

(* Latched but too fast to hold, or following the setpoint.                *)
StepDrives(in) ==
  /\ ValidInput(in)
  /\ ~Holding(in)
  /\ stopLatched' = Latched(in)
  /\ speedIntegral' = IF Latched(in) THEN 0 ELSE NextSpeedIntegral(in)
  /\ effort' = SlewedEffort(effort,
                            IF Latched(in) THEN -StopBrakeEffort ELSE EffortTarget(in),
                            LongitudinalSlew * in.dt)
  /\ steeringIntegral' = NextSteeringIntegral(in)
  /\ steering' = Slewed(steering, SteeringTarget(in), SteeringSlew * in.dt)
  /\ output' = [steer |-> steering', effort |-> effort', hold |-> FALSE]
  /\ given' = in

(* resetParkingControlLocked and the actuator's fail-safe call it.         *)
Reset ==
  /\ steering' = 0
  /\ effort' = 0
  /\ steeringIntegral' = 0
  /\ speedIntegral' = 0
  /\ stopLatched' = FALSE
  /\ UNCHANGED <<output, given>>

Step(in) == StepRefused(in) \/ StepHolds(in) \/ StepDrives(in)

FeedbackNext == (\E in \in Inputs : Step(in)) \/ Reset

FeedbackSpec == FeedbackInit /\ [][FeedbackNext]_feedbackVars

(* The actuator's ticker calls Step at every tick of parking control.      *)
FairFeedbackSpec == FeedbackSpec /\ WF_feedbackVars(\E in \in Inputs : Step(in))

-----------------------------------------------------------------------------
(* A latched stop never drives: as soon as the model asks for a stop the   *)
(* throttle is released, whatever it was before, it stays released until   *)
(* the probability falls to the release threshold, and no drive is saved   *)
(* up meanwhile for the moment of the release.                             *)
LatchedNeverDrives == stopLatched => output.effort <= 0 /\ effort <= 0 /\ speedIntegral = 0

(* What the actuator service takes for granted about an output: a hold     *)
(* comes without effort and, unless the input was refused, only at or      *)
(* below the hold speed.                                                   *)
OutputContract ==
  /\ output \in Output
  /\ output.hold => output.effort = 0
  /\ output.hold /\ ValidInput(given) => given.speed <= HoldSpeed

(* The integral never winds up past what saturates the output: the error   *)
(* that is left decides, not the time it has been left.                    *)
NoWindup ==
  [][LET err   == given'.desiredSpeed - given'.speed
         asked == SpeedKp * err + SpeedKi * speedIntegral'
     IN  StepDrives(given') /\ ~stopLatched' =>
           /\ err > 0 /\ speedIntegral' > speedIntegral => asked <= MaxThrottleEffort
           /\ err < 0 /\ speedIntegral' < speedIntegral => asked >= -MaxBrakeEffort]_feedbackVars

(* Neither pedal is ever stamped on: from one step to the next throttle    *)
(* and brake effort each grow by at most the slew of the elapsed time,     *)
(* from zero when the pedals are changed.                                  *)
EffortIsGradual ==
  [][LET delta    == LongitudinalSlew * given'.dt
         throttle == IF effort > 0 THEN effort ELSE 0
         brake    == IF effort < 0 THEN -effort ELSE 0
     IN  ValidInput(given') => effort' <= throttle + delta /\ -effort' <= brake + delta]_feedbackVars

(* Left with one input the output settles: no integral, slew or latch      *)
(* keeps the controller hunting around its own target.                     *)
Settles ==
  \A in \in Inputs : <>[][Step(in)]_feedbackVars => <>[][output' = output]_feedbackVars
=============================================================================
