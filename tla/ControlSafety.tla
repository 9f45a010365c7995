---------------------------- MODULE ControlSafety ----------------------------
(***************************************************************************)
(* The last stage before the virtual gamepad: the pure functions of        *)
(* backend/internal/actuator/service.go that turn a requested control into *)
(* the control that is applied.  Efforts and stick positions are whole     *)
(* percents of the code's [0, 1] and [-1, 1]; a speed is a whole number of *)
(* an arbitrary unit shared by every speed constant.                       *)
(***************************************************************************)
EXTENDS Integers

CONSTANTS
  SpeedLimit,        \* speed_limit_kph; 0 switches the limiter off
  OverspeedMargin,   \* overspeed_brake_margin_kph
  OverspeedBrake,    \* overspeed_brake, percent
  SteeringGain,      \* steering_gain, percent
  ThrottleGain,      \* throttle_gain, percent
  ThrottleFloor,     \* throttle_floor, percent
  BrakeThreshold,    \* model_brake_threshold, percent
  ReverseLockout     \* reverse_lockout_speed_kph

(* What ValidateTuning guarantees of every tuning the service runs with.   *)
ASSUME TuningAssumption ==
  /\ SpeedLimit \in Nat
  /\ OverspeedMargin \in Nat
  /\ OverspeedBrake \in 0..100
  /\ SteeringGain \in Nat \ {0}
  /\ ThrottleGain \in Nat \ {0}
  /\ ThrottleFloor \in 0..100
  /\ BrakeThreshold \in 51..100
  /\ ReverseLockout \in Nat

(* resolveServiceThrottleBrakeConflict ignores efforts up to 0.05.         *)
ConflictDeadband == 5

Control == [steer: -100..100, throttle: 0..100, brake: 0..100,
            handbrake: BOOLEAN]

(* Brakes alone; Neutral is none of them.                                  *)
Brakes(brake, handbrake) ==
  [steer |-> 0, throttle |-> 0, brake |-> brake, handbrake |-> handbrake]

Neutral == Brakes(0, FALSE)

Clamp(x, lo, hi) == IF x < lo THEN lo ELSE IF x > hi THEN hi ELSE x

(* What actuatorStateConfirmsCommand takes for a stop: nothing drives, and *)
(* exactly one of the two brakes is on.                                    *)
IsStop(c) ==
  /\ c.steer = 0 /\ c.throttle = 0
  /\ IF c.handbrake THEN c.brake = 0 ELSE c.brake > 0

-----------------------------------------------------------------------------
Overspeed(speed) == SpeedLimit > 0 /\ speed >= SpeedLimit

(* The brake the speed limiter leaves: its own when the car is past the    *)
(* margin and the requested one is weaker.                                 *)
LimiterBrake(brake, speed) ==
  IF Overspeed(speed) /\ speed - SpeedLimit >= OverspeedMargin
                      /\ OverspeedBrake > brake
  THEN OverspeedBrake
  ELSE brake

(* applyParkingSafetyLocked: the handbrake excludes both pedals, the brake *)
(* excludes the throttle, the limiter comes last.                          *)
ParkingSafety(c, speed) ==
  LET brake == IF c.handbrake THEN 0 ELSE c.brake
  IN  [steer     |-> c.steer,
       throttle  |-> IF c.handbrake \/ brake > 0 \/ Overspeed(speed)
                     THEN 0 ELSE c.throttle,
       brake     |-> LimiterBrake(brake, speed),
       handbrake |-> c.handbrake]

-----------------------------------------------------------------------------
(* resolveServiceThrottleBrakeConflict                                     *)
ResolveConflict(c) ==
  IF c.brake > ConflictDeadband /\ c.throttle > ConflictDeadband
  THEN [c EXCEPT !.throttle = 0]
  ELSE c

(* A fault to be caught: the floor lifts a released throttle too.          *)
TunedThrottleFloored(throttle) ==
  LET gained == Clamp((throttle * ThrottleGain) \div 100, 0, 100)
  IN  IF gained < ThrottleFloor THEN ThrottleFloor ELSE gained

(* The throttle after gain and floor, and the brake after the threshold.   *)
TunedThrottle(throttle) ==
  LET gained == Clamp((throttle * ThrottleGain) \div 100, 0, 100)
  IN  IF gained > 0 /\ gained < ThrottleFloor THEN ThrottleFloor ELSE gained

TunedBrake(brake) == IF brake <= BrakeThreshold THEN 0 ELSE brake

(* applyLiveTuningLocked.  "known" is whether any telemetry was ever       *)
(* received: this path does not ask how old it is.                         *)
LiveTuning(c, known, speed) ==
  LET limited  == [steer     |-> Clamp((c.steer * SteeringGain) \div 100, -100, 100),
                   throttle  |-> IF known /\ Overspeed(speed)
                                 THEN 0 ELSE TunedThrottle(c.throttle),
                   brake     |-> IF known THEN LimiterBrake(TunedBrake(c.brake), speed)
                                          ELSE TunedBrake(c.brake),
                   handbrake |-> c.handbrake]
      resolved == ResolveConflict(limited)
  IN  IF known /\ speed <= ReverseLockout /\ resolved.brake > 0
      THEN [steer |-> resolved.steer, throttle |-> resolved.throttle,
            brake |-> 0, handbrake |-> TRUE]
      ELSE resolved
=============================================================================
