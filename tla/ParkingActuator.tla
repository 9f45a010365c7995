--------------------------- MODULE ParkingActuator ---------------------------
(***************************************************************************)
(* The virtual controller service of backend/internal/actuator/service.go: *)
(* who owns the gamepad, which command or setpoint plan is current, and    *)
(* what the ticker of run() writes to the device.  Every exported method   *)
(* and every tick holds s.mu for its whole body, so each is one action;    *)
(* Start and Close release the mutex half way and are two actions each.    *)
(*                                                                         *)
(* Time is kept as ages, in units of one ticker period.  Every instant     *)
(* that the service compares went through UTC(), seconds or text and has   *)
(* lost its monotonic reading, so "age" is measured by the wall clock,     *)
(* which the operating system may step (ClockStep).  History fields that   *)
(* no action reads say what really happened: "mono" is the time that       *)
(* passed, "back" by how much the wall clock was set back meanwhile.       *)
(***************************************************************************)
EXTENDS ControlSafety

CONSTANTS
  StaleTimeout,      \* stale_timeout of a direct command
  PlanTimeout,       \* plan_timeout of a setpoint plan
  TelemetryTimeout,  \* telemetry_timeout of an ego sample
  FutureSkew,        \* maxTelemetryFutureSkew
  MaxDT,             \* max_dt between two feedback steps
  HoldSpeed,         \* hold_speed_mps
  StopBrake,         \* stop_brake_effort, percent
  Outputs,           \* outputs of parkingcontrol.Controller.Step considered
  StepMayRefuse,     \* max_desired_speed_mps is below the plan contract's
                     \* bound, so that Controller.Step refuses some setpoints
  Requests,          \* bodies of POST /actuator/command considered
  ObservationAges,   \* lags considered of an observation behind its plan
  Samples,           \* ego telemetry samples FiveM may post
  ClockSteps,        \* adjustments of the wall clock
  MaxSetBack,        \* bound: units the wall clock is set back, in total
  MaxCommands,       \* bound: command IDs handed out
  MaxPlans           \* bound: plan IDs handed out

Unowned == ""
Parking == "parking-inference"
Calibration == "calibration"
Owners == {Unowned, Parking, Calibration}

CommandRequest == [enabled: BOOLEAN, owner: Owners, ctl: Control]

(* A controller output: a stick position and either a hold or one signed   *)
(* longitudinal effort.                                                    *)
Output == [steer: -100..100, effort: -100..100, hold: BOOLEAN]

(* lag: how long the sample was under way (negative: the sender's clock is *)
(* ahead); valid: ActuatorEgoState.Valid; matches: wheel steer measured    *)
(* and the vehicle is the calibrated one.                                  *)
EgoSample == [lag: Int, speed: Nat, valid: BOOLEAN, matches: BOOLEAN]

ASSUME ActuatorAssumption ==
  /\ StaleTimeout \in Nat \ {0}
  /\ PlanTimeout \in Nat \ {0}
  /\ TelemetryTimeout \in Nat \ {0}
  /\ FutureSkew \in Nat
  /\ MaxDT \in Nat \ {0}
  /\ HoldSpeed \in Nat
  /\ StopBrake \in 1..100
  /\ Outputs \subseteq Output
  /\ StepMayRefuse \in BOOLEAN
  /\ Requests \subseteq CommandRequest
  /\ ObservationAges \subseteq Int
  /\ Samples \subseteq EgoSample
  /\ ClockSteps \subseteq Int
  /\ MaxSetBack \in Nat
  /\ MaxCommands \in Nat
  /\ MaxPlans \in Nat

(* LoadConfig does not relate the hold speed to the live speed limit; the  *)
(* deployed configuration keeps it far below.  Without this the limiter    *)
(* adds its brake to a handbrake, which no receipt check accepts.          *)
ASSUME HoldBelowLimiter ==
  SpeedLimit > 0 => HoldSpeed < SpeedLimit + OverspeedMargin

VARIABLES
  lifecycle,          \* started, ready, controller and done, as one phase
  parkingOwner,
  parkingStopping,
  lastCmd,            \* nil is NoCommand
  nextCommandID,
  plan,               \* parkingPlan and parkingPlanAcceptedAt; nil is NoPlan
  parkingPlanID,      \* survives the plan: resetParkingControlLocked keeps it
  nextParkingPlanID,
  lastTick,           \* lastParkingTickAt; zero is NoTick
  ego,                \* latest actuator ego state of the telemetry store
  applied,            \* AppliedState: the receipt of the last applied report
  attempted,          \* lastApplyAttemptedCommandID
  applyFault,         \* lastApplyError # ""
  device,             \* the report the gamepad driver holds
  newestPlan,         \* history: the highest plan ID of any receipt
  tickDue,            \* the ticker has not fired yet in this clock unit
  setBack             \* units the wall clock was set back so far

vars == <<lifecycle, parkingOwner, parkingStopping, lastCmd, nextCommandID,
          plan, parkingPlanID, nextParkingPlanID, lastTick, ego, applied,
          attempted, applyFault, device, newestPlan, tickDue, setBack>>

sessionVars == <<parkingOwner, parkingStopping, lastCmd, nextCommandID>>
planVars    == <<plan, parkingPlanID, nextParkingPlanID, lastTick>>
deviceVars  == <<applied, attempted, applyFault, device, newestPlan>>
clockVars   == <<tickDue, setBack>>

-----------------------------------------------------------------------------
NoTick == [set |-> FALSE, age |-> 0]

NoCommand == [id |-> 0, enabled |-> FALSE, owner |-> Unowned, ctl |-> Neutral,
              age |-> 0, mono |-> 0]

(* "age" counts from parkingPlanAcceptedAt, when the observation was "lag" *)
(* old; "mono" is the true age of the observation.  "arm" is one more      *)
(* history field: the command that was current at the acceptance.          *)
NoPlan == [held |-> FALSE, age |-> 0, lag |-> 0, mono |-> 0, back |-> 0, arm |-> 0]

(* "age" counts from the receipt, when the sample was "lag" old.           *)
NoEgo == [known |-> FALSE, age |-> 0, lag |-> 0, mono |-> 0, back |-> 0,
          speed |-> 0, valid |-> FALSE, matches |-> FALSE]

NotApplied == [ctl |-> Neutral, cmd |-> 0, plan |-> 0, enabled |-> FALSE]

TypeOK ==
  /\ lifecycle \in {"down", "starting", "failed", "ready", "draining"}
  /\ parkingOwner \in {Unowned, Parking}
  /\ parkingStopping \in BOOLEAN
  /\ lastCmd \in [id: Nat, enabled: BOOLEAN, owner: Owners, ctl: Control,
                  age: Int, mono: Nat]
  /\ nextCommandID \in Nat
  /\ plan \in [held: BOOLEAN, age: Int, lag: Int, mono: Nat, back: Nat, arm: Nat]
  /\ parkingPlanID \in Nat
  /\ nextParkingPlanID \in Nat
  /\ lastTick \in [set: BOOLEAN, age: Int]
  /\ ego \in [known: BOOLEAN, age: Int, lag: Int, mono: Nat, back: Nat,
              speed: Nat, valid: BOOLEAN, matches: BOOLEAN]
  /\ applied \in [ctl: Control, cmd: Nat, plan: Nat, enabled: BOOLEAN]
  /\ attempted \in Nat
  /\ applyFault \in BOOLEAN
  /\ device \in Control
  /\ newestPlan \in Nat
  /\ tickDue \in BOOLEAN
  /\ setBack \in Nat

Init ==
  /\ lifecycle = "down"
  /\ parkingOwner = Unowned
  /\ parkingStopping = FALSE
  /\ lastCmd = NoCommand
  /\ nextCommandID = 0
  /\ plan = NoPlan
  /\ parkingPlanID = 0
  /\ nextParkingPlanID = 0
  /\ lastTick = NoTick
  /\ ego = NoEgo
  /\ applied = NotApplied
  /\ attempted = 0
  /\ applyFault = FALSE
  /\ device = Neutral
  /\ newestPlan = 0
  /\ tickDue = FALSE
  /\ setBack = 0

-----------------------------------------------------------------------------
(* Start, up to the unlock before newController().  A failed Start leaves  *)
(* started set, so a later Start returns without retrying.                 *)
StartBegin ==
  /\ lifecycle = "down"
  /\ lifecycle' = "starting"
  /\ UNCHANGED <<sessionVars, planVars, ego, deviceVars, clockVars>>

(* newController succeeds: the gamepad is plugged in with a neutral report.*)
StartReady ==
  /\ lifecycle = "starting"
  /\ lifecycle' = "ready"
  /\ device' = Neutral
  /\ UNCHANGED <<sessionVars, planVars, ego, applied, attempted, applyFault,
                 newestPlan, clockVars>>

StartFails ==
  /\ lifecycle = "starting"
  /\ lifecycle' = "failed"
  /\ UNCHANGED <<sessionVars, planVars, ego, deviceVars, clockVars>>

(* The critical section of Close.  The ID counters are not reset.          *)
CloseClear ==
  /\ lifecycle \in {"ready", "failed"}
  /\ lifecycle' = IF lifecycle = "ready" THEN "draining" ELSE "down"
  /\ lastCmd' = NoCommand
  /\ applied' = NotApplied
  /\ plan' = NoPlan
  /\ lastTick' = NoTick
  /\ parkingOwner' = Unowned
  /\ parkingStopping' = FALSE
  /\ parkingPlanID' = 0
  /\ applyFault' = FALSE
  /\ attempted' = 0
  /\ UNCHANGED <<nextCommandID, nextParkingPlanID, ego, device, newestPlan,
                 clockVars>>

(* The rest of Close: run() has returned, ctrl.Close() resets the gamepad. *)
CloseDevice ==
  /\ lifecycle = "draining"
  /\ lifecycle' = "down"
  /\ device' = Neutral
  /\ UNCHANGED <<sessionVars, planVars, ego, applied, attempted, applyFault,
                 newestPlan, clockVars>>

-----------------------------------------------------------------------------
(* authorizeDirectCommandLocked                                            *)
Authorized(req) ==
  IF parkingOwner # Unowned /\ req.owner # parkingOwner
  THEN ~req.enabled
  ELSE req.owner = Parking /\ req.enabled => req.ctl = Neutral

Received(req) ==
  [id |-> nextCommandID + 1, enabled |-> req.enabled, owner |-> req.owner,
   ctl |-> req.ctl, age |-> 0, mono |-> 0]

(* A fault to be caught: the reset hands out plan IDs anew.                *)
ResetRestartingPlanIDs ==
  /\ plan' = NoPlan
  /\ lastTick' = NoTick
  /\ nextParkingPlanID' = 0
  /\ UNCHANGED parkingPlanID

(* resetParkingControlLocked                                               *)
ResetParkingControl ==
  /\ plan' = NoPlan
  /\ lastTick' = NoTick
  /\ UNCHANGED <<parkingPlanID, nextParkingPlanID>>

(* Submit.  Every accepted command resets the plan and lifts a safety stop;*)
(* an enabled parking command takes ownership and a disabled one drops it. *)
Submit(req) ==
  /\ lifecycle = "ready"
  /\ nextCommandID < MaxCommands
  /\ Authorized(req)
  /\ nextCommandID' = nextCommandID + 1
  /\ lastCmd' = Received(req)
  /\ ResetParkingControl
  /\ parkingStopping' = FALSE
  /\ parkingOwner' = IF ~req.enabled THEN Unowned
                     ELSE IF req.owner = Parking THEN Parking ELSE parkingOwner
  /\ UNCHANGED <<lifecycle, ego, deviceVars, clockVars>>

(* A fault to be caught: the stop goes by the ID of the command before it. *)
StopReusingID ==
  /\ lifecycle = "ready"
  /\ nextCommandID < MaxCommands
  /\ parkingOwner \in {Unowned, Parking}
  /\ lastCmd' = [Received([enabled |-> TRUE, owner |-> Parking, ctl |-> Neutral])
                   EXCEPT !.id = nextCommandID]
  /\ parkingOwner' = Parking
  /\ parkingStopping' = TRUE
  /\ ResetParkingControl
  /\ UNCHANGED <<lifecycle, nextCommandID, ego, deviceVars, clockVars>>

(* RequestParkingSafetyStop                                                *)
RequestParkingSafetyStop ==
  /\ lifecycle = "ready"
  /\ nextCommandID < MaxCommands
  /\ parkingOwner \in {Unowned, Parking}
  /\ nextCommandID' = nextCommandID + 1
  /\ lastCmd' = Received([enabled |-> TRUE, owner |-> Parking, ctl |-> Neutral])
  /\ parkingOwner' = Parking
  /\ parkingStopping' = TRUE
  /\ ResetParkingControl
  /\ UNCHANGED <<lifecycle, ego, deviceVars, clockVars>>

(* The checks of a plan's observation and what is kept of the plan.        *)
ObservationNewer(lag) ==
  /\ lag \in 0..PlanTimeout
  /\ plan.held => lag < plan.age + plan.lag

Accepted(lag) ==
  [held |-> TRUE, age |-> 0, lag |-> lag, mono |-> lag, back |-> 0, arm |-> lastCmd.id]

(* A fault to be caught: a plan is accepted while a stop is active.        *)
PlanDuringStop(lag) ==
  /\ lifecycle = "ready"
  /\ nextParkingPlanID < MaxPlans
  /\ parkingOwner = Parking
  /\ lastCmd.enabled /\ lastCmd.owner = Parking
  /\ ~applyFault
  /\ ObservationNewer(lag)
  /\ nextParkingPlanID' = nextParkingPlanID + 1
  /\ parkingPlanID' = nextParkingPlanID + 1
  /\ plan' = Accepted(lag)
  /\ UNCHANGED <<lifecycle, sessionVars, lastTick, ego, deviceVars, clockVars>>

(* SubmitParkingSetpointPlan, of a well-formed plan whose observation is   *)
(* "lag" old by the wall clock, with a verified calibration.               *)
SubmitParkingSetpointPlan(lag) ==
  /\ lifecycle = "ready"
  /\ nextParkingPlanID < MaxPlans
  /\ parkingOwner = Parking
  /\ lastCmd.enabled /\ lastCmd.owner = Parking
  /\ ~parkingStopping
  /\ ~applyFault
  /\ ObservationNewer(lag)
  /\ nextParkingPlanID' = nextParkingPlanID + 1
  /\ parkingPlanID' = nextParkingPlanID + 1
  /\ plan' = Accepted(lag)
  /\ UNCHANGED <<lifecycle, sessionVars, lastTick, ego, deviceVars, clockVars>>

-----------------------------------------------------------------------------
(* validateParkingTelemetryTimingLocked                                    *)
TelemetryTimely ==
  /\ ego.known
  /\ ego.age \in 0..TelemetryTimeout
  /\ -FutureSkew <= ego.age + ego.lag /\ ego.age + ego.lag <= TelemetryTimeout
  /\ -FutureSkew <= ego.lag /\ ego.lag <= TelemetryTimeout

SpeedKnown == TelemetryTimely /\ ego.valid

(* step works with the instant at which the ticker fired.  What arrived    *)
(* between that instant and the lock has a negative age, which every check *)
(* refuses: a sample or an observation of this clock unit may be such.     *)
SamplePredated == ego.known /\ ego.age = 0
ObservationPredated == plan.held /\ plan.age + plan.lag = 0

SpeedSeen == {SpeedKnown} \cup {seen \in {FALSE} : SamplePredated}

(* A fault to be caught: the speed is trusted however old it is.           *)
StopControlUnverified(seen) ==
  ParkingSafety(
    IF ego.speed <= HoldSpeed
    THEN Brakes(0, TRUE) ELSE Brakes(StopBrake, FALSE),
    IF seen THEN ego.speed ELSE 0)

(* parkingStopSnapshotLocked: the handbrake needs a fresh low speed, an    *)
(* unknown speed means the service brake.                                  *)
StopControl(seen) ==
  ParkingSafety(
    IF seen /\ ego.speed <= HoldSpeed
    THEN Brakes(0, TRUE) ELSE Brakes(StopBrake, FALSE),
    IF seen THEN ego.speed ELSE 0)

(* Output.ThrottleBrake followed by the safety envelope.                   *)
FeedbackControl(out) ==
  ParkingSafety(
    [steer     |-> out.steer,
     throttle  |-> IF out.effort > 0 THEN out.effort ELSE 0,
     brake     |-> IF out.effort < 0 THEN -out.effort ELSE 0,
     handbrake |-> out.hold],
    ego.speed)

(* resolveTarget, applyLiveTuningLocked and step's treatment of a target   *)
(* that timed out.                                                         *)
CommandExpired == lastCmd.enabled /\ lastCmd.age > StaleTimeout

DirectControl ==
  IF CommandExpired
  THEN Neutral
  ELSE LiveTuning(IF lastCmd.enabled
                  THEN lastCmd.ctl
                  ELSE Brakes(0, lastCmd.ctl.handbrake),
                  ego.known, ego.speed)

(* A fault to be caught: only the time since the acceptance counts.        *)
PlanFreshSinceAcceptance == plan.age <= PlanTimeout

PlanFresh ==
  /\ plan.age + plan.lag \in 0..PlanTimeout
  /\ plan.age <= PlanTimeout

(* The plan, the telemetry and the spacing of the ticks all allow a        *)
(* feedback step.                                                          *)
FeedbackAllowed ==
  /\ PlanFresh
  /\ SpeedKnown
  /\ ego.matches
  /\ lastTick.set => lastTick.age \in 1..MaxDT

(* What parkingcontrol.Controller.Step may answer.                         *)
FeedbackOutputs ==
  {out \in Outputs : out.hold => out.effort = 0 /\ ego.speed <= HoldSpeed}

(* A fault to be caught: the receipt is recorded before Apply is tried.    *)
WriteReceiptFirst(ctl, planID, enabled) ==
  /\ attempted' = lastCmd.id
  /\ applied' = [ctl |-> ctl, cmd |-> lastCmd.id, plan |-> planID, enabled |-> enabled]
  /\ newestPlan' = IF planID > newestPlan THEN planID ELSE newestPlan
  /\ \/ device' = ctl /\ applyFault' = FALSE
     \/ device' \in {device, ctl} /\ applyFault' = TRUE

(* The end of step: Apply succeeds and the receipt is written, or it fails *)
(* and only the fault is; a failed Update may still have reached the       *)
(* driver.                                                                 *)
Write(ctl, planID, enabled) ==
  /\ attempted' = lastCmd.id
  /\ \/ /\ device' = ctl
        /\ applied' = [ctl |-> ctl, cmd |-> lastCmd.id, plan |-> planID,
                       enabled |-> enabled]
        /\ newestPlan' = IF planID > newestPlan THEN planID ELSE newestPlan
        /\ applyFault' = FALSE
     \/ /\ device' \in {device, ctl}
        /\ applyFault' = TRUE
        /\ UNCHANGED <<applied, newestPlan>>

(* A fault to be caught: after a rejected report no other is written.      *)
TickedUnlessFault ==
  /\ lifecycle = "ready"
  /\ tickDue /\ ~applyFault
  /\ tickDue' = FALSE
  /\ UNCHANGED <<lifecycle, sessionVars, plan, parkingPlanID,
                 nextParkingPlanID, ego, setBack>>

Ticked ==
  /\ lifecycle = "ready"
  /\ tickDue
  /\ tickDue' = FALSE
  /\ UNCHANGED <<lifecycle, sessionVars, plan, parkingPlanID,
                 nextParkingPlanID, ego, setBack>>

(* step, with the direct command as target.                                *)
StepDirect ==
  /\ parkingOwner # Parking
  /\ Ticked
  /\ Write(DirectControl, 0, lastCmd.enabled /\ ~CommandExpired)
  /\ UNCHANGED lastTick

(* step, while a stop was requested or no plan has arrived yet.            *)
StepStop ==
  /\ parkingOwner = Parking
  /\ parkingStopping \/ ~plan.held
  /\ Ticked
  /\ \E seen \in SpeedSeen : Write(StopControl(seen), 0, TRUE)
  /\ UNCHANGED lastTick

(* step, one feedback step towards the plan.                               *)
StepFeedback ==
  /\ parkingOwner = Parking
  /\ ~parkingStopping /\ plan.held
  /\ FeedbackAllowed
  /\ Ticked
  /\ \E out \in FeedbackOutputs : Write(FeedbackControl(out), parkingPlanID, TRUE)
  /\ lastTick' = [set |-> TRUE, age |-> 0]

(* step, the fail-safe: a check failed, what it read is newer than the     *)
(* tick, or Controller.Step refused.                                       *)
StepFailSafe ==
  /\ parkingOwner = Parking
  /\ ~parkingStopping /\ plan.held
  /\ \/ ~FeedbackAllowed
     \/ SamplePredated \/ ObservationPredated
     \/ StepMayRefuse
  /\ Ticked
  /\ \E seen \in SpeedSeen : Write(StopControl(seen), parkingPlanID, TRUE)
  /\ lastTick' = NoTick

-----------------------------------------------------------------------------
(* Telemetry from FiveM replaces the stored sample (Store.UpdateTelemetry).*)
ReceiveTelemetry(s) ==
  /\ ego' = [known |-> TRUE, age |-> 0, lag |-> s.lag, mono |-> 0, back |-> 0,
             speed |-> s.speed, valid |-> s.valid, matches |-> s.matches]
  /\ UNCHANGED <<lifecycle, sessionVars, planVars, deviceVars, clockVars>>

(* Ages are counted up to the bound from which no setting back that is     *)
(* still possible returns them below their limit.                          *)
Horizon(limit) == limit + (MaxSetBack - setBack) + 1

Older(a, bound) == IF a >= bound THEN a ELSE a + 1

Aged(r, limit) ==
  [r EXCEPT !.age = Older(@, Horizon(limit)),
            !.mono = Older(@, limit + MaxSetBack + 1)]

(* One clock unit passes and the ticker is due again.                      *)
Elapse ==
  /\ tickDue' = TRUE
  /\ lastCmd' = IF lastCmd.id > 0
                THEN Aged(lastCmd, StaleTimeout) ELSE lastCmd
  /\ plan' = IF plan.held
             THEN Aged(plan, PlanTimeout) ELSE plan
  /\ lastTick' = IF lastTick.set
                 THEN [lastTick EXCEPT !.age = Older(@, Horizon(MaxDT))] ELSE lastTick
  /\ ego' = IF ego.known
            THEN Aged(ego, TelemetryTimeout) ELSE ego
  /\ UNCHANGED <<lifecycle, parkingOwner, parkingStopping, nextCommandID,
                 parkingPlanID, nextParkingPlanID, deviceVars, setBack>>

Back(d) == IF d < 0 THEN -d ELSE 0

Shifted(a, d, limit) == IF a + d > Horizon(limit) THEN Horizon(limit) ELSE a + d

(* The wall clock is adjusted by d units: every age that the service takes *)
(* changes with it.  An adjustment while a tick waits for the lock counts  *)
(* as one before the tick fired.                                           *)
ClockStep(d) ==
  /\ setBack + Back(d) <= MaxSetBack
  /\ setBack' = setBack + Back(d)
  /\ lastCmd' = IF lastCmd.id > 0
                THEN [lastCmd EXCEPT !.age = Shifted(@, d, StaleTimeout)] ELSE lastCmd
  /\ plan' = IF plan.held
             THEN [plan EXCEPT !.age = Shifted(@, d, PlanTimeout),
                               !.back = @ + Back(d)] ELSE plan
  /\ lastTick' = IF lastTick.set
                 THEN [lastTick EXCEPT !.age = Shifted(@, d, MaxDT)] ELSE lastTick
  /\ ego' = IF ego.known
            THEN [ego EXCEPT !.age = Shifted(@, d, TelemetryTimeout),
                             !.back = @ + Back(d)] ELSE ego
  /\ UNCHANGED <<lifecycle, parkingOwner, parkingStopping, nextCommandID,
                 parkingPlanID, nextParkingPlanID, deviceVars, tickDue>>

-----------------------------------------------------------------------------
Step == StepDirect \/ StepStop \/ StepFeedback \/ StepFailSafe

Next ==
  \/ StartBegin \/ StartReady \/ StartFails \/ CloseClear \/ CloseDevice
  \/ \E req \in Requests : Submit(req)
  \/ RequestParkingSafetyStop
  \/ \E lag \in ObservationAges : SubmitParkingSetpointPlan(lag)
  \/ Step
  \/ \E s \in Samples : ReceiveTelemetry(s)
  \/ Elapse
  \/ \E d \in ClockSteps : ClockStep(d)

Spec == Init /\ [][Next]_vars

(* The ticker keeps firing and the clock keeps moving; the driver, which   *)
(* may reject a report, does not reject all of them for ever.              *)
Fairness ==
  /\ WF_vars(Elapse)
  /\ WF_vars(Step)
  /\ SF_vars(Step /\ ~applyFault')

FairSpec == Spec /\ Fairness

-----------------------------------------------------------------------------
(* Parking ownership always rests on the current command being an enabled  *)
(* parking command with neutral controls, and a safety stop on ownership:  *)
(* Submit, RequestParkingSafetyStop and Close never leave one of the three *)
(* behind.                                                                 *)
OwnershipCoherent ==
  /\ parkingOwner = Parking <=> lastCmd.enabled /\ lastCmd.owner = Parking
  /\ parkingOwner = Parking => lastCmd.ctl = Neutral
  /\ parkingStopping => parkingOwner = Parking

(* A held plan was accepted under the command that is still current: no    *)
(* plan survives a re-arm, a safety stop, a direct command or a restart.   *)
PlanBelongsToArm ==
  plan.held => /\ parkingOwner = Parking
               /\ ~parkingStopping
               /\ plan.arm = lastCmd.id

(* The receipt the inferencer polls for: while a stop is active, or before *)
(* the first plan, a receipt that carries the current command's ID is that *)
(* of a stop, and unless a later write failed the device holds it.         *)
StopReceiptSound ==
  (/\ parkingOwner = Parking
   /\ parkingStopping \/ ~plan.held
   /\ applied.cmd = lastCmd.id)
  => /\ IsStop(applied.ctl)
     /\ ~applyFault => device = applied.ctl

(* IDs in use were handed out: a receipt cannot name a future command, the *)
(* plan it names is not newer than the current one, and a plan that is     *)
(* held is at least as new as every plan that was ever applied.            *)
IdsAreIssued ==
  /\ lastCmd.id <= nextCommandID
  /\ applied.cmd <= nextCommandID
  /\ applied.plan <= parkingPlanID
  /\ parkingPlanID <= nextParkingPlanID
  /\ newestPlan <= nextParkingPlanID
  /\ plan.held => newestPlan <= parkingPlanID

(* While the service is not ready nothing of a session is left.            *)
ClosedIsClear ==
  lifecycle # "ready" =>
    /\ lastCmd = NoCommand
    /\ parkingOwner = Unowned
    /\ ~parkingStopping
    /\ plan = NoPlan
    /\ applied = NotApplied
    /\ attempted = 0
    /\ ~applyFault

(* The ages that the service takes, unless they passed their horizon, are  *)
(* behind the true ones by no more than the wall clock was set back.       *)
AgesCoherent ==
  /\ setBack <= MaxSetBack
  /\ plan.lag \in 0..PlanTimeout
  /\ plan.age < Horizon(PlanTimeout) => plan.mono <= plan.age + plan.lag + plan.back
  /\ ego.age < Horizon(TelemetryTimeout) => ego.mono <= ego.age + ego.back

(* Together with the three properties above and their types these are      *)
(* inductive.                                                              *)
ActuatorInv ==
  /\ TypeOK
  /\ OwnershipCoherent
  /\ PlanBelongsToArm
  /\ StopReceiptSound
  /\ IdsAreIssued
  /\ ClosedIsClear
  /\ parkingOwner = Parking => lastCmd.id > 0
  /\ lifecycle = "ready" /\ ~applyFault => device = applied.ctl

(* After a restart nothing drives the car before a new command: Close      *)
(* leaves no command that the next run loop could replay, and no device    *)
(* with an open throttle.                                                  *)
NoDriveWithoutCommand ==
  lifecycle = "ready" /\ lastCmd.id = 0 => device.throttle = 0 /\ device.steer = 0

(* A setpoint plan keeps the throttle open for no longer than its timeout  *)
(* plus what the wall clock was set back since it was accepted: once the   *)
(* ticker has fired in the current clock unit and the device took the      *)
(* report, an open throttle under parking ownership means that a plan is   *)
(* held whose observation is, in true time, no older than that.            *)
NoExpiredPlanDrives ==
  (/\ parkingOwner = Parking
   /\ applied.cmd = lastCmd.id
   /\ applied.ctl.throttle > 0
   /\ ~tickDue /\ ~applyFault)
  => plan.held /\ plan.mono <= PlanTimeout + plan.back

(* A tick whose report the device took.                                    *)
Wrote == tickDue /\ ~tickDue' /\ ~applyFault'

(* Parking control applies the handbrake only on a sample that shows a     *)
(* speed at or below the hold speed and that was received, in true time,   *)
(* no longer ago than the telemetry timeout plus what the wall clock was   *)
(* set back since.                                                         *)
HandbrakeNeedsLowSpeed ==
  [][Wrote /\ parkingOwner = Parking /\ applied'.ctl.handbrake
       => /\ ego.known /\ ego.speed <= HoldSpeed
          /\ ego.mono <= TelemetryTimeout + ego.back]_vars

(* The plans that reach the device only get newer: whatever receipts of    *)
(* stops and direct commands lie between, across re-arms and a restart of  *)
(* the service, no receipt names a plan older than one that was applied.   *)
AppliedPlansAdvance ==
  [][Wrote /\ applied'.plan > 0 => applied'.plan >= newestPlan]_vars

(* A requested stop stays in force until another command is accepted or    *)
(* the service closes, and no plan is accepted meanwhile.                  *)
StopPersists ==
  [][parkingStopping /\ lastCmd'.id = lastCmd.id
       => parkingStopping' /\ ~plan'.held]_vars

(* A requested stop reaches the device unless a later command or Close     *)
(* supersedes it.                                                          *)
StopReachesDevice ==
  parkingStopping
    ~> \/ ~parkingStopping
       \/ applied.cmd = lastCmd.id /\ IsStop(device)

(* A direct command's throttle that is not renewed is released after the   *)
(* stale timeout (TestResolveTargetTimesOutToNeutralByDefault).            *)
DirectDriveExpires ==
  (/\ parkingOwner = Unowned
   /\ applied.cmd = lastCmd.id
   /\ applied.ctl.throttle > 0
   /\ ~tickDue /\ ~applyFault)
  => lastCmd.mono <= StaleTimeout
=============================================================================
