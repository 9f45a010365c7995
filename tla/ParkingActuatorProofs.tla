------------------------ MODULE ParkingActuatorProofs ------------------------
(* Theorems about ParkingActuator, for every value of its constants.       *)
EXTENDS ActuatorRefinement, TLAPS

-----------------------------------------------------------------------------
(* The control algebra stays in range, whatever the tuning.                *)
LEMMA GainRange ==
  ASSUME NEW x \in Int, NEW gain \in Nat
  PROVE  /\ Clamp((x * gain) \div 100, -100, 100) \in -100..100
         /\ Clamp((x * gain) \div 100, 0, 100) \in 0..100
<1> DEFINE product == x * gain
           n       == product \div 100
<1>1. product \in Int
  OBVIOUS
<1> HIDE DEF product
<1>2. n \in Int
  BY <1>1
<1> HIDE DEF n
<1>3. Clamp(n, -100, 100) \in -100..100 /\ Clamp(n, 0, 100) \in 0..100
  BY <1>2 DEF Clamp
<1> QED BY <1>3 DEF n, product

(* The safety control is a control.                                        *)
LEMMA ParkingSafetyType ==
  ASSUME NEW c \in Control, NEW speed \in Int
  PROVE  ParkingSafety(c, speed) \in Control
BY TuningAssumption DEF ParkingSafety, LimiterBrake, Overspeed, Control

(* Live tuning turns a control into a control.                             *)
LEMMA LiveTuningType ==
  ASSUME NEW c \in Control, NEW known \in BOOLEAN, NEW speed \in Int
  PROVE  LiveTuning(c, known, speed) \in Control
<1> DEFINE steer    == Clamp((c.steer * SteeringGain) \div 100, -100, 100)
           gained   == Clamp((c.throttle * ThrottleGain) \div 100, 0, 100)
<1>1. steer \in -100..100 /\ gained \in 0..100
  <2>1. c.steer \in Int /\ c.throttle \in Int
    BY DEF Control
  <2>2. SteeringGain \in Nat /\ ThrottleGain \in Nat
    BY TuningAssumption
  <2> QED BY <2>1, <2>2, GainRange, ZenonT(30)
<1>2. TunedThrottle(c.throttle) \in 0..100
  <2> HIDE DEF gained
  <2>1. TunedThrottle(c.throttle) = IF gained > 0 /\ gained < ThrottleFloor
                                    THEN ThrottleFloor ELSE gained
    BY DEF TunedThrottle, gained
  <2> QED BY <1>1, <2>1, TuningAssumption
<1>3. TunedBrake(c.brake) \in 0..100
  BY DEF TunedBrake, Control
<1> HIDE DEF steer
<1> DEFINE limited ==
      [steer     |-> steer,
       throttle  |-> IF known /\ Overspeed(speed) THEN 0 ELSE TunedThrottle(c.throttle),
       brake     |-> IF known THEN LimiterBrake(TunedBrake(c.brake), speed)
                              ELSE TunedBrake(c.brake),
       handbrake |-> c.handbrake]
<1>4. limited \in Control
  BY <1>1, <1>2, <1>3, TuningAssumption DEF Control, LimiterBrake
<1> DEFINE resolved == ResolveConflict(limited)
<1>5. LiveTuning(c, known, speed) =
        IF known /\ speed <= ReverseLockout /\ resolved.brake > 0
        THEN [steer |-> resolved.steer, throttle |-> resolved.throttle,
              brake |-> 0, handbrake |-> TRUE]
        ELSE resolved
  BY DEF LiveTuning, steer
<1> HIDE DEF limited
<1>6. resolved \in Control
  BY <1>4 DEF ResolveConflict, Control
<1> HIDE DEF resolved
<1> QED BY <1>5, <1>6 DEF Control
(* The control of a safety stop stops.                                     *)
LEMMA StopControlStops ==
  ASSUME TypeOK, NEW seen \in BOOLEAN
  PROVE  StopControl(seen) \in Control /\ IsStop(StopControl(seen))
<1> DEFINE c == IF seen /\ ego.speed <= HoldSpeed
                THEN Brakes(0, TRUE) ELSE Brakes(StopBrake, FALSE)
           speed == IF seen THEN ego.speed ELSE 0
<1>1. speed \in Nat
  BY DEF TypeOK
<1>2. c.steer = 0 /\ c.throttle = 0
      /\ \/ c.handbrake = TRUE /\ c.brake = 0 /\ speed <= HoldSpeed
         \/ c.handbrake = FALSE /\ c.brake = StopBrake
  BY DEF Brakes
<1>3. c \in Control
  BY ActuatorAssumption DEF Brakes, Control
<1>4. StopControl(seen) = ParkingSafety(c, speed)
  BY DEF StopControl
<1> HIDE DEF c, speed
<1>5. ParkingSafety(c, speed) \in Control
  BY <1>1, <1>3, ParkingSafetyType
<1>6. IsStop(ParkingSafety(c, speed))
  BY <1>1, <1>2, <1>3, TuningAssumption, ActuatorAssumption, HoldBelowLimiter
     DEF IsStop, ParkingSafety, LimiterBrake, Overspeed
<1> QED BY <1>4, <1>5, <1>6

(* An output of the feedback controller becomes a control.                 *)
LEMMA FeedbackControlType ==
  ASSUME TypeOK, NEW out \in FeedbackOutputs
  PROVE  FeedbackControl(out) \in Control
<1> DEFINE c == [steer     |-> out.steer,
                 throttle  |-> IF out.effort > 0 THEN out.effort ELSE 0,
                 brake     |-> IF out.effort < 0 THEN -out.effort ELSE 0,
                 handbrake |-> out.hold]
<1>1. out \in Output
  BY ActuatorAssumption DEF FeedbackOutputs
<1>2. c \in Control
  BY <1>1 DEF Output, Control
<1>3. FeedbackControl(out) = ParkingSafety(c, ego.speed)
  BY DEF FeedbackControl
<1>4. ego.speed \in Int
  BY DEF TypeOK
<1> HIDE DEF c
<1> QED BY <1>2, <1>3, <1>4, ParkingSafetyType

(* A direct command becomes a control.                                     *)
LEMMA DirectControlType ==
  ASSUME TypeOK
  PROVE  DirectControl \in Control
<1> DEFINE c == IF lastCmd.enabled THEN lastCmd.ctl
                ELSE Brakes(0, lastCmd.ctl.handbrake)
<1>1. Neutral \in Control
  BY DEF Neutral, Brakes, Control
<1>2. c \in Control
  BY DEF TypeOK, Brakes, Control
<1>3. DirectControl = IF CommandExpired THEN Neutral
                      ELSE LiveTuning(c, ego.known, ego.speed)
  BY DEF DirectControl
<1>4. ego.known \in BOOLEAN /\ ego.speed \in Int
  BY DEF TypeOK
<1> HIDE DEF c
<1> QED BY <1>1, <1>2, <1>3, <1>4, LiveTuningType

(* The speed a tick works with is a speed.                                 *)
LEMMA SpeedSeenType ==
  ASSUME TypeOK
  PROVE  SpeedSeen \subseteq BOOLEAN
BY DEF SpeedSeen, SpeedKnown, TelemetryTimely, TypeOK

-----------------------------------------------------------------------------
(* What one write does: the receipt and the device keep their types.       *)
LEMMA WriteType ==
  ASSUME TypeOK, NEW ctl \in Control, NEW planID \in Nat, NEW enabled \in BOOLEAN,
         Write(ctl, planID, enabled)
  PROVE  /\ applied' \in [ctl: Control, cmd: Nat, plan: Nat, enabled: BOOLEAN]
         /\ attempted' \in Nat
         /\ applyFault' \in BOOLEAN
         /\ device' \in Control
         /\ newestPlan' \in Nat
<1> HIDE DEF Control
<1>1. lastCmd.id \in Nat
  BY DEF TypeOK
<1>2. CASE device' = ctl /\ applyFault' = FALSE
            /\ applied' = [ctl |-> ctl, cmd |-> lastCmd.id, plan |-> planID,
                           enabled |-> enabled]
            /\ newestPlan' = IF planID > newestPlan THEN planID ELSE newestPlan
  BY <1>1, <1>2 DEF Write, TypeOK
<1>3. CASE device' \in {device, ctl} /\ applyFault' = TRUE /\ applied' = applied
            /\ newestPlan' = newestPlan
  BY <1>1, <1>3 DEF Write, TypeOK
<1> QED BY <1>2, <1>3 DEF Write

(* A tick keeps every type.                                                *)
LEMMA StepType ==
  ASSUME TypeOK, Step
  PROVE  TypeOK'
<1> DEFINE DeviceTypes ==
      /\ applied' \in [ctl: Control, cmd: Nat, plan: Nat, enabled: BOOLEAN]
      /\ attempted' \in Nat
      /\ applyFault' \in BOOLEAN
      /\ device' \in Control
      /\ newestPlan' \in Nat
<1>1. ASSUME Ticked, DeviceTypes, lastTick' \in [set: BOOLEAN, age: Int]
      PROVE  TypeOK'
  BY <1>1 DEF TypeOK, Ticked, sessionVars
<1>2. CASE StepDirect
  <2>1. (lastCmd.enabled /\ ~CommandExpired) \in BOOLEAN
    BY DEF TypeOK, CommandExpired
  <2>2. DeviceTypes
    BY <1>2, <2>1, DirectControlType, WriteType DEF StepDirect
  <2> QED BY <1>1, <1>2, <2>2 DEF StepDirect, TypeOK
<1>3. CASE StepStop
  <2>1. PICK seen \in SpeedSeen : Write(StopControl(seen), 0, TRUE)
    BY <1>3 DEF StepStop
  <2>2. StopControl(seen) \in Control
    BY SpeedSeenType, StopControlStops
  <2>3. DeviceTypes
    BY <2>1, <2>2, WriteType
  <2> QED BY <1>1, <1>3, <2>3 DEF StepStop, TypeOK
<1>4. CASE StepFeedback
  <2>1. PICK out \in FeedbackOutputs : Write(FeedbackControl(out), parkingPlanID, TRUE)
    BY <1>4 DEF StepFeedback
  <2>2. FeedbackControl(out) \in Control /\ parkingPlanID \in Nat
    BY FeedbackControlType DEF TypeOK
  <2>3. DeviceTypes
    BY <2>1, <2>2, WriteType
  <2> QED BY <1>1, <1>4, <2>3 DEF StepFeedback
<1>5. CASE StepFailSafe
  <2>1. PICK seen \in SpeedSeen : Write(StopControl(seen), parkingPlanID, TRUE)
    BY <1>5 DEF StepFailSafe
  <2>2. StopControl(seen) \in Control /\ parkingPlanID \in Nat
    BY SpeedSeenType, StopControlStops DEF TypeOK
  <2>3. DeviceTypes
    BY <2>1, <2>2, WriteType
  <2> QED BY <1>1, <1>5, <2>3 DEF StepFailSafe, NoTick
<1> QED BY <1>2, <1>3, <1>4, <1>5 DEF Step

(* The three records that age keep their types.                            *)
LEMMA AgedCmdType ==
  ASSUME NEW r \in [id: Nat, enabled: BOOLEAN, owner: Owners, ctl: Control,
           age: Int, mono: Nat],
         NEW limit \in Nat
  PROVE  Aged(r, limit) \in [id: Nat, enabled: BOOLEAN, owner: Owners, ctl: Control,
           age: Int, mono: Nat]
<1> DEFINE r1 == [r EXCEPT !.age = Older(@, Horizon(limit))]
<1> DEFINE most == limit + MaxSetBack + 1
<1>1. Older(r.age, Horizon(limit)) \in Int /\ Older(r.mono, most) \in Nat
  <2>1. r.age \in Int /\ r.mono \in Nat
    OBVIOUS
  <2> QED BY <2>1 DEF Older
<1>2. r1 \in [id: Nat, enabled: BOOLEAN, owner: Owners, ctl: Control,
           age: Int, mono: Nat]
  BY <1>1
<1>3. r1.mono = r.mono
  OBVIOUS
<1>4. Aged(r, limit) = [r1 EXCEPT !.mono = Older(@, most)]
  BY DEF Aged
<1> HIDE DEF r1, most
<1>5. [r1 EXCEPT !.mono = Older(@, most)] \in [id: Nat, enabled: BOOLEAN, owner: Owners, ctl: Control,
           age: Int, mono: Nat]
  BY <1>1, <1>2, <1>3
<1> QED BY <1>4, <1>5

(* ... of a plan, ...                                                      *)
LEMMA AgedPlanType ==
  ASSUME NEW r \in [held: BOOLEAN, age: Int, lag: Int, mono: Nat, back: Nat, arm: Nat],
         NEW limit \in Nat
  PROVE  Aged(r, limit) \in [held: BOOLEAN, age: Int, lag: Int, mono: Nat, back: Nat, arm: Nat]
<1> DEFINE r1 == [r EXCEPT !.age = Older(@, Horizon(limit))]
<1> DEFINE most == limit + MaxSetBack + 1
<1>1. Older(r.age, Horizon(limit)) \in Int /\ Older(r.mono, most) \in Nat
  <2>1. r.age \in Int /\ r.mono \in Nat
    OBVIOUS
  <2> QED BY <2>1 DEF Older
<1>2. r1 \in [held: BOOLEAN, age: Int, lag: Int, mono: Nat, back: Nat, arm: Nat]
  BY <1>1
<1>3. r1.mono = r.mono
  OBVIOUS
<1>4. Aged(r, limit) = [r1 EXCEPT !.mono = Older(@, most)]
  BY DEF Aged
<1> HIDE DEF r1, most
<1>5. [r1 EXCEPT !.mono = Older(@, most)] \in [held: BOOLEAN, age: Int, lag: Int, mono: Nat, back: Nat, arm: Nat]
  BY <1>1, <1>2, <1>3
<1> QED BY <1>4, <1>5

(* ... and of a telemetry sample.                                          *)
LEMMA AgedEgoType ==
  ASSUME NEW r \in [known: BOOLEAN, age: Int, lag: Int, mono: Nat, back: Nat,
           speed: Nat, valid: BOOLEAN, matches: BOOLEAN],
         NEW limit \in Nat
  PROVE  Aged(r, limit) \in [known: BOOLEAN, age: Int, lag: Int, mono: Nat, back: Nat,
           speed: Nat, valid: BOOLEAN, matches: BOOLEAN]
<1> DEFINE r1 == [r EXCEPT !.age = Older(@, Horizon(limit))]
<1> DEFINE most == limit + MaxSetBack + 1
<1>1. Older(r.age, Horizon(limit)) \in Int /\ Older(r.mono, most) \in Nat
  <2>1. r.age \in Int /\ r.mono \in Nat
    OBVIOUS
  <2> QED BY <2>1 DEF Older
<1>2. r1 \in [known: BOOLEAN, age: Int, lag: Int, mono: Nat, back: Nat,
           speed: Nat, valid: BOOLEAN, matches: BOOLEAN]
  BY <1>1
<1>3. r1.mono = r.mono
  OBVIOUS
<1>4. Aged(r, limit) = [r1 EXCEPT !.mono = Older(@, most)]
  BY DEF Aged
<1> HIDE DEF r1, most
<1>5. [r1 EXCEPT !.mono = Older(@, most)] \in [known: BOOLEAN, age: Int, lag: Int, mono: Nat, back: Nat,
           speed: Nat, valid: BOOLEAN, matches: BOOLEAN]
  BY <1>1, <1>2, <1>3
<1> QED BY <1>4, <1>5

(* An adjusted age is an age.                                              *)
LEMMA ShiftedType ==
  ASSUME TypeOK, NEW age \in Int, NEW d \in Int, NEW limit \in Nat
  PROVE  Shifted(age, d, limit) \in Int
<1>1. setBack \in Nat /\ MaxSetBack \in Nat
  BY ActuatorAssumption DEF TypeOK
<1> QED BY <1>1 DEF Shifted, Horizon

(* The absent command, plan, sample and tick are of their types.           *)
LEMMA NullTypes ==
  /\ Neutral \in Control
  /\ NoCommand \in [id: Nat, enabled: BOOLEAN, owner: Owners, ctl: Control,
                    age: Int, mono: Nat]
  /\ NoPlan \in [held: BOOLEAN, age: Int, lag: Int, mono: Nat, back: Nat, arm: Nat]
  /\ NoEgo \in [known: BOOLEAN, age: Int, lag: Int, mono: Nat, back: Nat,
                speed: Nat, valid: BOOLEAN, matches: BOOLEAN]
  /\ NotApplied \in [ctl: Control, cmd: Nat, plan: Nat, enabled: BOOLEAN]
  /\ NoTick \in [set: BOOLEAN, age: Int]
<1>1. Neutral \in Control
  BY DEF Neutral, Brakes, Control
<1>2. Unowned \in Owners
  BY DEF Owners
<1> HIDE DEF Control
<1> QED BY <1>1, <1>2 DEF NoCommand, NoPlan, NoEgo, NotApplied, NoTick

(* The service starts with its types.                                      *)
LEMMA TypeInit == Init => TypeOK
<1> SUFFICES ASSUME Init PROVE TypeOK
  OBVIOUS
<1>1. /\ parkingOwner \in {Unowned, Parking}
      /\ lastTick \in [set: BOOLEAN, age: Int]
      /\ lifecycle \in {"down", "starting", "failed", "ready", "draining"}
  BY DEF Init, NoTick
<1>2. /\ nextCommandID \in Nat /\ parkingPlanID \in Nat /\ nextParkingPlanID \in Nat
      /\ attempted \in Nat /\ newestPlan \in Nat /\ setBack \in Nat
  BY DEF Init
<1>3. /\ parkingStopping \in BOOLEAN /\ applyFault \in BOOLEAN /\ tickDue \in BOOLEAN
  BY DEF Init
<1>4. lastCmd = NoCommand /\ plan = NoPlan /\ ego = NoEgo /\ applied = NotApplied
      /\ device = Neutral
  BY DEF Init
<1> QED BY <1>1, <1>2, <1>3, <1>4, NullTypes, Zenon DEF TypeOK

(* Every step keeps them.                                                  *)
LEMMA TypeNext == TypeOK /\ [Next]_vars => TypeOK'
<1> SUFFICES ASSUME TypeOK, [Next]_vars PROVE TypeOK'
  OBVIOUS
<1> USE DEF sessionVars, planVars, deviceVars, clockVars
<1>1. CASE StartBegin
  BY <1>1 DEF StartBegin, TypeOK
<1>2. CASE StartReady
  BY NullTypes, <1>2 DEF StartReady, TypeOK
<1>3. CASE StartFails
  BY <1>3 DEF StartFails, TypeOK
<1>4. CASE CloseClear
  BY NullTypes, <1>4 DEF CloseClear, TypeOK
<1>5. CASE CloseDevice
  BY NullTypes, <1>5 DEF CloseDevice, TypeOK
<1>6. ASSUME NEW req \in Requests, Submit(req) PROVE TypeOK'
  <2>1. req \in CommandRequest
    BY ActuatorAssumption
  <2>2. Received(req) \in [id: Nat, enabled: BOOLEAN, owner: Owners, ctl: Control,
                           age: Int, mono: Nat]
    BY <2>1 DEF Received, CommandRequest, TypeOK
  <2>3. parkingOwner' \in {Unowned, Parking}
    BY <1>6 DEF Submit, TypeOK
  <2>4. plan' \in [held: BOOLEAN, age: Int, lag: Int, mono: Nat, back: Nat, arm: Nat]
    BY NullTypes, <1>6 DEF Submit, ResetParkingControl
  <2>5. lastCmd' \in [id: Nat, enabled: BOOLEAN, owner: Owners, ctl: Control,
                      age: Int, mono: Nat]
    BY <1>6, <2>2 DEF Submit
  <2>6. /\ parkingStopping' = FALSE
        /\ nextCommandID' \in Nat
        /\ lastTick' \in [set: BOOLEAN, age: Int]
        /\ UNCHANGED <<lifecycle, parkingPlanID, nextParkingPlanID, ego, applied,
                       attempted, applyFault, device, newestPlan, tickDue, setBack>>
    BY <1>6, NullTypes DEF Submit, ResetParkingControl, TypeOK
  <2> QED BY <2>3, <2>4, <2>5, <2>6 DEF TypeOK
<1>7. CASE RequestParkingSafetyStop
  <2>1. lastCmd' \in [id: Nat, enabled: BOOLEAN, owner: Owners, ctl: Control,
                      age: Int, mono: Nat]
    BY NullTypes, <1>7 DEF RequestParkingSafetyStop, Received, TypeOK, Owners
  <2> QED BY NullTypes, <1>7, <2>1 DEF RequestParkingSafetyStop, ResetParkingControl, TypeOK
<1>8. ASSUME NEW lag \in ObservationAges, SubmitParkingSetpointPlan(lag) PROVE TypeOK'
  <2>1. lag \in Nat
    BY <1>8, ActuatorAssumption DEF SubmitParkingSetpointPlan, ObservationNewer
  <2>2. plan' \in [held: BOOLEAN, age: Int, lag: Int, mono: Nat, back: Nat, arm: Nat]
    BY <1>8, <2>1 DEF SubmitParkingSetpointPlan, Accepted, TypeOK
  <2> QED BY <1>8, <2>2 DEF SubmitParkingSetpointPlan, TypeOK
<1>9. CASE Step
  BY <1>9, StepType
<1>10. ASSUME NEW s \in Samples, ReceiveTelemetry(s) PROVE TypeOK'
  <2>1. s \in EgoSample
    BY ActuatorAssumption
  <2> QED BY <1>10, <2>1 DEF ReceiveTelemetry, EgoSample, TypeOK
<1>11. CASE Elapse
  <2>1. lastCmd' \in [id: Nat, enabled: BOOLEAN, owner: Owners, ctl: Control,
                      age: Int, mono: Nat]
    BY <1>11, AgedCmdType, ActuatorAssumption DEF Elapse, TypeOK
  <2>2. plan' \in [held: BOOLEAN, age: Int, lag: Int, mono: Nat, back: Nat, arm: Nat]
    BY <1>11, AgedPlanType, ActuatorAssumption DEF Elapse, TypeOK
  <2>3. lastTick' \in [set: BOOLEAN, age: Int]
    BY <1>11, ActuatorAssumption DEF Elapse, Older, TypeOK
  <2>4. ego' \in [known: BOOLEAN, age: Int, lag: Int, mono: Nat, back: Nat,
                  speed: Nat, valid: BOOLEAN, matches: BOOLEAN]
    BY <1>11, AgedEgoType, ActuatorAssumption DEF Elapse, TypeOK
  <2> QED BY <1>11, <2>1, <2>2, <2>3, <2>4 DEF Elapse, TypeOK
<1>12. ASSUME NEW d \in ClockSteps, ClockStep(d) PROVE TypeOK'
  <2>1. d \in Int
    BY ActuatorAssumption
  <2>2. Back(d) \in Nat
    BY <2>1 DEF Back
  <2>3. /\ Shifted(lastCmd.age, d, StaleTimeout) \in Int
        /\ Shifted(plan.age, d, PlanTimeout) \in Int
        /\ Shifted(ego.age, d, TelemetryTimeout) \in Int
        /\ Shifted(lastTick.age, d, MaxDT) \in Int
    BY <2>1, ShiftedType, ActuatorAssumption DEF TypeOK
  <2> HIDE DEF Control
  <2>4. lastCmd' \in [id: Nat, enabled: BOOLEAN, owner: Owners, ctl: Control,
                      age: Int, mono: Nat]
    BY <1>12, <2>3 DEF ClockStep, TypeOK
  <2>5. plan' \in [held: BOOLEAN, age: Int, lag: Int, mono: Nat, back: Nat, arm: Nat]
    <3>1. CASE plan.held
      <4>1. plan.age \in Int /\ plan.back \in Nat
        BY DEF TypeOK
      <4>2. plan.back + Back(d) \in Nat
        BY <2>2, <4>1
      <4>3. plan' = [plan EXCEPT !.age = Shifted(plan.age, d, PlanTimeout),
                                 !.back = plan.back + Back(d)]
        BY <1>12, <3>1 DEF ClockStep
      <4> QED BY <2>3, <4>2, <4>3 DEF TypeOK
    <3> QED BY <1>12, <3>1 DEF ClockStep, TypeOK
  <2>6. ego' \in [known: BOOLEAN, age: Int, lag: Int, mono: Nat, back: Nat,
                  speed: Nat, valid: BOOLEAN, matches: BOOLEAN]
    <3>1. CASE ego.known
      <4>1. ego.age \in Int /\ ego.back \in Nat
        BY DEF TypeOK
      <4>2. ego.back + Back(d) \in Nat
        BY <2>2, <4>1
      <4>3. ego' = [ego EXCEPT !.age = Shifted(ego.age, d, TelemetryTimeout),
                               !.back = ego.back + Back(d)]
        BY <1>12, <3>1 DEF ClockStep
      <4> QED BY <2>3, <4>2, <4>3 DEF TypeOK
    <3> QED BY <1>12, <3>1 DEF ClockStep, TypeOK
  <2>7. lastTick' \in [set: BOOLEAN, age: Int]
    BY <1>12, <2>3 DEF ClockStep, TypeOK
  <2>8. setBack' \in Nat
    BY <1>12, <2>2 DEF ClockStep, TypeOK
  <2> QED BY <1>12, <2>4, <2>5, <2>6, <2>7, <2>8 DEF ClockStep, TypeOK
<1>13. CASE UNCHANGED vars
  BY <1>13 DEF vars, TypeOK
<1> QED
  BY <1>1, <1>2, <1>3, <1>4, <1>5, <1>6, <1>7, <1>8, <1>9, <1>10, <1>11, <1>12,
     <1>13 DEF Next

(* Every type the service keeps its state in is right, for any timeouts,   *)
(* tuning, plans, samples and clock adjustments.                           *)
THEOREM TypeCorrect == Spec => []TypeOK
BY TypeInit, TypeNext, PTL DEF Spec

-----------------------------------------------------------------------------
(* The inductive invariant.                                                *)
LEMMA InvInit == Init => ActuatorInv
<1> SUFFICES ASSUME Init PROVE ActuatorInv
  OBVIOUS
<1>1. TypeOK
  BY TypeInit
<1>2. /\ lifecycle = "down" /\ parkingOwner # Parking /\ ~parkingStopping
      /\ ~lastCmd.enabled /\ lastCmd.id = 0 /\ ~plan.held
      /\ applied.cmd = 0 /\ applied.plan = 0
  BY DEF Init, NoCommand, NoPlan, NotApplied, Unowned, Parking
<1>3. nextCommandID = 0 /\ parkingPlanID = 0 /\ nextParkingPlanID = 0 /\ newestPlan = 0
  BY DEF Init
<1>4. OwnershipCoherent /\ PlanBelongsToArm /\ StopReceiptSound
  BY <1>2 DEF OwnershipCoherent, PlanBelongsToArm, StopReceiptSound
<1>5. IdsAreIssued
  BY <1>2, <1>3 DEF IdsAreIssued
<1>6. ClosedIsClear
  BY DEF Init, ClosedIsClear
<1> QED BY <1>1, <1>2, <1>4, <1>5, <1>6 DEF ActuatorInv

(* What a tick does to the invariant, from what its write may have done.   *)
LEMMA StepInv ==
  ASSUME ActuatorInv, Step, TypeOK'
  PROVE  ActuatorInv'
<1> USE DEF sessionVars
<1>1. /\ lifecycle = "ready"
      /\ UNCHANGED <<lifecycle, parkingOwner, parkingStopping, lastCmd, nextCommandID,
                     plan, parkingPlanID, nextParkingPlanID>>
  BY DEF Step, StepDirect, StepStop, StepFeedback, StepFailSafe, Ticked
<1>2. (OwnershipCoherent /\ PlanBelongsToArm /\ ClosedIsClear)'
      /\ (parkingOwner = Parking => lastCmd.id > 0)'
  BY <1>1 DEF ActuatorInv, OwnershipCoherent, PlanBelongsToArm, ClosedIsClear
<1> DEFINE Put(ctl, planID) ==
      \/ device' = ctl /\ applied'.ctl = ctl /\ applied'.cmd = lastCmd.id
         /\ applied'.plan = planID
         /\ newestPlan' = IF planID > newestPlan THEN planID ELSE newestPlan
      \/ applyFault' = TRUE /\ applied' = applied /\ newestPlan' = newestPlan
    Stopped == parkingOwner = Parking /\ (parkingStopping \/ ~plan.held)
<1>3. ASSUME NEW ctl, NEW planID \in {0, parkingPlanID}, Put(ctl, planID),
             Stopped => IsStop(ctl)
      PROVE  ActuatorInv'
  <2>1. IdsAreIssued'
    BY <1>1, <1>3 DEF ActuatorInv, IdsAreIssued, TypeOK
  <2>2. (lifecycle = "ready" /\ ~applyFault => device = applied.ctl)'
    BY <1>3
  <2>3. StopReceiptSound'
    BY <1>1, <1>3 DEF ActuatorInv, StopReceiptSound
  <2> QED BY <1>2, <2>1, <2>2, <2>3 DEF ActuatorInv
<1>4. CASE StepDirect
  <2>1. Put(DirectControl, 0) /\ ~Stopped
    BY <1>4 DEF StepDirect, Write
  <2> QED BY <1>3, <2>1
<1>5. CASE StepStop
  <2>1. PICK seen \in SpeedSeen : Write(StopControl(seen), 0, TRUE)
    BY <1>5 DEF StepStop
  <2>2. IsStop(StopControl(seen))
    BY SpeedSeenType, StopControlStops DEF ActuatorInv
  <2>3. Put(StopControl(seen), 0)
    BY <2>1 DEF Write
  <2> QED BY <1>3, <2>2, <2>3
<1>6. CASE StepFeedback
  <2>1. PICK out \in FeedbackOutputs : Write(FeedbackControl(out), parkingPlanID, TRUE)
    BY <1>6 DEF StepFeedback
  <2>2. Put(FeedbackControl(out), parkingPlanID)
    BY <2>1 DEF Write
  <2>3. ~Stopped
    BY <1>6 DEF StepFeedback
  <2> QED BY <1>3, <2>2, <2>3
<1>7. CASE StepFailSafe
  <2>1. PICK seen \in SpeedSeen : Write(StopControl(seen), parkingPlanID, TRUE)
    BY <1>7 DEF StepFailSafe
  <2>2. Put(StopControl(seen), parkingPlanID)
    BY <2>1 DEF Write
  <2>3. ~Stopped
    BY <1>7 DEF StepFailSafe
  <2> QED BY <1>3, <2>2, <2>3
<1> QED BY <1>4, <1>5, <1>6, <1>7 DEF Step

(* Every step keeps the inductive invariant.                               *)
LEMMA InvNext == ActuatorInv /\ [Next]_vars => ActuatorInv'
<1> SUFFICES ASSUME ActuatorInv, [Next]_vars PROVE ActuatorInv'
  OBVIOUS
<1> USE DEF sessionVars, planVars, deviceVars, clockVars
<1>0. TypeOK'
  BY TypeNext DEF ActuatorInv
<1> DEFINE Owned == parkingOwner = Parking => lastCmd.id > 0
           OnDevice == lifecycle = "ready" /\ ~applyFault => device = applied.ctl
(* The session and the receipt are left alone.                             *)
<1>1. ASSUME lifecycle' # "ready" => lifecycle # "ready",
             UNCHANGED <<parkingOwner, parkingStopping, nextCommandID, lastCmd, plan,
                         parkingPlanID, nextParkingPlanID, applied, attempted,
                         applyFault, newestPlan>>,
             OnDevice', StopReceiptSound'
      PROVE  ActuatorInv'
  BY <1>0, <1>1 DEF ActuatorInv, OwnershipCoherent, PlanBelongsToArm, IdsAreIssued,
     ClosedIsClear
<1>2. CASE StartBegin \/ StartFails
  BY <1>1, <1>2 DEF StartBegin, StartFails, ActuatorInv, StopReceiptSound
<1>3. CASE StartReady
  <2>1. OnDevice'
    BY <1>3 DEF StartReady, ActuatorInv, ClosedIsClear, NotApplied
  <2>2. StopReceiptSound'
    BY <1>3 DEF StartReady, ActuatorInv, ClosedIsClear, StopReceiptSound, Unowned, Parking
  <2> QED BY <1>1, <1>3, <2>1, <2>2 DEF StartReady
<1>4. CASE CloseDevice
  <2>1. OnDevice'
    BY <1>4 DEF CloseDevice
  <2>2. StopReceiptSound'
    BY <1>4 DEF CloseDevice, ActuatorInv, ClosedIsClear, StopReceiptSound, Unowned, Parking
  <2> QED BY <1>1, <1>4, <2>1, <2>2 DEF CloseDevice
<1>5. CASE CloseClear
  <2>1. /\ lifecycle' # "ready" /\ parkingOwner' # Parking /\ ~parkingStopping'
        /\ ~lastCmd'.enabled /\ lastCmd'.id = 0 /\ ~plan'.held
        /\ applied'.cmd = 0 /\ applied'.plan = 0
    BY <1>5 DEF CloseClear, NoCommand, NoPlan, NotApplied, Unowned, Parking
  <2>2. IdsAreIssued'
    BY <1>5, <2>1 DEF CloseClear, IdsAreIssued, ActuatorInv, TypeOK
  <2>3. ClosedIsClear'
    BY <1>5 DEF CloseClear, ClosedIsClear
  <2>4. (OwnershipCoherent /\ PlanBelongsToArm /\ StopReceiptSound /\ Owned /\ OnDevice)'
    BY <2>1 DEF OwnershipCoherent, PlanBelongsToArm, StopReceiptSound
  <2> QED BY <1>0, <2>2, <2>3, <2>4 DEF ActuatorInv
(* A command is accepted.                                                  *)
<1>6. ASSUME lifecycle = "ready",
             NEW cmd, lastCmd' = cmd, cmd.id = nextCommandID + 1,
             nextCommandID' = nextCommandID + 1,
             plan' = NoPlan,
             parkingOwner' = Parking <=> cmd.enabled /\ cmd.owner = Parking,
             parkingOwner' = Parking => cmd.ctl = Neutral,
             parkingStopping' => parkingOwner' = Parking,
             UNCHANGED <<lifecycle, parkingPlanID, nextParkingPlanID, applied, attempted,
                         applyFault, device, newestPlan>>
      PROVE  ActuatorInv'
  <2>1. ~plan'.held /\ applied'.cmd < lastCmd'.id
    BY <1>6 DEF NoPlan, ActuatorInv, IdsAreIssued, TypeOK
  <2>2. IdsAreIssued'
    BY <1>6, <2>1 DEF IdsAreIssued, ActuatorInv, TypeOK
  <2>3. (OwnershipCoherent /\ PlanBelongsToArm /\ StopReceiptSound /\ ClosedIsClear)'
    BY <1>6, <2>1 DEF OwnershipCoherent, PlanBelongsToArm, StopReceiptSound,
       ClosedIsClear, ActuatorInv, TypeOK
  <2>4. (Owned /\ OnDevice)'
    BY <1>6 DEF ActuatorInv, TypeOK
  <2> QED BY <1>0, <2>2, <2>3, <2>4 DEF ActuatorInv
<1>7. ASSUME NEW req \in Requests, Submit(req) PROVE ActuatorInv'
  <2>1. req.enabled \in BOOLEAN
    BY ActuatorAssumption DEF CommandRequest
  <2>2. /\ lastCmd' = Received(req)
        /\ Received(req).id = nextCommandID + 1
        /\ Received(req).enabled = req.enabled
        /\ Received(req).owner = req.owner
        /\ Received(req).ctl = req.ctl
    BY <1>7 DEF Submit, Received
  <2>3. parkingOwner' = IF ~req.enabled THEN Unowned
                        ELSE IF req.owner = Parking THEN Parking ELSE parkingOwner
    BY <1>7 DEF Submit
  <2>4. Authorized(req)
    BY <1>7 DEF Submit
  <2>5. /\ parkingOwner' = Parking <=> req.enabled /\ req.owner = Parking
        /\ parkingOwner' = Parking => req.ctl = Neutral
    BY <2>1, <2>3, <2>4 DEF Authorized, ActuatorInv, TypeOK, Unowned, Parking
  <2> QED BY <1>6, <1>7, <2>2, <2>5 DEF Submit, ResetParkingControl
<1>8. CASE RequestParkingSafetyStop
  <2>1. /\ lastCmd'.id = nextCommandID + 1 /\ lastCmd'.enabled = TRUE
        /\ lastCmd'.owner = Parking /\ lastCmd'.ctl = Neutral
    BY <1>8 DEF RequestParkingSafetyStop, Received
  <2> QED BY <1>6, <1>8, <2>1 DEF RequestParkingSafetyStop, ResetParkingControl
<1>9. ASSUME NEW lag \in ObservationAges, SubmitParkingSetpointPlan(lag)
      PROVE  ActuatorInv'
  <2>1. plan'.held = TRUE /\ plan'.arm = lastCmd.id
    BY <1>9 DEF SubmitParkingSetpointPlan, Accepted
  <2>2. IdsAreIssued'
    BY <1>9 DEF SubmitParkingSetpointPlan, IdsAreIssued, ActuatorInv, TypeOK
  <2>3. (OwnershipCoherent /\ PlanBelongsToArm /\ StopReceiptSound /\ ClosedIsClear)'
    BY <1>9, <2>1 DEF SubmitParkingSetpointPlan, OwnershipCoherent, PlanBelongsToArm,
       StopReceiptSound, ClosedIsClear, ActuatorInv
  <2>4. (Owned /\ OnDevice)'
    BY <1>9 DEF SubmitParkingSetpointPlan, ActuatorInv
  <2> QED BY <1>0, <2>2, <2>3, <2>4 DEF ActuatorInv
<1>10. CASE Step
  BY <1>0, <1>10, StepInv
<1>11. ASSUME NEW s \in Samples, ReceiveTelemetry(s) PROVE ActuatorInv'
  BY <1>1, <1>11 DEF ReceiveTelemetry, ActuatorInv, StopReceiptSound
(* Time passes: only ages change.                                          *)
<1>12. ASSUME lastCmd' = lastCmd \/ lastCmd.id > 0,
              lastCmd'.id = lastCmd.id, lastCmd'.enabled = lastCmd.enabled,
              lastCmd'.owner = lastCmd.owner, lastCmd'.ctl = lastCmd.ctl,
              plan' = plan \/ plan.held,
              plan'.held = plan.held, plan'.arm = plan.arm,
              UNCHANGED <<lifecycle, parkingOwner, parkingStopping, nextCommandID,
                          parkingPlanID, nextParkingPlanID, applied, attempted,
                          applyFault, device, newestPlan>>
       PROVE  ActuatorInv'
  <2>1. (OwnershipCoherent /\ PlanBelongsToArm /\ StopReceiptSound /\ IdsAreIssued)'
    BY <1>12 DEF OwnershipCoherent, PlanBelongsToArm, StopReceiptSound, IdsAreIssued,
       ActuatorInv
  <2>2. ClosedIsClear'
    BY <1>12 DEF ClosedIsClear, ActuatorInv, NoCommand, NoPlan
  <2>3. (Owned /\ OnDevice)'
    BY <1>12 DEF ActuatorInv
  <2> QED BY <1>0, <2>1, <2>2, <2>3 DEF ActuatorInv
<1>13. CASE Elapse
  <2>1. /\ lastCmd'.id = lastCmd.id /\ lastCmd'.enabled = lastCmd.enabled
        /\ lastCmd'.owner = lastCmd.owner /\ lastCmd'.ctl = lastCmd.ctl
    BY <1>13 DEF Elapse, Aged, ActuatorInv, TypeOK
  <2>2. plan'.held = plan.held /\ plan'.arm = plan.arm
    BY <1>13 DEF Elapse, Aged, ActuatorInv, TypeOK
  <2> QED BY <1>12, <1>13, <2>1, <2>2 DEF Elapse
<1>14. ASSUME NEW d \in ClockSteps, ClockStep(d) PROVE ActuatorInv'
  <2>1. /\ lastCmd'.id = lastCmd.id /\ lastCmd'.enabled = lastCmd.enabled
        /\ lastCmd'.owner = lastCmd.owner /\ lastCmd'.ctl = lastCmd.ctl
    BY <1>14 DEF ClockStep, ActuatorInv, TypeOK
  <2>2. plan'.held = plan.held /\ plan'.arm = plan.arm
    BY <1>14 DEF ClockStep, ActuatorInv, TypeOK
  <2> QED BY <1>12, <1>14, <2>1, <2>2 DEF ClockStep
<1>15. CASE UNCHANGED vars
  BY <1>1, <1>15 DEF vars, ActuatorInv, StopReceiptSound
<1> QED
  BY <1>2, <1>3, <1>4, <1>5, <1>7, <1>8, <1>9, <1>10, <1>11, <1>13, <1>14, <1>15
     DEF Next

LEMMA InvCorrect == Spec => []ActuatorInv
BY InvInit, InvNext, PTL DEF Spec

(* Ownership, the current command and a safety stop never contradict each  *)
(* other (Submit, RequestParkingSafetyStop, Close).                        *)
THEOREM OwnershipIsCoherent == Spec => []OwnershipCoherent
<1>1. ActuatorInv => OwnershipCoherent
  BY DEF ActuatorInv
<1> QED BY <1>1, InvCorrect, PTL

(* No plan outlives the command under which it was accepted                *)
(* (resetParkingControlLocked in Submit and RequestParkingSafetyStop).     *)
THEOREM PlansBelongToTheirArm == Spec => []PlanBelongsToArm
<1>1. ActuatorInv => PlanBelongsToArm
  BY DEF ActuatorInv
<1> QED BY <1>1, InvCorrect, PTL

(* A receipt that carries the ID of an active stop, or of an arm without a *)
(* plan, is the receipt of a stop, and the device holds it: what           *)
(* confirmAppliedParkingStop concludes from State() is true.               *)
THEOREM StopReceiptsAreSound == Spec => []StopReceiptSound
<1>1. ActuatorInv => StopReceiptSound
  BY DEF ActuatorInv
<1> QED BY <1>1, InvCorrect, PTL

(* A requested stop stays in force under its command.                      *)
THEOREM StopsPersist == Spec => StopPersists
<1>1. ActuatorInv /\ ActuatorInv' /\ [Next]_vars
        => [parkingStopping /\ lastCmd'.id = lastCmd.id
             => parkingStopping' /\ ~plan'.held]_vars
  <2> SUFFICES ASSUME ActuatorInv, ActuatorInv', Next,
                      parkingStopping, lastCmd'.id = lastCmd.id
               PROVE  parkingStopping' /\ ~plan'.held
    BY DEF vars
  <2>1. parkingStopping' => ~plan'.held
    BY DEF ActuatorInv, PlanBelongsToArm
  <2>2. lastCmd.id > 0 /\ lastCmd.id <= nextCommandID /\ lastCmd.id \in Nat
    BY DEF ActuatorInv, OwnershipCoherent, IdsAreIssued, TypeOK
  <2>3. ~CloseClear
    BY <2>2 DEF CloseClear, NoCommand
  <2>4. ASSUME NEW req \in Requests, Submit(req) PROVE FALSE
    BY <2>2, <2>4 DEF Submit, Received, ActuatorInv, TypeOK
  <2>5. parkingStopping' = parkingStopping \/ RequestParkingSafetyStop
    BY <2>3, <2>4 DEF Next, StartBegin, StartReady, StartFails, CloseDevice, Step,
       StepDirect, StepStop, StepFeedback, StepFailSafe, Ticked, ReceiveTelemetry,
       Elapse, ClockStep, SubmitParkingSetpointPlan, sessionVars
  <2> QED BY <2>1, <2>5 DEF RequestParkingSafetyStop
<1> QED BY <1>1, InvCorrect, PTL DEF Spec, StopPersists

-----------------------------------------------------------------------------
(* The service implements the contract its callers rely on.                *)
LEMMA ContractInit == Init => Ownership!OwnershipInit
BY DEF Init, Ownership!OwnershipInit, Ownership!NoReceipt,
   OwnerMode, ReceiptKind, NoCommand, NoPlan, NotApplied

(* A tick of the service is a tick of the contract, or a stutter.          *)
LEMMA ContractStep ==
  ASSUME ActuatorInv, Step
  PROVE  Ownership!WriteOk \/ Ownership!WriteErr
<1> USE DEF sessionVars
<1>1. /\ lifecycle = "ready"
      /\ UNCHANGED <<lifecycle, parkingOwner, parkingStopping, lastCmd, nextCommandID,
                     plan>>
  BY DEF Step, StepDirect, StepStop, StepFeedback, StepFailSafe, Ticked
<1> DEFINE Stopped == parkingOwner = Parking /\ (parkingStopping \/ ~plan.held)
           Taken(ctl) == /\ applied'.ctl = ctl /\ applied'.cmd = lastCmd.id
                         /\ applyFault' = FALSE
           Refused == applyFault' = TRUE /\ applied' = applied
<1>2. ASSUME NEW ctl, Taken(ctl), attempted' = lastCmd.id, Stopped => IsStop(ctl)
      PROVE  Ownership!WriteOk
  <2> DEFINE kind == IF lastCmd.id = 0 THEN "none" ELSE IF IsStop(ctl) THEN "stop" ELSE "other"
  <2>1. kind \in Ownership!Kinds /\ ((kind = "none") = (lastCmd.id = 0))
    BY DEF Ownership!Kinds
  <2>2. OwnerMode # "off" /\ OwnerMode' = OwnerMode
    BY <1>1 DEF OwnerMode
  <2>3. OwnerMode = "stopping" \/ (OwnerMode = "parking" /\ ~plan.held) => kind = "stop"
    <3>1. lifecycle = "ready" /\ OwnerMode \in {"stopping", "parking"} => parkingOwner = Parking
      BY DEF OwnerMode, ActuatorInv, OwnershipCoherent
    <3>2. OwnerMode = "stopping" => parkingStopping
      BY DEF OwnerMode
    <3>3. parkingOwner = Parking => lastCmd.id # 0
      BY DEF ActuatorInv, TypeOK
    <3> QED BY <1>1, <1>2, <3>1, <3>2, <3>3
  <2>4. ReceiptKind' = kind
    BY <1>2 DEF ReceiptKind
  <2> HIDE DEF kind
  <2> QED BY <1>1, <1>2, <2>1, <2>2, <2>3, <2>4 DEF Ownership!WriteOk
<1>3. ASSUME Refused, attempted' = lastCmd.id PROVE Ownership!WriteErr
  BY <1>1, <1>3 DEF Ownership!WriteErr, OwnerMode, ReceiptKind
<1>4. CASE StepDirect
  <2>1. ~Stopped /\ attempted' = lastCmd.id /\ (Taken(DirectControl) \/ Refused)
    BY <1>4 DEF StepDirect, Write
  <2> QED BY <1>2, <1>3, <2>1
<1>5. CASE StepStop
  <2>1. PICK seen \in SpeedSeen : Write(StopControl(seen), 0, TRUE)
    BY <1>5 DEF StepStop
  <2>2. IsStop(StopControl(seen))
    BY SpeedSeenType, StopControlStops DEF ActuatorInv
  <2>3. attempted' = lastCmd.id /\ (Taken(StopControl(seen)) \/ Refused)
    BY <2>1 DEF Write
  <2> QED BY <1>2, <1>3, <2>2, <2>3
<1>6. CASE StepFeedback
  <2>1. PICK out \in FeedbackOutputs : Write(FeedbackControl(out), parkingPlanID, TRUE)
    BY <1>6 DEF StepFeedback
  <2>2. ~Stopped /\ attempted' = lastCmd.id /\ (Taken(FeedbackControl(out)) \/ Refused)
    BY <1>6, <2>1 DEF StepFeedback, Write
  <2> QED BY <1>2, <1>3, <2>2
<1>7. CASE StepFailSafe
  <2>1. PICK seen \in SpeedSeen : Write(StopControl(seen), parkingPlanID, TRUE)
    BY <1>7 DEF StepFailSafe
  <2>2. ~Stopped /\ attempted' = lastCmd.id /\ (Taken(StopControl(seen)) \/ Refused)
    BY <1>7, <2>1 DEF StepFailSafe, Write
  <2> QED BY <1>2, <1>3, <2>2
<1> QED BY <1>4, <1>5, <1>6, <1>7 DEF Step

LEMMA ContractNext ==
  ASSUME ActuatorInv, [Next]_vars
  PROVE  [Ownership!OwnershipNext]_(Ownership!ownershipVars)
<1> USE DEF sessionVars, planVars, deviceVars, clockVars
<1> DEFINE Still == UNCHANGED <<OwnerMode, lastCmd.id, nextCommandID, plan.held,
                               [cmd |-> applied.cmd, kind |-> ReceiptKind],
                               attempted, applyFault>>
(* Nothing the contract speaks of changes.                                 *)
<1>1. ASSUME OwnerMode' = OwnerMode, lastCmd'.id = lastCmd.id,
             plan'.held = plan.held,
             UNCHANGED <<nextCommandID, applied, attempted, applyFault>>
      PROVE  Still
  BY <1>1 DEF ReceiptKind
<1>2. Still => [Ownership!OwnershipNext]_(Ownership!ownershipVars)
  BY DEF Ownership!ownershipVars
<1>3. CASE StartBegin \/ StartFails \/ CloseDevice
  BY <1>1, <1>2, <1>3 DEF StartBegin, StartFails, CloseDevice, OwnerMode
<1>4. CASE StartReady
  <2>1. OwnerMode = "off" /\ OwnerMode' = "free"
    BY <1>4 DEF StartReady, OwnerMode, ActuatorInv, ClosedIsClear, Unowned, Parking
  <2>2. Ownership!Open
    BY <1>4, <2>1 DEF StartReady, Ownership!Open, ReceiptKind
  <2> QED BY <2>2 DEF Ownership!OwnershipNext
<1>5. CASE CloseClear /\ lifecycle = "ready"
  <2>1. OwnerMode # "off" /\ OwnerMode' = "off"
    BY <1>5 DEF CloseClear, OwnerMode
  <2>2. Ownership!Shut
    BY <1>5, <2>1 DEF CloseClear, Ownership!Shut,
       Ownership!NoReceipt, ReceiptKind, NoCommand, NoPlan, NotApplied
  <2> QED BY <2>2 DEF Ownership!OwnershipNext
<1>6. CASE CloseClear /\ lifecycle # "ready"
  <2>1. OwnerMode = "off" /\ OwnerMode' = "off"
    BY <1>6 DEF CloseClear, OwnerMode
  <2>2. /\ lastCmd' = lastCmd /\ plan' = plan
        /\ UNCHANGED <<nextCommandID, applied, attempted, applyFault>>
    BY <1>6 DEF CloseClear, ActuatorInv, ClosedIsClear, TypeOK
  <2> QED BY <1>1, <1>2, <2>1, <2>2
(* A command is accepted.                                                  *)
<1>7. ASSUME NEW next, lifecycle = "ready", OwnerMode' = next,
             lastCmd'.id = nextCommandID + 1, nextCommandID' = nextCommandID + 1,
             plan' = NoPlan, UNCHANGED <<applied, attempted, applyFault>>
      PROVE  Ownership!Accept(next)
  BY <1>7 DEF Ownership!Accept, OwnerMode, ReceiptKind, NoPlan
<1>8. ASSUME NEW req \in Requests, Submit(req)
      PROVE  Ownership!OwnershipNext
  <2>1. req.enabled \in BOOLEAN
    BY ActuatorAssumption DEF CommandRequest
  <2>2. /\ lifecycle = "ready" /\ lifecycle' = "ready"
        /\ lastCmd'.id = nextCommandID + 1
        /\ nextCommandID' = nextCommandID + 1
        /\ plan' = NoPlan
        /\ ~parkingStopping'
        /\ UNCHANGED <<applied, attempted, applyFault>>
    BY <1>8 DEF Submit, Received, ResetParkingControl
  <2>3. parkingOwner' = IF ~req.enabled THEN Unowned
                        ELSE IF req.owner = Parking THEN Parking ELSE parkingOwner
    BY <1>8 DEF Submit
  <2>4. CASE ~req.enabled
    <3>1. OwnerMode' = "free"
      BY <2>2, <2>3, <2>4 DEF OwnerMode, Unowned, Parking
    <3> QED BY <1>7, <2>2, <3>1 DEF Ownership!OwnershipNext, Ownership!Release
  <2>5. CASE req.enabled /\ req.owner = Parking
    <3>1. OwnerMode' = "parking"
      BY <2>1, <2>2, <2>3, <2>5 DEF OwnerMode
    <3> QED BY <1>7, <2>2, <3>1 DEF Ownership!OwnershipNext, Ownership!Arm
  <2>6. CASE req.enabled /\ req.owner # Parking
    <3>1. parkingOwner # Parking
      BY <1>8, <2>1, <2>6 DEF Submit, Authorized, Unowned, Parking
    <3>2. OwnerMode = "free" /\ OwnerMode' = "free"
      BY <2>1, <2>2, <2>3, <2>6, <3>1 DEF OwnerMode, ActuatorInv, OwnershipCoherent
    <3> QED BY <1>7, <2>2, <3>2 DEF Ownership!OwnershipNext, Ownership!DirectCommand
  <2> QED BY <2>1, <2>4, <2>5, <2>6
<1>9. CASE RequestParkingSafetyStop
  <2>1. OwnerMode' = "stopping"
    BY <1>9 DEF RequestParkingSafetyStop, OwnerMode
  <2>2. Ownership!Accept("stopping")
    BY <1>7, <1>9, <2>1 DEF RequestParkingSafetyStop, ResetParkingControl, Received
  <2> QED BY <2>2 DEF Ownership!OwnershipNext, Ownership!RequestStop
<1>10. ASSUME NEW lag \in ObservationAges, SubmitParkingSetpointPlan(lag)
       PROVE  Ownership!OwnershipNext
  <2>1. OwnerMode = "parking" /\ OwnerMode' = "parking"
    BY <1>10 DEF SubmitParkingSetpointPlan, OwnerMode
  <2>2. plan'.held = TRUE
    BY <1>10 DEF SubmitParkingSetpointPlan, Accepted
  <2>3. Ownership!AcceptPlan
    BY <1>10, <2>1, <2>2 DEF SubmitParkingSetpointPlan, Ownership!AcceptPlan, ReceiptKind
  <2> QED BY <2>3 DEF Ownership!OwnershipNext
<1>11. CASE Step
  BY <1>11, ContractStep DEF Ownership!OwnershipNext
<1>12. ASSUME NEW s \in Samples, ReceiveTelemetry(s) PROVE Still
  BY <1>1, <1>12 DEF ReceiveTelemetry, OwnerMode
<1>13. CASE Elapse
  <2>1. lastCmd'.id = lastCmd.id /\ plan'.held = plan.held
    BY <1>13 DEF Elapse, Aged, ActuatorInv, TypeOK
  <2> QED BY <1>1, <1>2, <1>13, <2>1 DEF Elapse, OwnerMode
<1>14. ASSUME NEW d \in ClockSteps, ClockStep(d) PROVE Still
  <2>1. lastCmd'.id = lastCmd.id /\ plan'.held = plan.held
    BY <1>14 DEF ClockStep, ActuatorInv, TypeOK
  <2> QED BY <1>1, <1>14, <2>1 DEF ClockStep, OwnerMode
<1>15. CASE UNCHANGED vars
  BY <1>1, <1>2, <1>15 DEF vars, OwnerMode
<1> QED
  BY <1>2, <1>3, <1>4, <1>5, <1>6, <1>8, <1>9, <1>10, <1>11, <1>12, <1>13, <1>14,
     <1>15 DEF Next

(* Every behaviour of the service, seen through its ownership mode, IDs    *)
(* and receipts, is one of the contract ActuatorOwnership, which is all    *)
(* that the inferencer relies on.                                          *)
THEOREM OwnershipIsImplemented == Spec => ImplementsOwnership
<1>1. Spec => []ActuatorInv
  BY InvCorrect
<1> QED BY <1>1, ContractInit, ContractNext, PTL
       DEF Spec, ImplementsOwnership, Ownership!OwnershipSpec
-----------------------------------------------------------------------------
(* Theorems about what the ticker of ParkingActuator puts on the device,   *)
(* on top of the invariant of ParkingActuatorProofs.                       *)

(* Without a command there is nothing left of one.                         *)
NothingWithoutCommand == lastCmd.id = 0 => lastCmd = NoCommand

(* Inductive together with ActuatorInv.                                    *)
MotionInv ==
  AgesCoherent /\ NothingWithoutCommand /\ NoDriveWithoutCommand /\ NoExpiredPlanDrives

(* What an observation and a sample that pass for fresh are in truth.      *)
PlanInTime  == plan.held /\ plan.mono <= PlanTimeout + plan.back
SpeedInTime ==
  ego.known /\ ego.speed <= HoldSpeed /\ ego.mono <= TelemetryTimeout + ego.back

-----------------------------------------------------------------------------
(* A fresh plan and a timely sample are not past their horizon, which is   *)
(* beyond every timeout, so their ages bound the true ones.                *)
LEMMA FreshIsInTime ==
  ASSUME TypeOK, AgesCoherent
  PROVE  /\ PlanFresh => plan.mono <= PlanTimeout + plan.back
         /\ TelemetryTimely => ego.mono <= TelemetryTimeout + ego.back
<1>1. /\ plan.age \in Int /\ plan.lag \in Int /\ plan.mono \in Nat /\ plan.back \in Nat
      /\ ego.age \in Int /\ ego.mono \in Nat /\ ego.back \in Nat /\ setBack \in Nat
  BY DEF TypeOK
<1>2. PlanTimeout \in Nat /\ TelemetryTimeout \in Nat /\ MaxSetBack \in Nat
  BY ActuatorAssumption
<1>3. ASSUME PlanFresh PROVE plan.mono <= PlanTimeout + plan.back
  BY <1>1, <1>2, <1>3 DEF PlanFresh, AgesCoherent, Horizon
<1>4. ASSUME TelemetryTimely PROVE ego.mono <= TelemetryTimeout + ego.back
  BY <1>1, <1>2, <1>4 DEF TelemetryTimely, AgesCoherent, Horizon
<1> QED BY <1>3, <1>4

(* Counting one unit more keeps a true age behind its wall-clock age.      *)
LEMMA OlderCoherent ==
  ASSUME NEW age \in Int, NEW mono \in Nat, NEW slack \in Int,
         NEW horizon \in Int, NEW most \in Nat,
         age < horizon => mono <= age + slack,
         Older(age, horizon) < horizon
  PROVE  Older(mono, most) <= Older(age, horizon) + slack
BY DEF Older

(* ... and so does an adjustment, which adds to the slack what it takes    *)
(* from the age and from the horizon.                                      *)
LEMMA ShiftedCoherent ==
  ASSUME NEW age \in Int, NEW mono \in Nat, NEW slack \in Int, NEW d \in Int,
         NEW limit \in Nat, setBack \in Nat, setBack' = setBack + Back(d),
         MaxSetBack \in Nat,
         age < Horizon(limit) => mono <= age + slack,
         Shifted(age, d, limit) < Horizon(limit)'
  PROVE  mono <= Shifted(age, d, limit) + slack + Back(d)
<1>1. Horizon(limit)' = Horizon(limit) - Back(d) /\ Horizon(limit) \in Int
  BY DEF Horizon, Back
<1>2. Shifted(age, d, limit) = age + d
  BY <1>1 DEF Shifted, Back
<1> QED BY <1>1, <1>2 DEF Back

(* The ages stay coherent.                                                 *)
LEMMA AgesNext ==
  ASSUME TypeOK, AgesCoherent, [Next]_vars
  PROVE  AgesCoherent'
<1> USE DEF sessionVars, planVars, deviceVars, clockVars
<1>0. /\ PlanTimeout \in Nat /\ TelemetryTimeout \in Nat /\ MaxSetBack \in Nat
      /\ setBack \in Nat /\ plan.age \in Int /\ plan.mono \in Nat /\ plan.lag \in Int
      /\ plan.back \in Nat /\ ego.age \in Int /\ ego.mono \in Nat /\ ego.back \in Nat
  BY ActuatorAssumption DEF TypeOK
<1> DEFINE PlanAges == /\ plan.lag \in 0..PlanTimeout
                       /\ plan.age < Horizon(PlanTimeout)
                            => plan.mono <= plan.age + plan.lag + plan.back
           EgoAges == ego.age < Horizon(TelemetryTimeout) => ego.mono <= ego.age + ego.back
<1>1. ASSUME UNCHANGED setBack, plan' = plan \/ plan' = NoPlan, UNCHANGED ego
      PROVE  AgesCoherent'
  <2>1. CASE plan' = plan
    BY <1>1, <2>1 DEF AgesCoherent, Horizon
  <2>2. CASE plan' = NoPlan
    BY <1>0, <1>1, <2>2 DEF AgesCoherent, Horizon, NoPlan
  <2> QED BY <1>1, <2>1, <2>2
<1>2. CASE StartBegin \/ StartReady \/ StartFails \/ CloseClear \/ CloseDevice
  BY <1>1, <1>2 DEF StartBegin, StartReady, StartFails, CloseClear, CloseDevice
<1>3. ASSUME NEW req \in Requests, Submit(req) PROVE AgesCoherent'
  BY <1>1, <1>3 DEF Submit, ResetParkingControl
<1>4. CASE RequestParkingSafetyStop
  BY <1>1, <1>4 DEF RequestParkingSafetyStop, ResetParkingControl
<1>5. ASSUME NEW lag \in ObservationAges, SubmitParkingSetpointPlan(lag)
      PROVE  AgesCoherent'
  <2>1. /\ lag \in 0..PlanTimeout
        /\ plan'.lag = lag /\ plan'.age = 0 /\ plan'.mono = lag /\ plan'.back = 0
        /\ UNCHANGED <<setBack, ego>>
    BY <1>5 DEF SubmitParkingSetpointPlan, ObservationNewer, Accepted
  <2> QED BY <1>0, <2>1 DEF AgesCoherent, Horizon
<1>6. CASE Step
  BY <1>1, <1>6 DEF Step, StepDirect, StepStop, StepFeedback, StepFailSafe, Ticked
<1>7. ASSUME NEW s \in Samples, ReceiveTelemetry(s) PROVE AgesCoherent'
  <2>1. ego'.age = 0 /\ ego'.mono = 0 /\ ego'.back = 0 /\ UNCHANGED <<setBack, plan>>
    BY <1>7 DEF ReceiveTelemetry
  <2> QED BY <1>0, <2>1 DEF AgesCoherent, Horizon
<1>8. CASE Elapse
  <2>1. UNCHANGED setBack
    BY <1>8 DEF Elapse
  <2>2. PlanAges'
    <3>1. CASE plan.held
      <4> DEFINE most == PlanTimeout + MaxSetBack + 1
      <4>1. /\ plan'.age = Older(plan.age, Horizon(PlanTimeout))
            /\ plan'.mono = Older(plan.mono, most)
            /\ plan'.lag = plan.lag /\ plan'.back = plan.back
        BY <1>8, <3>1 DEF Elapse, Aged, TypeOK
      <4>2. Horizon(PlanTimeout) \in Int /\ most \in Nat
            /\ Horizon(PlanTimeout)' = Horizon(PlanTimeout)
        BY <1>0, <2>1 DEF Horizon
      <4>3. plan.age < Horizon(PlanTimeout) => plan.mono <= plan.age + (plan.lag + plan.back)
        BY <1>0 DEF AgesCoherent
      <4> HIDE DEF most
      <4>4. plan'.age < Horizon(PlanTimeout)
              => plan'.mono <= plan'.age + (plan.lag + plan.back)
        BY <1>0, <4>1, <4>2, <4>3, OlderCoherent
      <4>5. plan'.age \in Int /\ plan'.mono \in Int
        BY <1>0, <4>1, <4>2 DEF Older
      <4> QED BY <1>0, <4>1, <4>2, <4>4, <4>5 DEF AgesCoherent
    <3>2. CASE ~plan.held
      BY <1>8, <2>1, <3>2 DEF Elapse, AgesCoherent, Horizon
    <3> QED BY <3>1, <3>2
  <2>3. EgoAges'
    <3>1. CASE ego.known
      <4> DEFINE most == TelemetryTimeout + MaxSetBack + 1
      <4>1. /\ ego'.age = Older(ego.age, Horizon(TelemetryTimeout))
            /\ ego'.mono = Older(ego.mono, most) /\ ego'.back = ego.back
        BY <1>8, <3>1 DEF Elapse, Aged, TypeOK
      <4>2. Horizon(TelemetryTimeout) \in Int /\ most \in Nat
            /\ Horizon(TelemetryTimeout)' = Horizon(TelemetryTimeout)
        BY <1>0, <2>1 DEF Horizon
      <4> HIDE DEF most
      <4>3. ego.age < Horizon(TelemetryTimeout) => ego.mono <= ego.age + ego.back
        BY DEF AgesCoherent
      <4>4. ego.age \in Int /\ ego.mono \in Nat /\ ego.back \in Int
        BY <1>0
      <4>5. Older(ego.age, Horizon(TelemetryTimeout)) < Horizon(TelemetryTimeout)
              => Older(ego.mono, most) <= Older(ego.age, Horizon(TelemetryTimeout)) + ego.back
        BY <4>2, <4>3, <4>4, OlderCoherent
      <4>6. ego'.age < Horizon(TelemetryTimeout)' => ego'.mono <= ego'.age + ego'.back
        BY <4>1, <4>2, <4>5
      <4> QED BY <4>6
    <3>2. CASE ~ego.known
      BY <1>8, <2>1, <3>2 DEF Elapse, AgesCoherent, Horizon
    <3> QED BY <3>1, <3>2
  <2> QED BY <2>1, <2>2, <2>3 DEF AgesCoherent
<1>9. ASSUME NEW d \in ClockSteps, ClockStep(d) PROVE AgesCoherent'
  <2>0. d \in Int
    BY ActuatorAssumption
  <2>1. setBack' = setBack + Back(d) /\ setBack' <= MaxSetBack /\ Back(d) \in Nat
    BY <1>0, <1>9, <2>0 DEF ClockStep, Back
  <2>2. PlanAges'
    <3>1. CASE plan.held
      <4>1. /\ plan'.age = Shifted(plan.age, d, PlanTimeout) /\ plan'.mono = plan.mono
            /\ plan'.lag = plan.lag /\ plan'.back = plan.back + Back(d)
        BY <1>9, <3>1 DEF ClockStep, TypeOK
      <4>2. Horizon(PlanTimeout) \in Int /\ Horizon(PlanTimeout)' \in Int
        BY <1>0, <2>1 DEF Horizon
      <4>3. plan.age < Horizon(PlanTimeout) => plan.mono <= plan.age + (plan.lag + plan.back)
        BY <1>0 DEF AgesCoherent
      <4>4. plan'.age < Horizon(PlanTimeout)'
              => plan'.mono <= plan'.age + (plan.lag + plan.back) + Back(d)
        <5>1. plan.lag + plan.back \in Int
          BY <1>0
        <5> QED BY <1>0, <2>0, <2>1, <4>1, <4>3, <5>1, ShiftedCoherent
      <4>5. plan'.age \in Int
        BY <1>0, <2>0, <4>1, <4>2 DEF Shifted
      <4> QED BY <1>0, <2>1, <4>1, <4>2, <4>4, <4>5 DEF AgesCoherent
    <3>2. CASE ~plan.held
      <4>1. plan' = plan
        BY <1>9, <3>2 DEF ClockStep
      <4> QED BY <1>0, <2>1, <4>1 DEF AgesCoherent, Horizon
    <3> QED BY <3>1, <3>2
  <2>3. EgoAges'
    <3>1. CASE ego.known
      <4>1. /\ ego'.age = Shifted(ego.age, d, TelemetryTimeout) /\ ego'.mono = ego.mono
            /\ ego'.back = ego.back + Back(d)
        BY <1>9, <3>1 DEF ClockStep, TypeOK
      <4>2. Horizon(TelemetryTimeout) \in Int /\ Horizon(TelemetryTimeout)' \in Int
        BY <1>0, <2>1 DEF Horizon
      <4>3. ego'.age < Horizon(TelemetryTimeout)' => ego'.mono <= ego'.age + ego.back + Back(d)
        <5>1. ego.age < Horizon(TelemetryTimeout) => ego.mono <= ego.age + ego.back
          BY DEF AgesCoherent
        <5>2. ego.back \in Int
          BY <1>0
        <5> QED BY <1>0, <2>0, <2>1, <4>1, <5>1, <5>2, ShiftedCoherent
      <4>4. ego'.age \in Int
        BY <1>0, <2>0, <4>1, <4>2 DEF Shifted
      <4> QED BY <1>0, <2>1, <4>1, <4>2, <4>3, <4>4
    <3>2. CASE ~ego.known
      <4>1. ego' = ego
        BY <1>9, <3>2 DEF ClockStep
      <4> QED BY <1>0, <2>1, <4>1 DEF AgesCoherent, Horizon
    <3> QED BY <3>1, <3>2
  <2> QED BY <2>1, <2>2, <2>3 DEF AgesCoherent
<1>10. CASE UNCHANGED vars
  BY <1>1, <1>10 DEF vars
<1> QED
  BY <1>2, <1>3, <1>4, <1>5, <1>6, <1>7, <1>8, <1>9, <1>10 DEF Next

-----------------------------------------------------------------------------
(* Live tuning makes no control out of nothing: neither gain nor floor.    *)
LEMMA NeutralStaysNeutral ==
  ASSUME NEW known \in BOOLEAN, NEW speed \in Int
  PROVE  /\ LiveTuning(Neutral, known, speed).throttle = 0
         /\ LiveTuning(Neutral, known, speed).steer = 0
<1>1. Clamp((0 * SteeringGain) \div 100, -100, 100) = 0
  BY TuningAssumption DEF Clamp
<1>2. TunedThrottle(0) = 0
  BY TuningAssumption DEF TunedThrottle, Clamp
<1>3. /\ Neutral.steer = 0 /\ Neutral.throttle = 0
      /\ Neutral.brake = 0 /\ Neutral.handbrake = FALSE
  BY DEF Neutral, Brakes
<1> QED BY <1>1, <1>2, <1>3 DEF LiveTuning, ResolveConflict

(* So without a command the target of a tick is at rest.                   *)
LEMMA DirectControlAtRest ==
  ASSUME TypeOK, lastCmd = NoCommand
  PROVE  DirectControl.throttle = 0 /\ DirectControl.steer = 0
<1>1. /\ ~lastCmd.enabled /\ ~CommandExpired
      /\ Brakes(0, lastCmd.ctl.handbrake) = Neutral
  BY DEF NoCommand, Neutral, Brakes, CommandExpired
<1>2. DirectControl = LiveTuning(Neutral, ego.known, ego.speed)
  BY <1>1 DEF DirectControl
<1> QED BY <1>2, NeutralStaysNeutral DEF TypeOK

(* A stop throws the handbrake on a timely sample of a low speed only.     *)
LEMMA StopControlHandbrake ==
  ASSUME TypeOK, AgesCoherent, NEW seen \in SpeedSeen, StopControl(seen).handbrake
  PROVE  SpeedInTime
<1>1. StopControl(seen).handbrake =
        (IF seen /\ ego.speed <= HoldSpeed
         THEN Brakes(0, TRUE) ELSE Brakes(StopBrake, FALSE)).handbrake
  BY DEF StopControl, ParkingSafety
<1>2. seen /\ ego.speed <= HoldSpeed
  BY <1>1 DEF Brakes
<1>3. TelemetryTimely
  BY <1>2 DEF SpeedSeen, SpeedKnown
<1> QED BY <1>2, <1>3, FreshIsInTime DEF SpeedInTime, TelemetryTimely

(* What any tick does: it writes one control with one plan's ID, and the   *)
(* control under parking ownership is a stop's or follows a fresh plan.    *)
LEMMA TickWrites ==
  ASSUME TypeOK, AgesCoherent, Step
  PROVE  /\ lifecycle = "ready"
         /\ UNCHANGED <<lifecycle, parkingOwner, parkingStopping, lastCmd,
                        nextCommandID, plan, parkingPlanID, ego>>
         /\ \E ctl \in Control, planID \in {0, parkingPlanID}, enabled \in BOOLEAN :
              /\ Write(ctl, planID, enabled)
              /\ parkingOwner # Parking => ctl = DirectControl
              /\ planID # 0 => plan.held
              /\ parkingOwner = Parking /\ ctl.throttle > 0 => PlanInTime
              /\ parkingOwner = Parking /\ ctl.handbrake => SpeedInTime
<1> USE DEF sessionVars
<1>1. /\ lifecycle = "ready"
      /\ UNCHANGED <<lifecycle, parkingOwner, parkingStopping, lastCmd,
                     nextCommandID, plan, parkingPlanID, ego>>
  BY DEF Step, StepDirect, StepStop, StepFeedback, StepFailSafe, Ticked
<1> DEFINE Allowed(ctl) ==
      /\ parkingOwner # Parking => ctl = DirectControl
      /\ parkingOwner = Parking /\ ctl.throttle > 0 => PlanInTime
      /\ parkingOwner = Parking /\ ctl.handbrake => SpeedInTime
<1>2. ASSUME NEW seen \in SpeedSeen
      PROVE  /\ StopControl(seen) \in Control
             /\ parkingOwner = Parking => Allowed(StopControl(seen))
  <2>1. StopControl(seen) \in Control /\ StopControl(seen).throttle = 0
    BY SpeedSeenType, StopControlStops DEF IsStop
  <2> QED BY <2>1, StopControlHandbrake
<1>3. CASE StepDirect
  <2>1. DirectControl \in Control /\ Allowed(DirectControl)
    BY <1>3, DirectControlType DEF StepDirect
  <2>2. (lastCmd.enabled /\ ~CommandExpired) \in BOOLEAN
    BY DEF TypeOK, CommandExpired
  <2>3. Write(DirectControl, 0, lastCmd.enabled /\ ~CommandExpired)
    BY <1>3 DEF StepDirect
  <2> HIDE DEF Allowed
  <2>4. \E ctl \in Control, planID \in {0, parkingPlanID}, enabled \in BOOLEAN :
          Write(ctl, planID, enabled) /\ (planID # 0 => plan.held) /\ Allowed(ctl)
    BY <2>1, <2>2, <2>3
  <2> QED BY <1>1, <2>4 DEF Allowed
<1>4. CASE StepStop
  <2>1. PICK seen \in SpeedSeen : Write(StopControl(seen), 0, TRUE)
    BY <1>4 DEF StepStop
  <2>2. StopControl(seen) \in Control /\ Allowed(StopControl(seen))
    BY <1>2, <1>4 DEF StepStop
  <2> HIDE DEF Allowed
  <2>3. \E ctl \in Control, planID \in {0, parkingPlanID}, enabled \in BOOLEAN :
          Write(ctl, planID, enabled) /\ (planID # 0 => plan.held) /\ Allowed(ctl)
    BY <2>1, <2>2
  <2> QED BY <1>1, <2>3 DEF Allowed
<1>5. CASE StepFeedback
  <2>1. PICK out \in FeedbackOutputs : Write(FeedbackControl(out), parkingPlanID, TRUE)
    BY <1>5 DEF StepFeedback
  <2>2. FeedbackControl(out) \in Control
    BY FeedbackControlType
  <2>3. FeedbackControl(out).handbrake = out.hold
    BY DEF FeedbackControl, ParkingSafety
  <2>4. Allowed(FeedbackControl(out)) /\ plan.held
    BY <1>5, <2>3, FreshIsInTime DEF StepFeedback, FeedbackAllowed, FeedbackOutputs,
       SpeedKnown, TelemetryTimely, PlanInTime, SpeedInTime
  <2> HIDE DEF Allowed
  <2>5. \E ctl \in Control, planID \in {0, parkingPlanID}, enabled \in BOOLEAN :
          Write(ctl, planID, enabled) /\ (planID # 0 => plan.held) /\ Allowed(ctl)
    BY <2>1, <2>2, <2>4
  <2> QED BY <1>1, <2>5 DEF Allowed
<1>6. CASE StepFailSafe
  <2>1. PICK seen \in SpeedSeen : Write(StopControl(seen), parkingPlanID, TRUE)
    BY <1>6 DEF StepFailSafe
  <2>2. StopControl(seen) \in Control /\ Allowed(StopControl(seen)) /\ plan.held
    BY <1>2, <1>6 DEF StepFailSafe
  <2> HIDE DEF Allowed
  <2>3. \E ctl \in Control, planID \in {0, parkingPlanID}, enabled \in BOOLEAN :
          Write(ctl, planID, enabled) /\ (planID # 0 => plan.held) /\ Allowed(ctl)
    BY <2>1, <2>2
  <2> QED BY <1>1, <2>3 DEF Allowed
<1> QED BY <1>3, <1>4, <1>5, <1>6 DEF Step

(* The report of a tick that the device took is the one with its receipt.  *)
LEMMA TickTaken ==
  ASSUME TypeOK, Next, Wrote
  PROVE  Step
<1> USE DEF sessionVars, planVars, deviceVars, clockVars
<1> QED
  BY DEF Wrote, Next, StartBegin, StartReady, StartFails, CloseClear, CloseDevice, Submit,
     RequestParkingSafetyStop, SubmitParkingSetpointPlan, ReceiveTelemetry, Elapse, ClockStep

-----------------------------------------------------------------------------
(* A tick keeps the invariant.                                             *)
LEMMA MotionStep ==
  ASSUME ActuatorInv, MotionInv, Step
  PROVE  MotionInv'
<1>1. TypeOK
  BY DEF ActuatorInv
<1>2. PICK ctl \in Control, planID \in {0, parkingPlanID}, enabled \in BOOLEAN :
        /\ Write(ctl, planID, enabled)
        /\ parkingOwner # Parking => ctl = DirectControl
        /\ parkingOwner = Parking /\ ctl.throttle > 0 => PlanInTime
  BY <1>1, TickWrites DEF MotionInv
<1>3. /\ lifecycle = "ready"
      /\ UNCHANGED <<lifecycle, parkingOwner, lastCmd, plan>>
  BY <1>1, TickWrites DEF MotionInv
<1>4. NothingWithoutCommand'
  BY <1>3 DEF MotionInv, NothingWithoutCommand
<1>5. NoDriveWithoutCommand'
  <2>1. SUFFICES ASSUME lastCmd.id = 0
                 PROVE  device'.throttle = 0 /\ device'.steer = 0
    BY <1>3 DEF NoDriveWithoutCommand
  <2>2. parkingOwner # Parking
    BY <2>1 DEF ActuatorInv
  <2>3. ctl.throttle = 0 /\ ctl.steer = 0
    BY <1>1, <1>2, <2>1, <2>2, DirectControlAtRest DEF MotionInv, NothingWithoutCommand
  <2>4. device.throttle = 0 /\ device.steer = 0
    BY <1>3, <2>1 DEF MotionInv, NoDriveWithoutCommand
  <2> QED BY <1>2, <2>3, <2>4 DEF Write
<1>6. NoExpiredPlanDrives'
  BY <1>2, <1>3 DEF NoExpiredPlanDrives, PlanInTime, Write
<1>7. AgesCoherent'
  BY <1>1, AgesNext DEF MotionInv, Next
<1> QED BY <1>4, <1>5, <1>6, <1>7 DEF MotionInv

(* Every step keeps it.                                                    *)
LEMMA MotionNext ==
  ASSUME ActuatorInv, MotionInv, [Next]_vars
  PROVE  MotionInv'
<1> USE DEF sessionVars, planVars, deviceVars, clockVars
<1>0. TypeOK /\ IdsAreIssued /\ AgesCoherent'
  BY AgesNext DEF ActuatorInv, MotionInv
<1>1. CASE StartBegin \/ StartReady \/ StartFails \/ CloseDevice
  <2>1. NothingWithoutCommand'
    BY <1>1 DEF StartBegin, StartReady, StartFails, CloseDevice, MotionInv, NothingWithoutCommand
  <2>2. NoDriveWithoutCommand'
    BY <1>1 DEF StartBegin, StartReady, StartFails, CloseDevice, NoDriveWithoutCommand,
       Neutral, Brakes
  <2>3. NoExpiredPlanDrives'
    BY <1>1 DEF StartBegin, StartReady, StartFails, CloseDevice, MotionInv, NoExpiredPlanDrives
  <2> QED BY <1>0, <2>1, <2>2, <2>3 DEF MotionInv
<1>2. CASE CloseClear
  <2>1. lifecycle' # "ready" /\ lastCmd' = NoCommand /\ parkingOwner' # Parking
    BY <1>2 DEF CloseClear, Unowned, Parking
  <2> QED BY <1>0, <2>1 DEF MotionInv, NothingWithoutCommand, NoDriveWithoutCommand,
             NoExpiredPlanDrives
(* A command has an ID of its own, which no receipt carries yet.           *)
<1>3. ASSUME lastCmd'.id = nextCommandID + 1, UNCHANGED applied
      PROVE  MotionInv'
  <2>1. lastCmd'.id > 0 /\ applied'.cmd < lastCmd'.id
    BY <1>0, <1>3 DEF IdsAreIssued, TypeOK
  <2>2. lastCmd'.id # 0 /\ applied'.cmd # lastCmd'.id
    BY <1>0, <1>3, <2>1 DEF TypeOK
  <2> QED BY <1>0, <2>2 DEF MotionInv, NothingWithoutCommand, NoDriveWithoutCommand,
             NoExpiredPlanDrives
<1>4. ASSUME NEW req \in Requests, Submit(req) PROVE MotionInv'
  BY <1>3, <1>4 DEF Submit, Received
<1>5. CASE RequestParkingSafetyStop
  BY <1>3, <1>5 DEF RequestParkingSafetyStop, Received
<1>6. ASSUME NEW lag \in ObservationAges, SubmitParkingSetpointPlan(lag) PROVE MotionInv'
  <2>1. /\ plan'.held /\ plan'.mono = lag /\ plan'.back = 0 /\ lag \in 0..PlanTimeout
        /\ UNCHANGED <<lifecycle, lastCmd, device>>
    BY <1>6 DEF SubmitParkingSetpointPlan, ObservationNewer, Accepted
  <2>2. plan'.mono <= PlanTimeout + plan'.back
    BY <2>1, ActuatorAssumption
  <2> QED BY <1>0, <2>1, <2>2 DEF MotionInv, NothingWithoutCommand, NoDriveWithoutCommand,
             NoExpiredPlanDrives
<1>7. CASE Step
  BY <1>7, MotionStep
<1>8. ASSUME NEW s \in Samples, ReceiveTelemetry(s) PROVE MotionInv'
  BY <1>0, <1>8 DEF ReceiveTelemetry, MotionInv, NothingWithoutCommand, NoDriveWithoutCommand,
     NoExpiredPlanDrives
<1>9. CASE Elapse
  <2>1. lastCmd'.id = lastCmd.id /\ (lastCmd.id = 0 => lastCmd' = lastCmd)
    BY <1>0, <1>9 DEF Elapse, Aged, TypeOK
  <2>2. tickDue' /\ UNCHANGED <<lifecycle, device>>
    BY <1>9 DEF Elapse
  <2> QED BY <1>0, <2>1, <2>2 DEF MotionInv, NothingWithoutCommand, NoDriveWithoutCommand,
             NoExpiredPlanDrives
<1>10. ASSUME NEW d \in ClockSteps, ClockStep(d) PROVE MotionInv'
  <2>1. lastCmd'.id = lastCmd.id /\ (lastCmd.id = 0 => lastCmd' = lastCmd)
    BY <1>0, <1>10 DEF ClockStep, TypeOK
  <2>2. NoExpiredPlanDrives'
    <3>1. SUFFICES ASSUME plan.held, plan.mono <= PlanTimeout + plan.back
                   PROVE  plan'.held /\ plan'.mono <= PlanTimeout + plan'.back
      BY <1>10 DEF ClockStep, MotionInv, NoExpiredPlanDrives, TypeOK
    <3>2. /\ plan'.held = plan.held /\ plan'.mono = plan.mono
          /\ plan'.back = plan.back + Back(d)
      BY <1>0, <1>10, <3>1 DEF ClockStep, TypeOK
    <3>3. Back(d) \in Nat /\ plan.mono \in Nat /\ plan.back \in Nat
      BY <1>0, ActuatorAssumption DEF Back, TypeOK
    <3> QED BY <3>1, <3>2, <3>3, ActuatorAssumption
  <2>3. UNCHANGED <<lifecycle, parkingOwner, applied, applyFault, device, tickDue>>
    BY <1>10 DEF ClockStep
  <2> QED BY <1>0, <2>1, <2>2, <2>3 DEF MotionInv, NothingWithoutCommand, NoDriveWithoutCommand
<1>11. CASE UNCHANGED vars
  BY <1>0, <1>11 DEF vars, MotionInv, NothingWithoutCommand, NoDriveWithoutCommand,
     NoExpiredPlanDrives
<1> QED
  BY <1>1, <1>2, <1>4, <1>5, <1>6, <1>7, <1>8, <1>9, <1>10, <1>11 DEF Next

(* The invariant holds in every reachable state.                            *)
LEMMA MotionCorrect == Spec => []MotionInv
<1>1. Init => MotionInv
  <2>1. Init => AgesCoherent
    BY ActuatorAssumption DEF Init, AgesCoherent, Horizon, NoPlan, NoEgo
  <2> QED BY <2>1 DEF Init, MotionInv, NothingWithoutCommand, NoDriveWithoutCommand,
             NoExpiredPlanDrives, Unowned, Parking
<1>2. ActuatorInv /\ MotionInv /\ [Next]_vars => MotionInv'
  BY MotionNext
<1> QED BY <1>1, <1>2, InvCorrect, PTL DEF Spec

(* After a restart of the service the device rests until a command comes,  *)
(* whatever the gains and the throttle floor (Close, StartReady, step).    *)
THEOREM NothingDrivesWithoutCommand == Spec => []NoDriveWithoutCommand
<1>1. MotionInv => NoDriveWithoutCommand
  BY DEF MotionInv
<1> QED BY <1>1, MotionCorrect, PTL

(* A setpoint plan opens the throttle in no tick in which its observation  *)
(* is older than the plan timeout plus what the wall clock was set back    *)
(* since it was accepted, for every timeout, sequence of adjustments and   *)
(* order of plans and commands (parkingTargetLocked).                      *)
THEOREM NoPlanDrivesPastTimeout == Spec => []NoExpiredPlanDrives
<1>1. MotionInv => NoExpiredPlanDrives
  BY DEF MotionInv
<1> QED BY <1>1, MotionCorrect, PTL

(* Parking control throws the handbrake only on a sample of a low speed    *)
(* that is no older than the telemetry timeout plus what the wall clock    *)
(* was set back since its receipt (parkingStopSnapshotLocked,              *)
(* Controller.Step).                                                       *)
THEOREM HandbrakeIsSlow == Spec => HandbrakeNeedsLowSpeed
<1>1. ActuatorInv /\ MotionInv /\ [Next]_vars
        => [Wrote /\ parkingOwner = Parking /\ applied'.ctl.handbrake
             => /\ ego.known /\ ego.speed <= HoldSpeed
                /\ ego.mono <= TelemetryTimeout + ego.back]_vars
  <2> SUFFICES ASSUME ActuatorInv, MotionInv, Next, Wrote, parkingOwner = Parking,
                      applied'.ctl.handbrake
               PROVE  SpeedInTime
    BY DEF SpeedInTime
  <2>1. TypeOK /\ AgesCoherent /\ Step
    BY TickTaken DEF ActuatorInv, MotionInv
  <2>2. PICK ctl \in Control, planID \in {0, parkingPlanID}, enabled \in BOOLEAN :
          /\ Write(ctl, planID, enabled)
          /\ parkingOwner = Parking /\ ctl.handbrake => SpeedInTime
    BY <2>1, TickWrites
  <2>3. applied'.ctl = ctl
    BY <2>2 DEF Write, Wrote
  <2> QED BY <2>2, <2>3
<1> QED BY <1>1, InvCorrect, MotionCorrect, PTL DEF Spec, HandbrakeNeedsLowSpeed

(* No receipt names a plan older than one that was applied before, across  *)
(* stops, re-arms and restarts: nextParkingPlanID survives every reset,    *)
(* and a tick names a plan only while it is held.                          *)
THEOREM PlansOnDeviceAdvance == Spec => AppliedPlansAdvance
<1>1. ActuatorInv /\ MotionInv /\ [Next]_vars
        => [Wrote /\ applied'.plan > 0 => applied'.plan >= newestPlan]_vars
  <2> SUFFICES ASSUME ActuatorInv, MotionInv, Next, Wrote, applied'.plan > 0
               PROVE  applied'.plan >= newestPlan
    OBVIOUS
  <2>1. TypeOK /\ AgesCoherent /\ Step
    BY TickTaken DEF ActuatorInv, MotionInv
  <2>2. PICK ctl \in Control, planID \in {0, parkingPlanID}, enabled \in BOOLEAN :
          Write(ctl, planID, enabled) /\ (planID # 0 => plan.held)
    BY <2>1, TickWrites
  <2>3. applied'.plan = planID
    BY <2>2 DEF Write, Wrote
  <2> QED BY <2>1, <2>2, <2>3 DEF ActuatorInv, IdsAreIssued, TypeOK
<1> QED BY <1>1, InvCorrect, MotionCorrect, PTL DEF Spec, AppliedPlansAdvance
=============================================================================
