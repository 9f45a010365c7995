------------------------ MODULE ParkingFeedbackProofs ------------------------
(***************************************************************************)
(* What holds of the feedback controller for every configuration that New  *)
(* accepts and every set of inputs.                                        *)
(***************************************************************************)
EXTENDS ParkingFeedback, TLAPS, WellFoundedInduction, SequenceTheorems

-----------------------------------------------------------------------------
(* Interpolation.                                                          *)

(* A non-empty set of naturals has a least element.                        *)
LEMMA LeastExists ==
  ASSUME NEW T \in SUBSET Nat, T # {}
  PROVE  \E m \in T : \A k \in T : m <= k
<1> DEFINE R == {ss \in Nat \X Nat : ss[1] < ss[2]}
<1>1. R = OpToRel(<, Nat)
  BY DEF OpToRel
<1>2. IsWellFoundedOn(R, Nat)
  BY <1>1, NatLessThanWellFounded
<1> HIDE DEF R
<1>3. PICK m \in T : \A k \in T : ~(<<k, m>> \in R)
  BY <1>2, WFMin
<1>4. \A k \in T : ~(k < m)
  BY <1>3 DEF R
<1> QED BY <1>4

(* Every point of a map has an integer position and value.                 *)
LEMMA PointsAreIntegers ==
  ASSUME NEW points \in Seq([at: Int, value: Int]), NEW k \in 1..Len(points)
  PROVE  points[k].at \in Int /\ points[k].value \in Int
<1>1. points[k] \in [at: Int, value: Int]
  BY ElementOfSeq
<1> QED BY <1>1

(* Below the last point some segment of the map encloses x.                *)
LEMMA SegmentExists ==
  ASSUME NEW points \in Seq([at: Int, value: Int]), Len(points) >= 2,
         NEW x \in Int, x < points[Len(points)].at
  PROVE  Segment(points, x) \in 1..Len(points) - 1
<1>0. Len(points) \in Nat /\ \A k \in 1..Len(points) : points[k].at \in Int
  BY PointsAreIntegers
<1> DEFINE T == {k \in 1..Len(points) - 1 : x <= points[k + 1].at}
<1>1. Len(points) - 1 \in T
  BY <1>0
<1>2. T \in SUBSET Nat
  BY <1>0
<1>3. PICK m \in T : \A k \in T : m <= k
  BY <1>1, <1>2, LeastExists
<1>4. m \in 1..Len(points) - 1 /\ x <= points[m + 1].at
  BY <1>3
<1>5. ASSUME NEW j \in 1..m - 1
      PROVE  points[j + 1].at < x
  <2>1. j \notin T /\ j \in 1..Len(points) - 1 /\ j + 1 \in 1..Len(points)
    BY <1>0, <1>3, <1>4
  <2>2. points[j + 1].at \in Int /\ ~(x <= points[j + 1].at)
    BY <1>0, <2>1
  <2> QED BY <2>2, SMTT(30)
<1> QED BY <1>4, <1>5 DEF Segment

(* A map with increasing positions has a value everywhere.                 *)
LEMMA InterpolateIsInteger ==
  ASSUME NEW points \in Seq([at: Int, value: Int]), Len(points) >= 2,
         Increasing(points), NEW x \in Int
  PROVE  Interpolate(points, x) \in Int
<1>0. /\ Len(points) \in Nat
      /\ \A k \in 1..Len(points) : points[k].at \in Int /\ points[k].value \in Int
  BY PointsAreIntegers
<1>1. CASE x <= points[1].at \/ x >= points[Len(points)].at
  BY <1>0, <1>1 DEF Interpolate
<1>2. CASE ~(x <= points[1].at \/ x >= points[Len(points)].at)
  <2> DEFINE i == Segment(points, x)
  <2>0. x < points[Len(points)].at
    BY <1>0, <1>2
  <2>1. i \in 1..Len(points) - 1
    BY <2>0, SegmentExists
  <2> HIDE DEF i
  <2>2. i \in 1..Len(points) /\ i + 1 \in 1..Len(points)
    BY <2>1, <1>0
  <2> DEFINE a == points[i].at  b == points[i + 1].at
             v == points[i].value  w == points[i + 1].value
  <2>3. a \in Int /\ b \in Int /\ v \in Int /\ w \in Int
    BY <1>0, <2>2
  <2>4. a < b
    BY <2>1 DEF Increasing
  <2>5. Between(points[i], points[i + 1], x) = v + ((x - a) * (w - v)) \div (b - a)
    BY DEF Between
  <2> HIDE DEF a, b, v, w
  <2>6. (x - a) \in Int /\ (w - v) \in Int /\ (b - a) \in Nat \ {0}
    BY <2>3, <2>4
  <2> DEFINE run == b - a  rise == (x - a) * (w - v)
  <2>7. rise \in Int
    BY <2>6
  <2>8. run \in Nat \ {0}
    BY <2>6
  <2> HIDE DEF run, rise
  <2>9. v + rise \div run \in Int
    BY <2>3, <2>7, <2>8
  <2>10. Between(points[i], points[i + 1], x) \in Int
    BY <2>5, <2>9 DEF run, rise
  <2>11. Interpolate(points, x) = Between(points[i], points[i + 1], x)
    BY <1>2, Zenon DEF Interpolate, i
  <2> QED BY <2>10, <2>11
<1> QED BY <1>1, <1>2

-----------------------------------------------------------------------------
(* The controller.                                                         *)

(* The configured steering profile is such a map.                          *)
LEMMA ProfileIsIncreasing ==
  /\ SteeringProfile \in Seq([at: Int, value: Int])
  /\ Len(SteeringProfile) >= 2
  /\ Increasing(SteeringProfile)
<1> DEFINE P == [at: -100..100, value: -100..100]
           Q == [at: Int, value: Int]
<1>1. P \subseteq Q
  OBVIOUS
<1>2. SteeringProfile \in Seq(P)
  BY ProfileAssumption
<1> HIDE DEF P, Q
<1>3. SteeringProfile \in Seq(Q)
  BY <1>1, <1>2, SeqMonotonic
<1> QED BY <1>3, ProfileAssumption DEF Q

(* Zero lies between the limits of every output and integral.              *)
LEMMA Bounds ==
  /\ MaxBrakeEffort \in 1..100 /\ MaxThrottleEffort \in 1..100
  /\ 0 \in -100..100
  /\ 0 \in -MaxBrakeEffort..MaxThrottleEffort
  /\ 0 \in SteeringIntegralMin..SteeringIntegralMax
  /\ 0 \in SpeedIntegralMin..SpeedIntegralMax
<1>1. MaxBrakeEffort \in 1..100 /\ MaxThrottleEffort \in 1..100
  BY FeedbackAssumption
<1>2. /\ SteeringIntegralMin \in Int /\ SteeringIntegralMax \in Int
      /\ SpeedIntegralMin \in Int /\ SpeedIntegralMax \in Int
  BY FeedbackAssumption
<1> QED BY <1>1, <1>2, FeedbackAssumption

(* A slew between two angles in range stays in range, however long it is.  *)
LEMMA SlewInRange ==
  ASSUME NEW from \in -100..100, NEW to \in -100..100, NEW delta \in Nat
  PROVE  Slewed(from, to, delta) \in -100..100
BY DEF Slewed, Limited

(* What an accepted input asks for, whatever the state.                    *)
LEMMA TargetsInRange ==
  ASSUME FeedbackTypeOK, NEW in \in Input, ValidInput(in)
  PROVE  /\ in.dt \in Nat
         /\ EffortTarget(in) \in -MaxBrakeEffort..MaxThrottleEffort
         /\ NextSpeedIntegral(in) \in SpeedIntegralMin..SpeedIntegralMax
         /\ SteeringTarget(in) \in -100..100
         /\ NextSteeringIntegral(in) \in SteeringIntegralMin..SteeringIntegralMax
<1>1. /\ SpeedError(in) \in Int /\ WheelError(in) \in Int /\ in.dt \in Nat
      /\ in.desiredWheel \in Int
      /\ SpeedKp \in Nat /\ SpeedKi \in Nat /\ SteeringKi \in Nat /\ SteeringFeedbackGain \in Nat
      /\ MaxBrakeEffort \in Nat /\ MaxThrottleEffort \in Nat
      /\ SpeedIntegralMin \in Int /\ SpeedIntegralMax \in Int
      /\ SteeringIntegralMin \in Int /\ SteeringIntegralMax \in Int
      /\ speedIntegral \in Int /\ steeringIntegral \in Int
  BY FeedbackAssumption
     DEF Input, SpeedError, WheelError, ValidInput, FeedbackTypeOK
<1>2. SpeedCandidate(in) \in SpeedIntegralMin..SpeedIntegralMax
  <2>1. speedIntegral + SpeedError(in) * in.dt \in Int
    BY <1>1
  <2> QED BY <1>1, <2>1, FeedbackAssumption DEF SpeedCandidate, Limited
<1>3. SteeringCandidate(in) \in SteeringIntegralMin..SteeringIntegralMax
  <2>1. steeringIntegral + WheelError(in) * in.dt \in Int
    BY <1>1
  <2> QED BY <1>1, <2>1, FeedbackAssumption DEF SteeringCandidate, Limited
<1>4. EffortTarget(in) \in -MaxBrakeEffort..MaxThrottleEffort
  <2>1. SpeedUnsaturated(in) \in Int
    BY <1>1, <1>2 DEF SpeedUnsaturated
  <2> QED BY <1>1, <2>1, FeedbackAssumption DEF EffortTarget, Limited
<1>5. SteeringTarget(in) \in -100..100
  <2>1. Interpolate(SteeringProfile, in.desiredWheel) \in Int
    BY <1>1, ProfileIsIncreasing, InterpolateIsInteger
  <2>2. SteeringFeedbackGain * WheelError(in) + SteeringKi * SteeringCandidate(in) \in Int
    BY <1>1, <1>3
  <2>3. SteeringUnsaturated(in) \in Int
    BY <2>1, <2>2 DEF SteeringUnsaturated
  <2> QED BY <2>3 DEF SteeringTarget, Limited
<1>6. NextSpeedIntegral(in) \in SpeedIntegralMin..SpeedIntegralMax
  BY <1>2 DEF NextSpeedIntegral, FeedbackTypeOK
<1>7. NextSteeringIntegral(in) \in SteeringIntegralMin..SteeringIntegralMax
  BY <1>3 DEF NextSteeringIntegral, FeedbackTypeOK
<1> QED BY <1>1, <1>4, <1>5, <1>6, <1>7

(* The inductive invariant: the three state properties need each other's   *)
(* ranges and nothing else.                                                *)
FeedbackInv == FeedbackTypeOK /\ LatchedNeverDrives /\ OutputContract

(* A new controller satisfies the invariant.                               *)
LEMMA FeedbackInvInit == FeedbackInit => FeedbackInv
<1> SUFFICES ASSUME FeedbackInit PROVE FeedbackInv
  OBVIOUS
<1>1. output \in Output /\ given \in Input /\ ~ValidInput(given)
  BY FeedbackAssumption
     DEF FeedbackInit, FailSafeOutput, NoInput, Output, Input, ValidInput
<1>2. FeedbackTypeOK
  BY <1>1, Bounds DEF FeedbackInit, FeedbackTypeOK
<1>3. LatchedNeverDrives /\ OutputContract
  BY <1>1 DEF FeedbackInit, LatchedNeverDrives, OutputContract, FailSafeOutput
<1> QED BY <1>2, <1>3 DEF FeedbackInv

(* So it does after a refused input, ...                                   *)
LEMMA RefusedKeepsInv ==
  ASSUME FeedbackInv, NEW in \in Input, StepRefused(in)
  PROVE  FeedbackInv'
<1>1. output' \in Output /\ given' = in /\ ~ValidInput(given')
  BY DEF StepRefused, FailSafeOutput, Output
<1>2. FeedbackTypeOK'
  BY <1>1, Bounds DEF StepRefused, FeedbackTypeOK
<1>3. LatchedNeverDrives' /\ OutputContract'
  BY <1>1 DEF StepRefused, LatchedNeverDrives, OutputContract, FailSafeOutput
<1> QED BY <1>2, <1>3 DEF FeedbackInv

(* ... a hold, ...                                                         *)
LEMMA HoldKeepsInv ==
  ASSUME FeedbackInv, NEW in \in Input, StepHolds(in)
  PROVE  FeedbackInv'
<1>1. SteeringSlew * in.dt \in Nat
  BY FeedbackAssumption DEF StepHolds, ValidInput
<1>2. steering' \in -100..100
  <2>1. steering \in -100..100 /\ 0 \in -100..100
    BY Bounds DEF FeedbackInv, FeedbackTypeOK
  <2>2. steering' = Slewed(steering, 0, SteeringSlew * in.dt)
    BY DEF StepHolds
  <2> QED BY <1>1, <2>1, <2>2, SlewInRange
<1>3. FeedbackTypeOK'
  BY <1>2, FeedbackAssumption DEF StepHolds, FeedbackInv, FeedbackTypeOK, Output
<1>4. LatchedNeverDrives' /\ OutputContract'
  BY <1>2, <1>3 DEF StepHolds, Holding, LatchedNeverDrives, OutputContract, FeedbackTypeOK
<1> QED BY <1>3, <1>4 DEF FeedbackInv

(* ... a step that drives or brakes, ...                                   *)
LEMMA DriveKeepsInv ==
  ASSUME FeedbackInv, NEW in \in Input, StepDrives(in)
  PROVE  FeedbackInv'
<1> DEFINE target == IF Latched(in) THEN -StopBrakeEffort ELSE EffortTarget(in)
           delta  == LongitudinalSlew * in.dt
<1>1. FeedbackTypeOK /\ ValidInput(in)
  BY DEF FeedbackInv, StepDrives
<1>2. /\ in.dt \in Nat
      /\ EffortTarget(in) \in -MaxBrakeEffort..MaxThrottleEffort
      /\ NextSpeedIntegral(in) \in SpeedIntegralMin..SpeedIntegralMax
      /\ SteeringTarget(in) \in -100..100
      /\ NextSteeringIntegral(in) \in SteeringIntegralMin..SteeringIntegralMax
  BY <1>1, TargetsInRange
<1>3. SteeringSlew * in.dt \in Nat /\ delta \in Nat
  BY <1>2, FeedbackAssumption
<1>4. steering' \in -100..100
  <2>1. steering' = Slewed(steering, SteeringTarget(in), SteeringSlew * in.dt)
    BY DEF StepDrives
  <2>2. steering \in -100..100
    BY <1>1 DEF FeedbackTypeOK
  <2> QED BY <1>2, <1>3, <2>1, <2>2, SlewInRange
<1>5. /\ target \in -MaxBrakeEffort..MaxThrottleEffort
      /\ Latched(in) => target <= 0
  BY <1>2, FeedbackAssumption
<1>6. effort' = SlewedEffort(effort, target, delta)
  BY DEF StepDrives
<1>7. effort \in -MaxBrakeEffort..MaxThrottleEffort
  BY <1>1 DEF FeedbackTypeOK
<1> HIDE DEF target, delta
<1>8. effort' \in -MaxBrakeEffort..MaxThrottleEffort /\ (target <= 0 => effort' <= 0)
  BY <1>3, <1>5, <1>6, <1>7, FeedbackAssumption DEF SlewedEffort, Slewed, Limited
<1>9. effort' \in -100..100
  BY <1>8, FeedbackAssumption
<1>10. speedIntegral' \in SpeedIntegralMin..SpeedIntegralMax
  BY <1>2, FeedbackAssumption DEF StepDrives
<1>11. stopLatched' \in BOOLEAN
  <2>1. (in.stop > ReleaseThreshold) \in BOOLEAN /\ (in.stop >= StopThreshold) \in BOOLEAN
    OBVIOUS
  <2> QED BY <2>1, Zenon DEF StepDrives, Latched
<1>12. output' \in Output
  BY <1>4, <1>9 DEF StepDrives, Output
<1>13. FeedbackTypeOK'
  BY <1>2, <1>4, <1>8, <1>10, <1>11, <1>12 DEF StepDrives, FeedbackTypeOK
<1>14. LatchedNeverDrives'
  BY <1>5, <1>8 DEF StepDrives, LatchedNeverDrives
<1>15. OutputContract'
  BY <1>12 DEF StepDrives, OutputContract
<1> QED BY <1>13, <1>14, <1>15 DEF FeedbackInv

(* ... and a reset.                                                        *)
LEMMA ResetKeepsInv ==
  ASSUME FeedbackInv, Reset
  PROVE  FeedbackInv'
<1>1. FeedbackTypeOK'
  BY Bounds DEF Reset, FeedbackInv, FeedbackTypeOK
<1>2. LatchedNeverDrives'
  BY DEF Reset, LatchedNeverDrives
<1>3. OutputContract'
  BY Zenon DEF Reset, FeedbackInv, OutputContract, ValidInput
<1> QED BY <1>1, <1>2, <1>3 DEF FeedbackInv

(* The invariant holds in every reachable state of the controller.         *)
THEOREM FeedbackInvariant == FeedbackSpec => []FeedbackInv
<1>1. FeedbackInv /\ [FeedbackNext]_feedbackVars => FeedbackInv'
  <2>1. FeedbackInv /\ UNCHANGED feedbackVars => FeedbackInv'
    BY DEF feedbackVars, FeedbackInv, FeedbackTypeOK, LatchedNeverDrives, OutputContract
  <2>2. Inputs \subseteq Input
    BY FeedbackAssumption
  <2> QED BY <2>1, <2>2, RefusedKeepsInv, HoldKeepsInv, DriveKeepsInv, ResetKeepsInv
          DEF FeedbackNext, Step
<1> QED BY <1>1, FeedbackInvInit, PTL DEF FeedbackSpec

(* The outputs and the history of the controller stay in their ranges.     *)
THEOREM FeedbackTypeCorrect == FeedbackSpec => []FeedbackTypeOK
<1>1. FeedbackInv => FeedbackTypeOK
  BY DEF FeedbackInv
<1> QED BY <1>1, FeedbackInvariant, PTL

(* While the stop is latched there is no throttle, and none is saved up.   *)
THEOREM StopReleasesThrottle == FeedbackSpec => []LatchedNeverDrives
<1>1. FeedbackInv => LatchedNeverDrives
  BY DEF FeedbackInv
<1> QED BY <1>1, FeedbackInvariant, PTL

(* What the actuator service assumes of an output.                         *)
THEOREM OutputsKeepContract == FeedbackSpec => []OutputContract
<1>1. FeedbackInv => OutputContract
  BY DEF FeedbackInv
<1> QED BY <1>1, FeedbackInvariant, PTL

(* Throttle and brake grow at most by the slew of the elapsed time.        *)
THEOREM EffortGrowsGradually == FeedbackSpec => EffortIsGradual
<1> DEFINE Gradual ==
      LET delta    == LongitudinalSlew * given'.dt
          throttle == IF effort > 0 THEN effort ELSE 0
          brake    == IF effort < 0 THEN -effort ELSE 0
      IN  ValidInput(given') => effort' <= throttle + delta /\ -effort' <= brake + delta
<1>1. ASSUME FeedbackInv, NEW in \in Input, StepRefused(in) \/ StepHolds(in)
      PROVE  Gradual
  <2>1. effort' = 0 /\ given' = in
    BY <1>1 DEF StepRefused, StepHolds
  <2>2. ValidInput(in) => LongitudinalSlew * in.dt \in Nat
    BY FeedbackAssumption DEF ValidInput
  <2>3. effort \in Int
    BY <1>1, FeedbackAssumption DEF FeedbackInv, FeedbackTypeOK
  <2> QED BY <2>1, <2>2, <2>3
<1>2. ASSUME FeedbackInv, NEW in \in Input, StepDrives(in)
      PROVE  Gradual
  <2> DEFINE target == IF Latched(in) THEN -StopBrakeEffort ELSE EffortTarget(in)
             slew   == LongitudinalSlew * in.dt
  <2>1. given' = in /\ effort' = SlewedEffort(effort, target, slew)
    BY <1>2 DEF StepDrives
  <2>2. slew \in Nat /\ EffortTarget(in) \in -MaxBrakeEffort..MaxThrottleEffort
    BY <1>2, TargetsInRange, FeedbackAssumption DEF StepDrives, FeedbackInv
  <2>3. target \in -MaxBrakeEffort..MaxThrottleEffort
    BY <2>2, FeedbackAssumption
  <2>4. effort \in -MaxBrakeEffort..MaxThrottleEffort
    BY <1>2 DEF FeedbackInv, FeedbackTypeOK
  <2> HIDE DEF target, slew
  <2>5. /\ effort' <= (IF effort > 0 THEN effort ELSE 0) + slew
        /\ -effort' <= (IF effort < 0 THEN -effort ELSE 0) + slew
    BY <2>1, <2>2, <2>3, <2>4, FeedbackAssumption DEF SlewedEffort, Slewed, Limited
  <2> QED BY <2>1, <2>5 DEF slew
<1>3. ASSUME FeedbackInv, Reset \/ UNCHANGED feedbackVars
      PROVE  Gradual \/ UNCHANGED feedbackVars
  <2>1. CASE Reset
    <3>1. effort' = 0 /\ given' = given
      BY <2>1 DEF Reset
    <3>2. ValidInput(given) => LongitudinalSlew * given.dt \in Nat
      BY FeedbackAssumption DEF ValidInput
    <3>3. effort \in Int
      BY <1>3, FeedbackAssumption DEF FeedbackInv, FeedbackTypeOK
    <3> QED BY <3>1, <3>2, <3>3
  <2> QED BY <1>3, <2>1
<1>4. FeedbackInv /\ [FeedbackNext]_feedbackVars => [Gradual]_feedbackVars
  <2>1. Inputs \subseteq Input
    BY FeedbackAssumption
  <2> HIDE DEF Gradual
  <2> QED BY <1>1, <1>2, <1>3, <2>1 DEF FeedbackNext, Step
<1> QED BY <1>4, FeedbackInvariant, PTL DEF FeedbackSpec, EffortIsGradual

(* The speed integral only grows while the effort asked for has room: the  *)
(* candidate that saturates an output already pushed that way is dropped.  *)
THEOREM SpeedNeverWindsUp == FeedbackSpec => NoWindup
<1> DEFINE NotWound ==
      LET err   == given'.desiredSpeed - given'.speed
          asked == SpeedKp * err + SpeedKi * speedIntegral'
      IN  StepDrives(given') /\ ~stopLatched' =>
            /\ err > 0 /\ speedIntegral' > speedIntegral => asked <= MaxThrottleEffort
            /\ err < 0 /\ speedIntegral' < speedIntegral => asked >= -MaxBrakeEffort
<1>1. ASSUME FeedbackInv, given' \in Input, StepDrives(given'), ~stopLatched'
      PROVE  NotWound
  <2> DEFINE in    == given'
             asked == SpeedKp * SpeedError(in) + SpeedKi * speedIntegral'
  <2>1. speedIntegral' = NextSpeedIntegral(in)
    BY <1>1 DEF StepDrives
  <2>2. CASE Pushes(SpeedUnsaturated(in), -MaxBrakeEffort, MaxThrottleEffort, SpeedError(in))
    <3>1. speedIntegral' = speedIntegral /\ speedIntegral \in Int
      BY <1>1, <2>1, <2>2, FeedbackAssumption
         DEF NextSpeedIntegral, FeedbackInv, FeedbackTypeOK
    <3> QED BY <3>1
  <2>3. CASE ~Pushes(SpeedUnsaturated(in), -MaxBrakeEffort, MaxThrottleEffort, SpeedError(in))
    <3>1. asked = SpeedUnsaturated(in)
      BY <2>1, <2>3 DEF NextSpeedIntegral, SpeedUnsaturated
    <3>2. SpeedError(in) \in Int /\ in.dt \in Int
      BY <1>1 DEF SpeedError, Input
    <3>3. SpeedCandidate(in) \in Int
      <4>1. speedIntegral + SpeedError(in) * in.dt \in Int
        BY <1>1, <3>2, FeedbackAssumption DEF FeedbackInv, FeedbackTypeOK
      <4> QED BY <4>1, FeedbackAssumption DEF SpeedCandidate, Limited
    <3>4. SpeedUnsaturated(in) \in Int
      BY <3>2, <3>3, FeedbackAssumption DEF SpeedUnsaturated
    <3>5. /\ SpeedError(in) > 0 => asked <= MaxThrottleEffort
          /\ SpeedError(in) < 0 => asked >= -MaxBrakeEffort
      BY <2>3, <3>1, <3>2, <3>4, Bounds DEF Pushes
    <3> QED BY <3>5 DEF SpeedError
  <2> QED BY <2>2, <2>3
<1>2. FeedbackInv /\ [FeedbackNext]_feedbackVars => [NotWound]_feedbackVars
  <2>1. \A in \in Inputs : Step(in) => given' \in Input
    BY FeedbackAssumption DEF Step, StepRefused, StepHolds, StepDrives
  <2>2. FeedbackInv /\ Reset => given' \in Input
    BY DEF Reset, FeedbackInv, FeedbackTypeOK
  <2>3. ~(StepDrives(given') /\ ~stopLatched') => NotWound
    OBVIOUS
  <2> HIDE DEF NotWound
  <2> QED BY <1>1, <2>1, <2>2, <2>3 DEF FeedbackNext
<1> QED BY <1>2, FeedbackInvariant, PTL DEF FeedbackSpec, NoWindup
=============================================================================
