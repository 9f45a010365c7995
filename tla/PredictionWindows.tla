-------------------------- MODULE PredictionWindows --------------------------
(***************************************************************************)
(* What a session of parking inference drives from                         *)
(* (backend/internal/capture/inference.go, parking_inference_safety.go):   *)
(* FFmpeg's frames are dated, gathered into windows and queued; a worker   *)
(* takes a window, picks the telemetry that belongs to it, asks the model  *)
(* server, and hands the plan to the actuator, looking at the telemetry    *)
(* before and after.  Telemetry arrives all the while.                     *)
(*                                                                         *)
(* How a session ends, the hold, the locks and the goroutines a finished   *)
(* session leaves behind are module ParkingSession's; here a session is    *)
(* over for good.                                                          *)
(***************************************************************************)
EXTENDS TelemetryStore, SetpointPlan

CONSTANTS
  ImageOffsets, DispatchStride, FrameInterval,    \* of the inference config
  TelemetryOffsets, SampleInterval, AlignmentTolerance, MaxSkew,
  CadenceTolerance, ClockLead,    \* framePTSCadenceTolerance, framePTSClockLeadTolerance
  TimingTimeout, TimingBuffer,    \* of the wait for a line, and of frameTimings
  StaleAfter,                     \* telemetryStaleAfter
  Answers,                        \* of the model server
  MaxFrames, MaxFaults            \* bounds

ASSUME WindowsAssumption ==
  /\ {DispatchStride, FrameInterval, SampleInterval, AlignmentTolerance, TimingBuffer} \subseteq Nat \ {0}
  /\ {MaxSkew, CadenceTolerance, ClockLead, TimingTimeout,
      StaleAfter, MaxFrames, MaxFaults} \subseteq Nat
  /\ \A offsets \in {ImageOffsets, TelemetryOffsets} :
       /\ offsets \in Seq(Int) /\ offsets # <<>> /\ Last(offsets) = 0
       /\ \A i, j \in 1..Len(offsets) : i < j => offsets[i] < offsets[j]
  /\ \A answer \in Answers : answer.fits \in BOOLEAN /\ answer.points \in Seq(Setpoint)

VARIABLES
  session,    \* its state, the bay it is bound to, startEnvelopePending, its start and its end
  observed,   \* how many lines of FFmpeg's were read
  timings,    \* the channel frameTimings
  clock,      \* the inferenceFrameClock
  consumer,   \* consumeInferenceFrames: where it is, the next frame, its buffer, sequence and window
  predictQ,   \* the prediction queue
  worker,     \* runPredictionWorker: where it is, its window, what it saw and selected
  plan,       \* the plan submitted last
  faults,     \* how many faults there were
  highest,    \* auxiliary: the newest time of a sample with a seated driver
  wasNear     \* auxiliary: whether during the session the car was seen in the envelope of a start

cameraVars   == <<observed, timings, clock, consumer, predictQ>>
plannerVars  == <<worker, plan>>
inferVars    == <<session, cameraVars, plannerVars, faults>>
auxVars      == <<highest, wasNear>>
windowVars   == <<now, gameVars, storeVars, inferVars, auxVars>>

None == [none |-> TRUE]

(* Idle workers and consumers hold nothing.                                *)
NoClock  == [anchor |-> 0, firstPts |-> 0, lastPts |-> 0, lastObserved |-> 0]
NoWork   == [pc |-> "idle", window |-> None, seen |-> None, inputs |-> <<>>,
             sampledAt |-> 0, answer |-> <<>>]
NoFrames == [pc |-> "read", next |-> 0, buffer |-> <<>>, sequence |-> 0, window |-> None]
NoPlan   == [sequence |-> 0, frame |-> -1, sampledAt |-> 0, points |-> <<>>]

WindowsInit ==
  /\ StoreInit
  /\ session = [state |-> "idle", bay |-> "none", pending |-> FALSE, since |-> 0, ended |-> "not"]
  /\ observed = 0 /\ timings = <<>> /\ clock = NoClock
  /\ consumer = NoFrames /\ predictQ = <<>> /\ worker = NoWork /\ plan = NoPlan
  /\ faults = 0 /\ highest = 0 /\ wasNear = FALSE

Active == session.state = "active"

(* A fault of another part, of which a run sees a few.                     *)
Fault == faults < MaxFaults /\ faults' = faults + 1

-----------------------------------------------------------------------------
IsNear(shows) == shows.near /\ shows.bay = session.bay

(* The telemetry: the store's steps, and what they mean for the session;   *)
(* once that is over they are not followed.                                *)
Telemetry ==
  /\ session.state # "over"
  /\ \/ (TimePasses \/ Send) /\ UNCHANGED <<inferVars, auxVars>>
     \/ /\ Receive
        /\ worker' = IF worker.seen = None THEN worker ELSE [worker EXCEPT !.seen.last = FALSE]
        /\ highest' = IF Last(history').shows.seated /\ ego'.time > highest THEN ego'.time ELSE highest
        /\ wasNear' = (wasNear \/ (Active /\ IsNear(Last(history').shows)))
        /\ UNCHANGED <<session, cameraVars, plan, faults>>

(* validateParkingSourceTimestamp, and the age of the arrival.             *)
SourceIsFresh(time, at) == time > 0 /\ at - time >= -ClockLead /\ at - time <= StaleAfter
ArrivalIsFresh(at) == updatedAt > 0 /\ at - updatedAt <= StaleAfter

(* The check of the telemetry reads the store twice: for the latest        *)
(* telemetry, and later for the latest ego telemetry.                      *)
LatestIsFresh ==
  history # <<>> /\ ArrivalIsFresh(now) /\ SourceIsFresh(Last(history).time, now)
    /\ Last(history).shows.bay # "none"

Seen == [shows |-> Last(history).shows, time |-> Last(history).time, at |-> now, last |-> TRUE]

EgoIsSound(seen) == ArrivalIsFresh(seen.at) /\ SourceIsFresh(ego.time, seen.at) /\ ego.valid

OperatingStateIsReady(seen) == EgoIsSound(seen) /\ seen.shows.phase = "ready"
Completed(seen) == EgoIsSound(seen) /\ seen.shows.phase = "parked"

-----------------------------------------------------------------------------
(* The start of a session.  Its two checks of the telemetry are one step   *)
(* each; between them the model is loaded.                                 *)
StartIsAllowed == LatestIsFresh /\ OperatingStateIsReady(Seen) /\ Last(history).shows.near

Start ==
  /\ session.state = "idle" /\ StartIsAllowed
  /\ session' = [session EXCEPT !.state = "loading"]
  /\ UNCHANGED <<now, gameVars, storeVars, cameraVars, plannerVars, faults, auxVars>>

BindTarget ==
  /\ session.state = "loading"
  /\ session' = IF StartIsAllowed THEN [session EXCEPT !.state = "bound", !.bay = Last(history).shows.bay]
                ELSE [session EXCEPT !.state = "idle"]
  /\ UNCHANGED <<now, gameVars, storeVars, cameraVars, plannerVars, faults, auxVars>>

(* A fault to be caught: the envelope is not looked at again.              *)
ActivateChecked ==
  /\ session.state = "bound"
  /\ session' = [session EXCEPT !.state = "active", !.since = now]
  /\ wasNear' = IsNear(Last(history).shows)
  /\ UNCHANGED <<now, gameVars, storeVars, cameraVars, plannerVars, faults, highest>>

Activate ==
  /\ session.state = "bound"
  /\ session' = [session EXCEPT !.state = "active", !.pending = TRUE, !.since = now]
  /\ wasNear' = IsNear(Last(history).shows)
  /\ UNCHANGED <<now, gameVars, storeVars, cameraVars, plannerVars, faults, highest>>

(* terminateParkingInference: the first cause counts, and it waits for the *)
(* worker while that holds actuationMu.  What the session had goes with it.*)
End(cause) ==
  /\ session' = [session EXCEPT !.state = "over", !.ended = cause]
  /\ observed' = 0 /\ timings' = <<>> /\ clock' = NoClock
  /\ consumer' = NoFrames /\ predictQ' = <<>> /\ worker' = NoWork

Terminate(cause) == Active /\ worker.pc # "submit" /\ End(cause)

(* The user stops the session, its deadline passes, or FFmpeg exits.       *)
SessionEnds ==
  /\ Fault /\ Terminate("stopped")
  /\ UNCHANGED <<now, gameVars, storeVars, plan, auxVars>>

-----------------------------------------------------------------------------
(* The frames.  FFmpeg captures a frame every FrameInterval and writes a   *)
(* line about each, which the stderr reader dates when it reads it.        *)
CapturedAt(index) == session.since + index * FrameInterval
Captured(index) == Active /\ index < MaxFrames /\ CapturedAt(index) <= now

Line(index, pts, ok) == [index |-> index, pts |-> pts, observed |-> now, ok |-> ok]

ReadLine(line, read) ==
  /\ Captured(observed) /\ Len(timings) < TimingBuffer
  /\ timings' = Append(timings, line) /\ observed' = observed + read
  /\ UNCHANGED <<now, gameVars, storeVars, session, clock, consumer, predictQ, plannerVars, auxVars>>

ReadTiming == ReadLine(Line(observed, observed * FrameInterval, TRUE), 1) /\ UNCHANGED faults

(* A line is malformed, missing, or has another time than its frame.       *)
ReadBadTiming ==
  /\ Fault
  /\ \/ ReadLine(Line(observed, 0, FALSE), 1)
     \/ Captured(observed + 1) /\ ReadLine(Line(observed + 1, (observed + 1) * FrameInterval, TRUE), 2)
     \/ \E pts \in {observed * FrameInterval - 1, observed * FrameInterval + 1} \cap Nat :
          ReadLine(Line(observed, pts, TRUE), 1)

(* inferenceFrameClock.resolve: frames are dated from the first line's     *)
(* arrival on, by their own time.                                          *)
Distance(a, b) == IF a > b THEN a - b ELSE b - a

(* A fault to be caught: frames are dated by their line's arrival.         *)
ResolvedAtArrival(timing) == timing.observed

Resolved(timing) ==
  IF consumer.next = 0 THEN timing.observed ELSE clock.anchor + timing.pts - clock.firstPts

TimingFits(timing) ==
  /\ timing.ok /\ timing.index = consumer.next
  /\ consumer.next > 0 =>
       /\ timing.pts > clock.lastPts /\ timing.observed >= clock.lastObserved
       /\ Distance(timing.pts - clock.firstPts, consumer.next * FrameInterval) <= CadenceTolerance
       /\ clock.anchor + timing.pts - clock.firstPts <= timing.observed + ClockLead

Advanced(timing) ==
  [anchor   |-> IF consumer.next = 0 THEN timing.observed ELSE clock.anchor,
   firstPts |-> IF consumer.next = 0 THEN timing.pts ELSE clock.firstPts,
   lastPts  |-> timing.pts, lastObserved |-> timing.observed]

RequiredFrames == -ImageOffsets[1]

(* shouldDispatchInferenceFrame and buildPredictionWindow.                 *)
ShouldDispatch(index) == index >= RequiredFrames /\ index % DispatchStride = 0

BuildWindow(buffer, sequence) ==
  LET last == Last(buffer)
      IsAt(frame, i) == frame.index = last.index + ImageOffsets[i]
      Frame(i) == CHOOSE frame \in ToSet(buffer) : IsAt(frame, i)
  IN IF \A i \in DOMAIN ImageOffsets : \E frame \in ToSet(buffer) : IsAt(frame, i)
     THEN [sequence |-> sequence, frame |-> last.index, capturedAt |-> last.at,
           frames |-> [i \in DOMAIN ImageOffsets |-> Frame(i)]]
     ELSE None

ConsumeFrame ==
  /\ consumer.pc = "read" /\ Captured(consumer.next) /\ timings # <<>>
  /\ \/ ~TimingFits(Head(timings)) /\ Terminate("failed")
     \/ /\ TimingFits(Head(timings))
        /\ LET frame == [index |-> consumer.next, at |-> Resolved(Head(timings))]
               buffer == Newest(Append(consumer.buffer, frame), RequiredFrames + 1)
               sequence == consumer.sequence + (IF ShouldDispatch(frame.index) THEN 1 ELSE 0)
               window == IF ShouldDispatch(frame.index) THEN BuildWindow(buffer, sequence) ELSE None
           IN consumer' = [pc |-> IF window = None THEN "read" ELSE "offer", next |-> consumer.next + 1,
                           buffer |-> buffer, sequence |-> sequence, window |-> window]
        /\ timings' = Tail(timings) /\ clock' = Advanced(Head(timings))
        /\ UNCHANGED <<session, observed, predictQ, worker>>
  /\ UNCHANGED <<now, gameVars, storeVars, plan, faults, auxVars>>

(* A frame's line does not come in time.                                   *)
TimingTimesOut ==
  /\ consumer.pc = "read" /\ Captured(consumer.next) /\ timings = <<>>
  /\ now >= CapturedAt(consumer.next) + TimingTimeout
  /\ Terminate("failed")
  /\ UNCHANGED <<now, gameVars, storeVars, plan, faults, auxVars>>

(* The frames or the lines end.                                            *)
StreamEnds ==
  /\ consumer.pc = "read" /\ Fault /\ Terminate("failed")
  /\ UNCHANGED <<now, gameVars, storeVars, plan, auxVars>>

(* enqueuePredictionWindow: when the queue is full the consumer removes    *)
(* what waits, unless the worker just took it, and then puts its own.      *)
Put ==
  /\ predictQ = <<>> /\ predictQ' = <<consumer.window>>
  /\ consumer' = [consumer EXCEPT !.pc = "read", !.window = None]

(* A fault to be caught: a window that finds the queue full is dropped.    *)
OfferOrGiveUp ==
  /\ Active /\ consumer.pc = "offer"
  /\ \/ Put
     \/ predictQ # <<>> /\ consumer' = [consumer EXCEPT !.pc = "read", !.window = None] /\ UNCHANGED predictQ
  /\ UNCHANGED <<now, gameVars, storeVars, session, observed, timings, clock, plannerVars, faults, auxVars>>

Offer ==
  /\ Active /\ consumer.pc = "offer"
  /\ \/ Put
     \/ predictQ # <<>> /\ consumer' = [consumer EXCEPT !.pc = "drop"] /\ UNCHANGED predictQ
  /\ UNCHANGED <<now, gameVars, storeVars, session, observed, timings, clock, plannerVars, faults, auxVars>>

DropOldest ==
  /\ Active /\ consumer.pc = "drop"
  /\ predictQ' = <<>> /\ consumer' = [consumer EXCEPT !.pc = "put"]
  /\ UNCHANGED <<now, gameVars, storeVars, session, observed, timings, clock, plannerVars, faults, auxVars>>

Enqueue ==
  /\ Active /\ consumer.pc = "put" /\ Put
  /\ UNCHANGED <<now, gameVars, storeVars, session, observed, timings, clock, plannerVars, faults, auxVars>>

-----------------------------------------------------------------------------
(* The worker.                                                             *)
Take ==
  /\ Active /\ worker.pc = "idle" /\ predictQ # <<>>
  /\ worker' = [worker EXCEPT !.pc = "check", !.window = Head(predictQ)]
  /\ predictQ' = Tail(predictQ)
  /\ UNCHANGED <<now, gameVars, storeVars, session, observed, timings, clock, consumer, plan, faults, auxVars>>

(* validateActiveParkingInference reads the telemetry, then the ego        *)
(* telemetry; what it decides depends on the telemetry it read before.     *)
LookAtTelemetry(next) ==
  IF LatestIsFresh
  THEN worker' = [worker EXCEPT !.pc = next, !.seen = Seen] /\ UNCHANGED <<session, cameraVars>>
  ELSE End("failed")

ActiveCheckPasses ==
  /\ OperatingStateIsReady(worker.seen) /\ worker.seen.shows.bay = session.bay
  /\ session.pending => worker.seen.shows.near

CheckFailed == ~ActiveCheckPasses /\ End(IF Completed(worker.seen) THEN "parked" ELSE "failed")

Look ==
  /\ Active /\ worker.pc = "check" /\ LookAtTelemetry("ego")
  /\ UNCHANGED <<now, gameVars, storeVars, plan, faults, auxVars>>

Check ==
  /\ Active /\ worker.pc = "ego"
  /\ \/ CheckFailed
     \/ /\ ActiveCheckPasses
        /\ session' = [session EXCEPT !.pending = FALSE]
        /\ worker' = [worker EXCEPT !.pc = "select", !.seen = None]
        /\ UNCHANGED cameraVars
  /\ UNCHANGED <<now, gameVars, storeVars, plan, faults, auxVars>>

(* findAnchorTelemetryIndex walks back from the newest arrival; a sample   *)
(* out of tolerance ends the walk once one within tolerance was found.     *)
Delta(i, date) == date - history[i].time

(* A fault to be caught: the nearest sample anchors, before or after.      *)
EligibleEitherSide(date) ==
  {i \in DOMAIN history : history[i].time > 0 /\ Distance(history[i].time, date) <= AlignmentTolerance}

Eligible(date) ==
  {i \in DOMAIN history : history[i].time > 0 /\ Delta(i, date) >= 0 /\ Delta(i, date) <= AlignmentTolerance}

Reached(i, date) ==
  ~\E j \in i + 1..Len(history) :
     /\ Delta(j, date) > AlignmentTolerance
     /\ \E k \in j + 1..Len(history) : k \in Eligible(date)

Anchors(date) ==
  LET reached == {i \in Eligible(date) : Reached(i, date)}
  IN {i \in reached : \A j \in reached \ {i} :
        \/ Distance(history[i].time, date) < Distance(history[j].time, date)
        \/ Distance(history[i].time, date) = Distance(history[j].time, date) /\ j < i}

(* closestEarlierTelemetrySample: before the sample chosen last both in    *)
(* the order of arrival and in time; of equals the later arrival.          *)
ClosestEarlier(upper, target) ==
  LET earlier == {i \in 1..upper - 1 : history[i].time > 0 /\ history[i].time < history[upper].time}
  IN {i \in earlier : \A j \in earlier \ {i} :
        \/ Distance(history[i].time, target) < Distance(history[j].time, target)
        \/ Distance(history[i].time, target) = Distance(history[j].time, target) /\ j < i}

(* selectTelemetryAtOffsets: the anchor, and before each sample the        *)
(* closest earlier one for its offset; there is at most one such choice.   *)
OffsetTolerance == IF AlignmentTolerance > SampleInterval \div 2 THEN SampleInterval \div 2 ELSE AlignmentTolerance

SelectionsAtOffsets(anchor) ==
  LET last == Len(TelemetryOffsets)
      Target(k) == history[anchor].time + TelemetryOffsets[k] * SampleInterval
  IN {chosen \in [1..last -> DOMAIN history] :
        /\ chosen[last] = anchor
        /\ \A k \in 1..last - 1 :
             /\ chosen[k] \in ClosestEarlier(chosen[k + 1], Target(k))
             /\ Distance(history[chosen[k]].time, Target(k)) <= OffsetTolerance}

(* buildPlannerSelection: what belongs to a window taken at a time.        *)
PlannerSelections(date) ==
  LET latest == Last(history).time
      chosen == UNION {SelectionsAtOffsets(anchor) : anchor \in Anchors(date)}
  IN {[k \in DOMAIN c |-> history[c[k]].time] :
        c \in {c \in chosen : /\ now - latest >= -ClockLead /\ now - latest <= StaleAfter
                              /\ Distance(date, history[Last(c)].time) <= MaxSkew}}

Select ==
  /\ Active /\ worker.pc = "select"
  /\ LET date == worker.window.capturedAt
     IN \/ \E times \in PlannerSelections(date) :
             /\ worker' = [worker EXCEPT !.pc = "ask", !.inputs = times,
                                         !.sampledAt = IF Last(times) > date THEN Last(times) ELSE date]
             /\ UNCHANGED <<session, cameraVars>>
        \/ PlannerSelections(date) = {} /\ End("failed")
  /\ UNCHANGED <<now, gameVars, storeVars, plan, faults, auxVars>>

(* The server answers, or the request fails or times out.  An answer fits  *)
(* when it is of the session's checkpoint and configuration, echoes the    *)
(* observation's time and has the shape asked for.                         *)
ServerAnswers ==
  /\ Active /\ worker.pc = "ask"
  /\ \E answer \in Answers :
       IF answer.fits /\ ValidatePlan(worker.sampledAt, now, answer.points)
       THEN worker' = [worker EXCEPT !.pc = "recheck", !.answer = answer.points] /\ UNCHANGED <<session, cameraVars>>
       ELSE End("failed")
  /\ UNCHANGED <<now, gameVars, storeVars, plan, faults, auxVars>>

(* A fault to be caught: the request has no timeout, and only ends with    *)
(* the session.                                                            *)
PredictionFailsWithSession ==
  /\ ~Active /\ worker.pc = "ask" /\ End("failed")
  /\ UNCHANGED <<now, gameVars, storeVars, plan, faults, auxVars>>

PredictionFails ==
  /\ Active /\ worker.pc = "ask" /\ End("failed")
  /\ UNCHANGED <<now, gameVars, storeVars, plan, faults, auxVars>>

LookAgain ==
  /\ Active /\ worker.pc = "recheck" /\ LookAtTelemetry("submit")
  /\ UNCHANGED <<now, gameVars, storeVars, plan, faults, auxVars>>

(* submitActiveParkingPrediction; the actuator may refuse the plan.        *)
Submit ==
  /\ Active /\ worker.pc = "submit"
  /\ \/ CheckFailed /\ UNCHANGED <<plan, faults>>
     \/ ActiveCheckPasses /\ Fault /\ End("failed") /\ UNCHANGED plan
     \/ /\ ActiveCheckPasses
        /\ plan' = [sequence |-> worker.window.sequence, frame |-> worker.window.frame,
                    sampledAt |-> worker.sampledAt, points |-> worker.answer]
        /\ worker' = NoWork /\ UNCHANGED <<session, cameraVars, faults>>
  /\ UNCHANGED <<now, gameVars, storeVars, auxVars>>

-----------------------------------------------------------------------------
Consumer == ConsumeFrame \/ Offer \/ DropOldest \/ Enqueue
Worker == Take \/ Look \/ Check \/ Select \/ PredictionFails \/ LookAgain \/ Submit

WindowsNext ==
  \/ Telemetry
  \/ Start \/ BindTarget \/ Activate \/ SessionEnds
  \/ ReadTiming \/ ReadBadTiming \/ TimingTimesOut \/ StreamEnds \/ Consumer
  \/ Worker \/ ServerAnswers

WindowsSpec == WindowsInit /\ [][WindowsNext]_windowVars

(* Both goroutines run on, and a request ends by its timeout; when FFmpeg  *)
(* writes, the server answers, telemetry arrives or the user acts is open. *)
WindowsFairness == WF_windowVars(Consumer) /\ WF_windowVars(Worker)

FairWindowsSpec == WindowsSpec /\ WindowsFairness

-----------------------------------------------------------------------------
(* Properties.                                                             *)

Frames    == [index : Nat, at : Int]
Windows   == [sequence : Nat, frame : Nat, capturedAt : Int, frames : [DOMAIN ImageOffsets -> Frames]]
Lines     == [index : Nat, pts : Nat, observed : Nat, ok : BOOLEAN]
Clocks    == [anchor : Nat, firstPts : Nat, lastPts : Nat, lastObserved : Nat]
Looks     == [shows : Games, time : Int, at : Nat, last : BOOLEAN]
Plans     == [sequence : Nat, frame : Int, sampledAt : Int, points : Seq(Setpoint)]
Sessions  == [state : {"idle", "loading", "bound", "active", "over"}, bay : {"none", "a", "b"},
              pending : BOOLEAN, since : Nat, ended : {"not", "stopped", "failed", "parked"}]
Consumers == [pc : {"read", "offer", "drop", "put"}, next : 0..MaxFrames, buffer : Seq(Frames),
              sequence : Nat, window : Windows \cup {None}]
Workers   == [pc : {"idle", "check", "ego", "select", "ask", "recheck", "submit"},
              window : Windows \cup {None}, seen : Looks \cup {None},
              inputs : Seq(Int), sampledAt : Int, answer : Seq(Setpoint)]

WindowsTypeOK ==
  /\ StoreTypeOK
  /\ session \in Sessions /\ observed \in 0..MaxFrames
  /\ timings \in Seq(Lines) /\ Len(timings) <= TimingBuffer
  /\ clock \in Clocks /\ consumer \in Consumers
  /\ predictQ \in Seq(Windows) /\ Len(predictQ) <= 1
  /\ worker \in Workers /\ plan \in Plans
  /\ faults \in 0..MaxFaults /\ highest \in Nat /\ wasNear \in BOOLEAN

(* A plan goes out on a check that saw the newest sound telemetry that the *)
(* backend has, of the session's bay and fit to drive on, never a delayed  *)
(* sample, unless more telemetry arrived during the check (store.go        *)
(* UpdateTelemetry, parking_inference_safety.go                            *)
(* validateActiveParkingInference).                                        *)
PlanKnowsTheLatest ==
  [][plan' # plan /\ worker.seen.last =>
       /\ worker.seen.time = highest
       /\ worker.seen.shows.phase = "ready" /\ worker.seen.shows.bay = session.bay]_windowVars

(* Each plan of a session is of a later observation than the one before.   *)
PlansAdvance ==
  [][plan' # plan => plan'.frame > plan.frame /\ plan'.sequence > plan.sequence
                       /\ plan'.sampledAt > plan.sampledAt]_windowVars

(* Both: what drives the car is never behind what the backend knows, nor   *)
(* behind what drove it before.                                            *)
PlansAreCurrent == PlanKnowsTheLatest /\ PlansAdvance

(* What is asked of the model belongs together: consecutive frames, dated  *)
(* within the tolerances of their cadence and of the clocks, and           *)
(* telemetry at the offsets from a sample that the newest frame does not   *)
(* precede (consumeInferenceFrames, buildPlannerSelection).                *)
InputsAreOfTheFrame ==
  worker.inputs # <<>> =>
    LET window == worker.window
        inputs == worker.inputs
    IN /\ \A i \in DOMAIN window.frames :
            /\ window.frames[i].index = window.frame + ImageOffsets[i]
            /\ window.frames[i].at >= CapturedAt(window.frames[i].index) - CadenceTolerance
            /\ window.frames[i].at <= now + ClockLead
       /\ Last(inputs) \in window.capturedAt - AlignmentTolerance .. window.capturedAt
       /\ \A i \in 1..Len(inputs) - 1 : inputs[i] < inputs[i + 1]
       /\ \A i \in DOMAIN inputs :
            Distance(inputs[i], Last(inputs) + TelemetryOffsets[i] * SampleInterval) <= OffsetTolerance

(* What waits for the worker is the newest window there is: an older one   *)
(* never waits while a newer one was thrown away (enqueuePredictionWindow).*)
NewestWindowWaits ==
  predictQ # <<>> /\ consumer.pc = "read" => Head(predictQ).sequence = consumer.sequence

(* Every window is handed on, replaced, handled or ended with its session, *)
(* though the server may never answer.                                     *)
Pending(sequence) ==
  Active /\ \E window \in {consumer.window, worker.window} \cup ToSet(predictQ) :
              window # None /\ window.sequence = sequence

WindowsAreHandled == \A sequence \in 1..MaxFrames - RequiredFrames : Pending(sequence) ~> ~Pending(sequence)

(* The car drives only after it was seen at the start of the session's bay *)
(* once the session was active, wherever it was moved while the model was  *)
(* loaded (inference.go Start, validateActiveParkingInference).            *)
DrivesFromEnvelope ==
  plan # NoPlan => wasNear

=============================================================================
