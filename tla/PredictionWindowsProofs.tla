----------------------- MODULE PredictionWindowsProofs -----------------------
(***************************************************************************)
(* What a session of inference drives from, for any frames, samples,       *)
(* tolerances and answers: the frames of a window belong together, the     *)
(* rows belong to the frame, plans follow one another, and go out on the   *)
(* newest telemetry that the checks could see.                             *)
(***************************************************************************)
EXTENDS PredictionWindows, SequenceTheorems, WellFoundedInduction, TLAPS

-----------------------------------------------------------------------------
(* The inductive invariant, part by part.                                  *)

(* The order check of the adapter keeps the newest time; a valid ego       *)
(* sample is the one that the history has last.                            *)
EgoFits ==
  /\ lastTimestamp = highest
  /\ ego.valid => history # <<>> /\ ego.time = highest /\ Last(history).time = ego.time

(* Before and after a session there is nothing of one.                     *)
RestFits ==
  /\ ~Active => /\ observed = 0 /\ timings = <<>> /\ clock = NoClock
                /\ consumer = NoFrames /\ predictQ = <<>> /\ worker = NoWork
  /\ session.state \in {"idle", "loading", "bound"} => plan = NoPlan /\ session.ended = "not"
  /\ session.state = "active" => session.ended = "not"

(* Where consumer and worker stand says what they hold.                    *)
StepsFit ==
  /\ consumer.window = None <=> consumer.pc = "read"
  /\ consumer.pc = "put" => predictQ = <<>>
  /\ worker.window = None <=> worker.pc = "idle"
  /\ worker.seen = None <=> worker.pc \notin {"ego", "submit"}
  /\ worker.inputs = <<>> <=> worker.pc \notin {"ask", "recheck", "submit"}

(* What the worker saw was the newest, unless a sample arrived since.      *)
SeenFits ==
  worker.seen # None =>
    /\ worker.seen.last => history # <<>> /\ worker.seen.shows = Last(history).shows
                                          /\ worker.seen.time = Last(history).time
    /\ IsNear(worker.seen.shows) => wasNear

(* Who is allowed to drive has been seen in the envelope.                  *)
EnvelopeFits ==
  /\ Active /\ history # <<>> /\ IsNear(Last(history).shows) => wasNear
  /\ Active /\ ~session.pending => wasNear
  /\ plan # NoPlan => wasNear

(* A line is read once its frame was captured, and frames are dated by the *)
(* first line's arrival and their own time.                                *)
FrameDate == clock.anchor + clock.lastPts - clock.firstPts

LinesFit ==
  /\ session.since <= now
  /\ Active => session.since > 0
  /\ \A i \in 1..Len(timings) :
       CapturedAt(timings[i].index) <= timings[i].observed /\ timings[i].observed <= now

ClockFits ==
  IF consumer.next = 0 THEN clock = NoClock
  ELSE clock.anchor >= session.since /\ clock.lastPts >= clock.firstPts

FrameFits(frame) ==
  frame.at >= CapturedAt(frame.index) - CadenceTolerance /\ frame.at <= now + ClockLead

(* The buffer holds the latest frames without a gap.                       *)
Kept == IF consumer.next <= RequiredFrames THEN consumer.next ELSE RequiredFrames + 1

BufferFits ==
  /\ Len(consumer.buffer) = Kept
  /\ \A i \in 1..Kept : /\ consumer.buffer[i].index = consumer.next - Kept + i - 1
                        /\ FrameFits(consumer.buffer[i])

(* A window is of consecutive frames.                                      *)
WindowFits(window) ==
  \A i \in DOMAIN ImageOffsets :
    window.frames[i].index = window.frame + ImageOffsets[i] /\ FrameFits(window.frames[i])

WindowsFit ==
  /\ consumer.window # None => WindowFits(consumer.window)
  /\ predictQ # <<>> => WindowFits(predictQ[1])
  /\ worker.window # None => WindowFits(worker.window)

(* Windows and plans keep the order of their frames: what drives precedes  *)
(* what the worker has, that what waits, and that what comes.              *)
Precedes(a, b) == a.sequence < b.sequence /\ a.frame < b.frame /\ a.capturedAt < b.capturedAt

PlanPlace == [sequence |-> plan.sequence, frame |-> plan.frame, capturedAt |-> plan.sampledAt]

IsPast(a) ==
  /\ a.sequence <= consumer.sequence /\ a.frame < consumer.next /\ a.capturedAt <= FrameDate
  /\ consumer.window # None => Precedes(a, consumer.window)

OrderFits ==
  Active =>
    /\ consumer.window # None =>
         /\ consumer.window.sequence = consumer.sequence /\ consumer.window.frame = consumer.next - 1
         /\ consumer.window.capturedAt = FrameDate
    /\ predictQ # <<>> => IsPast(predictQ[1]) /\ Precedes(PlanPlace, predictQ[1])
    /\ worker.window # None => IsPast(worker.window) /\ Precedes(PlanPlace, worker.window)
    /\ worker.window # None /\ predictQ # <<>> => Precedes(worker.window, predictQ[1])
    /\ IsPast(PlanPlace)
    /\ NewestWindowWaits

(* The worker's inputs and the answer to them.                             *)
InputsFit ==
  worker.inputs # <<>> =>
    LET inputs == worker.inputs
    IN /\ worker.sampledAt = worker.window.capturedAt
       /\ Len(inputs) = Len(TelemetryOffsets)
       /\ Last(inputs) \in worker.window.capturedAt - AlignmentTolerance .. worker.window.capturedAt
       /\ \A i \in 1..Len(inputs) - 1 : inputs[i] < inputs[i + 1]
       /\ \A i \in 1..Len(inputs) :
            Distance(inputs[i], Last(inputs) + TelemetryOffsets[i] * SampleInterval) <= OffsetTolerance

(* Whatever drives was validated (processPredictionWindow).                *)
AnswersFit ==
  /\ worker.pc \in {"recheck", "submit"} => ValidatePlan(worker.sampledAt, now, worker.answer)
  /\ plan # NoPlan => ValidatePlan(plan.sampledAt, now, plan.points)

WindowsInv ==
  /\ WindowsTypeOK /\ EgoFits /\ RestFits /\ StepsFit /\ SeenFits /\ EnvelopeFits
  /\ LinesFit /\ ClockFits /\ BufferFits /\ WindowsFit /\ OrderFits /\ InputsFit /\ AnswersFit
-----------------------------------------------------------------------------
(* The constants.                                                          *)
LEMMA OffsetsOfImages ==
  /\ DOMAIN ImageOffsets = 1..Len(ImageOffsets) /\ Len(ImageOffsets) \in Nat \ {0}
  /\ RequiredFrames \in Nat
  /\ \A i \in DOMAIN ImageOffsets : ImageOffsets[i] \in -RequiredFrames..0
<1>1. /\ ImageOffsets \in Seq(Int) /\ ImageOffsets # <<>> /\ Last(ImageOffsets) = 0
      /\ \A i, j \in 1..Len(ImageOffsets) : i < j => ImageOffsets[i] < ImageOffsets[j]
  BY WindowsAssumption
<1>2. /\ DOMAIN ImageOffsets = 1..Len(ImageOffsets) /\ Len(ImageOffsets) \in Nat \ {0}
      /\ \A i \in 1..Len(ImageOffsets) : ImageOffsets[i] \in Int
  BY <1>1, EmptySeq, LenProperties, ElementOfSeq
<1>3. ImageOffsets[Len(ImageOffsets)] = 0
  BY <1>1 DEF Last
<1>4. \A i \in 1..Len(ImageOffsets) : ImageOffsets[1] <= ImageOffsets[i] /\ ImageOffsets[i] <= 0
  BY <1>1, <1>2, <1>3
<1> QED BY <1>2, <1>4 DEF RequiredFrames

LEMMA ToleranceTypes ==
  /\ FrameInterval \in Nat \ {0} /\ SampleInterval \in Nat \ {0} /\ DispatchStride \in Nat \ {0}
  /\ AlignmentTolerance \in Nat \ {0} /\ CadenceTolerance \in Nat /\ ClockLead \in Nat
  /\ MaxFrames \in Nat /\ MaxFaults \in Nat /\ MaxTime \in Nat \ {0} /\ TimingBuffer \in Nat \ {0}
BY WindowsAssumption, StoreAssumption

(* What is there is not None.                                              *)
LEMMA NoneIsNothing ==
  (\A window \in Windows : window # None) /\ (\A look \in Looks : look # None)
<1>1. DOMAIN None = {"none"}
  BY DEF None
<1>2. ASSUME NEW window \in Windows PROVE window # None
  BY <1>1, DOMAIN window = {"sequence", "frame", "capturedAt", "frames"} DEF Windows
<1>3. ASSUME NEW look \in Looks PROVE look # None
  BY <1>1, DOMAIN look = {"shows", "time", "at", "last"} DEF Looks
<1> QED BY <1>2, <1>3

(* The end of a session leaves nothing of it but the plan.                 *)
LEMMA EndKeepsInv ==
  ASSUME WindowsInv, Active, NEW cause \in {"stopped", "failed", "parked"}, End(cause),
         faults' \in 0..MaxFaults, UNCHANGED <<now, gameVars, storeVars, plan, auxVars>>
  PROVE  WindowsInv'
<1> USE DEF End, NoFrames, NoWork, NoClock, auxVars, gameVars, storeVars
<1>1. ~Active'
  BY DEF Active
<1>2. WindowsTypeOK'
  <2>1. session' \in Sessions
    BY DEF WindowsInv, WindowsTypeOK, Sessions
  <2>2. StoreTypeOK'
    BY DEF WindowsInv, WindowsTypeOK, StoreTypeOK
  <2>3. /\ observed' \in 0..MaxFrames /\ timings' \in Seq(Lines) /\ Len(timings') <= TimingBuffer
        /\ predictQ' \in Seq(Windows) /\ Len(predictQ') <= 1 /\ clock' \in Clocks
    BY ToleranceTypes, EmptySeq DEF Clocks
  <2>4. consumer' \in Consumers
    BY ToleranceTypes, EmptySeq DEF Consumers
  <2>5. worker' \in Workers
    BY EmptySeq DEF Workers
  <2> QED BY <2>1, <2>2, <2>3, <2>4, <2>5 DEF WindowsInv, WindowsTypeOK
<1>3. EgoFits' /\ RestFits' /\ StepsFit' /\ SeenFits' /\ EnvelopeFits'
  BY <1>1 DEF WindowsInv, EgoFits, RestFits, StepsFit, SeenFits, EnvelopeFits, Active
<1>4. LinesFit' /\ ClockFits' /\ WindowsFit' /\ OrderFits' /\ InputsFit' /\ AnswersFit'
  BY <1>1 DEF WindowsInv, LinesFit, ClockFits, WindowsFit, OrderFits, InputsFit, AnswersFit
<1>5. BufferFits'
  BY OffsetsOfImages DEF BufferFits, Kept
<1> QED BY <1>2, <1>3, <1>4, <1>5 DEF WindowsInv
-----------------------------------------------------------------------------
(* The telemetry.                                                          *)

(* A bounded history keeps the newest of its entries, in their order.      *)
LEMMA NewestKeeps ==
  ASSUME NEW S, NEW entries \in Seq(S), entries # <<>>, NEW limit \in Nat \ {0}
  PROVE  LET kept == Newest(entries, limit)
         IN /\ kept \in Seq(S) /\ kept # <<>>
            /\ Len(kept) = IF Len(entries) > limit THEN limit ELSE Len(entries)
            /\ \A i \in 1..Len(kept) : kept[i] = entries[Len(entries) - Len(kept) + i]
            /\ Last(kept) = Last(entries)
<1> DEFINE m == IF Len(entries) > limit THEN Len(entries) - limit + 1 ELSE 1
           n == Len(entries)
<1>1. n \in Nat \ {0} /\ m \in 1..n
  BY EmptySeq, LenProperties
<1>2. \A i \in m..n : entries[i] \in S
  BY <1>1, ElementOfSeq
<1>3. /\ SubSeq(entries, m, n) \in Seq(S) /\ Len(SubSeq(entries, m, n)) = n - m + 1
      /\ \A i \in 1..n - m + 1 : SubSeq(entries, m, n)[i] = entries[m + i - 1]
  <2>1. m \in Int /\ n \in Int /\ m <= n
    BY <1>1
  <2> HIDE DEF m, n
  <2> QED BY <1>2, <2>1, SubSeqProperties
<1>4. Newest(entries, limit) = SubSeq(entries, m, n)
  BY DEF Newest
<1>5. n - m + 1 = IF n > limit THEN limit ELSE n
  BY <1>1
<1> HIDE DEF m, n
<1> DEFINE kept == Newest(entries, limit)
<1>6. kept \in Seq(S) /\ Len(kept) = n - m + 1 /\ Len(kept) >= 1
  BY <1>1, <1>3, <1>4
<1>7. \A i \in 1..Len(kept) : kept[i] = entries[n - Len(kept) + i]
  BY <1>1, <1>3, <1>4
<1>8. Last(kept) = Last(entries)
  BY <1>1, <1>6, <1>7 DEF Last, n
<1>9. kept # <<>>
  BY <1>6, EmptySeq
<1> QED BY <1>5, <1>6, <1>7, <1>8, <1>9 DEF n

(* The temporal history is of such entries too, and as short.              *)
LEMMA TrimKeeps ==
  ASSUME NEW entries \in Seq([time : Int, valid : BOOLEAN]), entries # <<>>
  PROVE  Trim(entries) \in Seq([time : Int, valid : BOOLEAN]) /\ Len(Trim(entries)) <= TemporalEntries
<1> DEFINE T == [time : Int, valid : BOOLEAN]
           kept == Newest(entries, TemporalEntries)
           n == Len(kept)
           recent == {i \in DOMAIN kept : kept[i].time >= Last(kept).time - TemporalDuration}
           first == CHOOSE i \in recent : \A j \in recent : i <= j
<1>1. TemporalEntries \in Nat \ {0} /\ TemporalDuration \in Nat
  BY StoreAssumption
<1>2. kept \in Seq(T) /\ kept # <<>> /\ n \in Nat \ {0} /\ n <= TemporalEntries
  BY <1>1, NewestKeeps, EmptySeq, LenProperties
<1>3. DOMAIN kept = 1..n /\ \A i \in 1..n : kept[i] \in T
  BY <1>2, LenProperties, ElementOfSeq
<1>4. first \in 1..n
  <2>1. n \in recent /\ recent \subseteq Nat
    <3>1. n \in 1..n /\ kept[n].time \in Int
      BY <1>2, <1>3
    <3>2. kept[n].time >= kept[n].time - TemporalDuration
      BY <1>1, <3>1
    <3> QED BY <1>3, <3>1, <3>2 DEF Last
  <2> HIDE DEF recent
  <2>2. PICK i \in recent : \A j \in recent : ~ <<j, i>> \in OpToRel(<, Nat)
    BY <2>1, NatLessThanWellFounded, WFMin
  <2>3. \A j \in recent : i <= j
    <3> SUFFICES ASSUME NEW j \in recent, j < i PROVE FALSE
      BY <2>1
    <3>1. <<j, i>> \in OpToRel(<, Nat)
      BY <2>1 DEF OpToRel
    <3> QED BY <2>2, <3>1
  <2>4. first \in recent
    BY <2>3
  <2> QED BY <1>3, <2>4 DEF recent
<1> HIDE DEF kept, first, recent
<1>5. SubSeq(kept, first, n) \in Seq(T) /\ Len(SubSeq(kept, first, n)) = n - first + 1
  <2>1. first \in Int /\ n \in Int /\ first <= n /\ \A i \in first..n : kept[i] \in T
    BY <1>2, <1>3, <1>4
  <2> HIDE DEF n
  <2> QED BY <2>1, SubSeqProperties
<1>6. Trim(entries) = IF Last(kept).time <= 0 THEN kept ELSE SubSeq(kept, first, n)
  BY DEF Trim, kept, first, recent
<1>7. n - first + 1 <= n
  BY <1>2, <1>4
<1>8. Len(kept) <= TemporalEntries /\ Len(SubSeq(kept, first, n)) <= TemporalEntries
  BY <1>1, <1>2, <1>4, <1>5, <1>7 DEF n
<1> QED BY <1>2, <1>5, <1>6, <1>8

LEMMA AppendKeeps ==
  ASSUME NEW S, NEW entries \in Seq(S), NEW entry \in S
  PROVE  /\ Append(entries, entry) \in Seq(S) /\ Append(entries, entry) # <<>>
         /\ Last(Append(entries, entry)) = entry
BY AppendProperties DEF Last

LEMMA LastIsOf ==
  ASSUME NEW S, NEW entries \in Seq(S), entries # <<>>
  PROVE  Last(entries) \in S
BY EmptySeq, LenProperties, ElementOfSeq DEF Last

LEMMA NowIsNatural ==
  ASSUME WindowsInv
  PROVE  now \in Nat \ {0} /\ now \in 1..MaxTime
<1>1. now \in 1..MaxTime
  BY DEF WindowsInv, WindowsTypeOK, StoreTypeOK
<1> QED BY <1>1, ToleranceTypes

(* What the receipt of a sample leaves in the store.                       *)
LEMMA ReceiveKeepsStore ==
  ASSUME WindowsInv, Receive,
         highest' = IF Last(history').shows.seated /\ ego'.time > highest THEN ego'.time ELSE highest
  PROVE  StoreTypeOK' /\ EgoFits' /\ history' # <<>> /\ highest' \in Nat
<1>1. PICK sample \in inFlight : UpdateTelemetry(sample) /\ inFlight' = inFlight \ {sample}
  BY DEF Receive
<1>2. StoreTypeOK /\ EgoFits /\ highest \in Nat
  BY DEF WindowsInv, WindowsTypeOK
<1>3. sample \in Sample /\ sample.time \in Int /\ sample.shows \in Games
  BY <1>2 DEF StoreTypeOK, Sample
<1>4. now \in 1..MaxTime /\ MaxTime \in Nat /\ HistoryLimit \in Nat \ {0}
  BY <1>2, StoreAssumption DEF StoreTypeOK
<1> DEFINE time == IF sample.time = 0 THEN now ELSE sample.time
           row == [sample EXCEPT !.time = time]
           entry == [time |-> sample.time, valid |-> Valid(sample)]
<1>5. row \in Sample /\ row.time = time /\ row.shows = sample.shows
  BY <1>3, <1>4 DEF Sample
<1>6. Valid(sample) \in BOOLEAN /\ entry \in [time : Int, valid : BOOLEAN]
  BY <1>3, StoreAssumption DEF Valid
<1> HIDE DEF row
<1>7. /\ Append(history, row) \in Seq(Sample) /\ Append(history, row) # <<>>
      /\ Last(Append(history, row)) = row
  BY <1>2, <1>5, AppendKeeps DEF StoreTypeOK
<1>8. history' = Newest(Append(history, row), HistoryLimit)
  BY <1>1 DEF UpdateTelemetry, row
<1>9. /\ history' \in Seq(Sample) /\ history' # <<>> /\ Len(history') <= HistoryLimit
      /\ Last(history') = row
  <2> DEFINE rows == Append(history, row)
  <2>1. rows \in Seq(Sample) /\ rows # <<>> /\ Last(rows) = row /\ Len(rows) \in Nat
    BY <1>7, LenProperties
  <2> HIDE DEF rows
  <2>2. /\ Newest(rows, HistoryLimit) \in Seq(Sample) /\ Newest(rows, HistoryLimit) # <<>>
        /\ Len(Newest(rows, HistoryLimit)) = IF Len(rows) > HistoryLimit THEN HistoryLimit ELSE Len(rows)
        /\ Last(Newest(rows, HistoryLimit)) = Last(rows)
    BY <1>4, <2>1, NewestKeeps
  <2> QED BY <1>4, <1>8, <2>1, <2>2 DEF rows
<1>10. temporal' \in Seq([time : Int, valid : BOOLEAN]) /\ Len(temporal') <= TemporalEntries
  <2>1. Append(temporal, entry) \in Seq([time : Int, valid : BOOLEAN]) /\ Append(temporal, entry) # <<>>
    <3> DEFINE T == [time : Int, valid : BOOLEAN]
    <3>1. temporal \in Seq(T) /\ entry \in T
      BY <1>2, <1>6 DEF StoreTypeOK
    <3> HIDE DEF entry, T
    <3>2. Append(temporal, entry) \in Seq(T) /\ Append(temporal, entry) # <<>>
      BY <3>1, AppendKeeps
    <3> QED BY <3>2 DEF T
  <2> QED BY <1>1, <2>1, TrimKeeps DEF UpdateTelemetry
<1>11. /\ updatedAt' = now /\ ego' = entry
       /\ lastTimestamp' = IF Valid(sample) THEN sample.time ELSE lastTimestamp
  BY <1>1 DEF UpdateTelemetry
<1>12. StoreTypeOK'
  <2>1. UNCHANGED <<now, game, sent>> /\ inFlight' \subseteq Sample
    BY <1>1, <1>2 DEF Receive, StoreTypeOK
  <2>2. lastTimestamp' \in Nat
    BY <1>2, <1>3, <1>11 DEF Valid, StoreTypeOK
  <2> QED BY <1>2, <1>4, <1>6, <1>9, <1>10, <1>11, <2>1, <2>2 DEF StoreTypeOK
<1>13. lastTimestamp' = highest'
  <2>1. highest' = IF sample.shows.seated /\ sample.time > highest THEN sample.time ELSE highest
    BY <1>5, <1>9, <1>11
  <2>2. Valid(sample) <=> sample.time > 0 /\ sample.time >= highest /\ sample.shows.seated
    BY <1>2, <1>3, StoreAssumption DEF Valid, EgoFits, StoreTypeOK
  <2> QED BY <1>2, <1>3, <1>11, <2>1, <2>2 DEF EgoFits
<1>14. ego'.valid => ego'.time = highest' /\ Last(history').time = ego'.time
  <2> SUFFICES ASSUME Valid(sample) PROVE ego'.time = highest' /\ Last(history').time = ego'.time
    BY <1>11
  <2> QED BY <1>3, <1>5, <1>9, <1>11, <1>13 DEF Valid
<1>15. highest' \in Nat
  BY <1>2, <1>3, <1>5, <1>9, <1>11
<1> QED BY <1>9, <1>12, <1>13, <1>14, <1>15 DEF EgoFits

(* What was said of frames, windows and plans stays true as time passes.   *)
LEMMA CameraLater ==
  ASSUME WindowsInv, now' \in Nat, now' >= now, UNCHANGED <<clock, consumer, predictQ, plan>>,
         session'.since = session.since, session'.state = session.state, worker'.window = worker.window
  PROVE  (timings' = timings => LinesFit') /\ ClockFits' /\ BufferFits' /\ WindowsFit' /\ OrderFits'
<1> USE DEF WindowsInv
<1>1. /\ now \in Nat /\ ClockLead \in Nat /\ session \in Sessions
      /\ \A t \in 1..Len(timings) : timings[t] \in Lines
      /\ consumer.buffer \in Seq(Frames) /\ predictQ \in Seq(Windows)
      /\ consumer \in Consumers /\ worker \in Workers
  <2>1. WindowsTypeOK
    OBVIOUS
  <2>2. now \in Nat /\ ClockLead \in Nat
    BY <2>1, ToleranceTypes DEF WindowsTypeOK, StoreTypeOK
  <2>3. /\ session \in Sessions /\ timings \in Seq(Lines) /\ predictQ \in Seq(Windows)
        /\ consumer \in Consumers /\ worker \in Workers
    BY <2>1 DEF WindowsTypeOK
  <2>4. consumer.buffer \in Seq(Frames)
    BY <2>3 DEF Consumers
  <2>5. \A t \in 1..Len(timings) : timings[t] \in Lines
    BY <2>3, ElementOfSeq
  <2> QED BY <2>2, <2>3, <2>4, <2>5
<1>2. ASSUME NEW frame \in Frames, FrameFits(frame) PROVE frame.at <= now' + ClockLead
  BY <1>1, <1>2 DEF FrameFits, Frames
<1>3. (timings' = timings => LinesFit') /\ ClockFits'
  <2>1. ASSUME NEW t \in 1..Len(timings) PROVE timings[t].observed <= now'
    BY <1>1 DEF LinesFit, Lines
  <2> QED BY <1>1, <2>1 DEF LinesFit, ClockFits, CapturedAt, Active, Sessions
<1>4. BufferFits'
  <2>1. ASSUME NEW i \in 1..Kept PROVE consumer.buffer[i].at <= now' + ClockLead
    <3>1. consumer.buffer[i] \in Frames
      BY <1>1, LenProperties, ElementOfSeq DEF BufferFits
    <3> QED BY <1>2, <3>1 DEF BufferFits
  <2> QED BY <2>1 DEF BufferFits, Kept, FrameFits, CapturedAt
<1>5. WindowsFit'
  <2>1. ASSUME NEW window \in Windows, WindowFits(window), NEW i \in DOMAIN ImageOffsets
        PROVE  window.frames[i].at <= now' + ClockLead
    <3>1. window.frames[i] \in Frames
      BY DEF Windows
    <3> QED BY <1>2, <2>1, <3>1 DEF WindowFits
  <2>2. /\ consumer.window # None => consumer.window \in Windows
        /\ worker.window # None => worker.window \in Windows
        /\ predictQ # <<>> => predictQ[1] \in Windows
    BY <1>1, EmptySeq, LenProperties, ElementOfSeq DEF Consumers, Workers
  <2> QED BY <2>1, <2>2 DEF WindowsFit, WindowFits, FrameFits, CapturedAt
<1>6. OrderFits'
  BY DEF OrderFits, Active, IsPast, Precedes, PlanPlace, FrameDate, NewestWindowWaits
<1> QED BY <1>3, <1>4, <1>5, <1>6

LEMMA PlannerLater ==
  ASSUME WindowsInv, now' \in Nat, now' >= now, plan' = plan,
         worker'.pc = worker.pc, worker'.window = worker.window, worker'.inputs = worker.inputs,
         worker'.sampledAt = worker.sampledAt, worker'.answer = worker.answer
  PROVE  InputsFit' /\ AnswersFit'
<1>1. now \in Nat /\ worker \in Workers /\ plan \in Plans
  BY DEF WindowsInv, WindowsTypeOK, StoreTypeOK
<1>2. InputsFit'
  BY DEF WindowsInv, InputsFit
<1>3. AnswersFit'
  BY <1>1 DEF WindowsInv, AnswersFit, ValidatePlan, Workers, Plans
<1> QED BY <1>2, <1>3

(* While telemetry arrives nothing else changes.                           *)
LEMMA TelemetryKeepsInv ==
  ASSUME WindowsInv, Telemetry
  PROVE  WindowsInv'
<1> USE DEF gameVars, storeVars, cameraVars, plannerVars, inferVars, auxVars
<1>1. CASE (TimePasses \/ Send) /\ UNCHANGED <<inferVars, auxVars>>
  <2>1. now' \in 1..MaxTime /\ now' >= now /\ UNCHANGED <<storeVars, inferVars, auxVars>>
    <3>1. now' = now \/ (now < MaxTime /\ now' = now + 1)
      BY <1>1 DEF TimePasses, Send
    <3>2. UNCHANGED <<storeVars, inferVars, auxVars>>
      BY <1>1 DEF TimePasses, Send
    <3> QED BY <3>1, <3>2, NowIsNatural, ToleranceTypes
  <2>2. StoreTypeOK'
    <3>1. CASE TimePasses
      BY <2>1, <3>1 DEF WindowsInv, WindowsTypeOK, StoreTypeOK, TimePasses
    <3>2. CASE Send
      <4>1. PICK next \in Games, time \in {now + offset : offset \in ClockOffsets} \cup {0} :
              LET changes == game.changes + (IF next = game.is /\ time > 0 THEN 0 ELSE 1)
              IN /\ changes <= MaxChanges /\ game' = [is |-> next, changes |-> changes]
                 /\ inFlight' = inFlight \cup {[time |-> time, shows |-> next]}
        BY <3>2 DEF Send
      <4>2. time \in Int
        BY StoreAssumption DEF WindowsInv, WindowsTypeOK, StoreTypeOK
      <4>3. inFlight' \subseteq Sample
        BY <4>1, <4>2 DEF WindowsInv, WindowsTypeOK, StoreTypeOK, Sample
      <4>4. game.changes \in 0..MaxChanges /\ MaxChanges \in Nat
        BY StoreAssumption DEF WindowsInv, WindowsTypeOK, StoreTypeOK
      <4>5. game' \in [is : Games, changes : 0..MaxChanges]
        BY <4>1, <4>4
      <4>6. sent' \in 0..MaxSamples
        BY <3>2, StoreAssumption DEF Send, WindowsInv, WindowsTypeOK, StoreTypeOK
      <4> QED BY <2>1, <4>3, <4>5, <4>6 DEF WindowsInv, WindowsTypeOK, StoreTypeOK
    <3> QED BY <1>1, <3>1, <3>2
  <2>3. now' \in Nat
    BY <2>1, ToleranceTypes
  <2>4. WindowsTypeOK'
    BY <2>1, <2>2 DEF WindowsInv, WindowsTypeOK
  <2>5. EgoFits' /\ RestFits' /\ StepsFit' /\ SeenFits' /\ EnvelopeFits'
    BY <2>1 DEF WindowsInv, EgoFits, RestFits, StepsFit, SeenFits, EnvelopeFits, Active, IsNear
  <2>6. LinesFit' /\ ClockFits' /\ BufferFits' /\ WindowsFit' /\ OrderFits'
    BY <2>1, <2>3, CameraLater
  <2>7. InputsFit' /\ AnswersFit'
    BY <2>1, <2>3, PlannerLater
  <2> QED BY <2>4, <2>5, <2>6, <2>7 DEF WindowsInv
<1>2. CASE /\ Receive
           /\ worker' = IF worker.seen = None THEN worker ELSE [worker EXCEPT !.seen.last = FALSE]
           /\ highest' = IF Last(history').shows.seated /\ ego'.time > highest THEN ego'.time ELSE highest
           /\ wasNear' = (wasNear \/ (Active /\ IsNear(Last(history').shows)))
           /\ UNCHANGED <<session, cameraVars, plan, faults>>
  <2>1. StoreTypeOK' /\ EgoFits' /\ history' # <<>> /\ highest' \in Nat
    BY <1>2, ReceiveKeepsStore
  <2>2. now' = now /\ now \in Nat
    BY <1>2, NowIsNatural DEF Receive
  <2>3. worker \in Workers /\ wasNear \in BOOLEAN
    BY DEF WindowsInv, WindowsTypeOK
  <2>4. /\ worker' \in Workers
        /\ worker'.pc = worker.pc /\ worker'.window = worker.window /\ worker'.inputs = worker.inputs
        /\ worker'.sampledAt = worker.sampledAt /\ worker'.answer = worker.answer
        /\ worker.seen = None <=> worker'.seen = None
        /\ worker'.seen # None => ~worker'.seen.last /\ worker'.seen.shows = worker.seen.shows
    <3>1. CASE worker.seen = None
      BY <1>2, <2>3, <3>1
    <3>2. CASE worker.seen # None
      <4>1. worker.seen \in Looks
        BY <2>3, <3>2 DEF Workers
      <4> DEFINE seen == [worker.seen EXCEPT !.last = FALSE]
      <4>2. worker' = [worker EXCEPT !.seen = seen]
        BY <1>2, <3>2
      <4>3. seen \in Looks /\ ~seen.last /\ seen.shows = worker.seen.shows
        BY <4>1 DEF Looks
      <4>4. seen # None
        BY <4>3, NoneIsNothing
      <4> HIDE DEF seen
      <4>5. worker' \in Workers /\ worker'.seen = seen
        BY <2>3, <4>2, <4>3 DEF Workers
      <4> QED BY <2>3, <3>2, <4>2, <4>3, <4>4, <4>5 DEF Workers
    <3> QED BY <3>1, <3>2
  <2>5. WindowsTypeOK'
    BY <1>2, <2>1, <2>3, <2>4 DEF WindowsInv, WindowsTypeOK, IsNear
  <2>6. RestFits'
    <3>1. worker = NoWork => worker' = NoWork
      BY <1>2 DEF NoWork
    <3> QED BY <1>2, <3>1 DEF WindowsInv, RestFits, Active
  <2>7. StepsFit'
    BY <1>2, <2>4 DEF WindowsInv, StepsFit
  <2>8. SeenFits' /\ EnvelopeFits'
    BY <1>2, <2>3, <2>4 DEF WindowsInv, SeenFits, EnvelopeFits, Active, IsNear
  <2>9. LinesFit' /\ ClockFits' /\ BufferFits' /\ WindowsFit' /\ OrderFits'
    BY <1>2, <2>2, <2>4, CameraLater
  <2>10. InputsFit' /\ AnswersFit'
    BY <1>2, <2>2, <2>4, PlannerLater
  <2> QED BY <2>1, <2>5, <2>6, <2>7, <2>8, <2>9, <2>10 DEF WindowsInv
<1> QED BY <1>1, <1>2 DEF Telemetry
-----------------------------------------------------------------------------
(* The start of a session.                                                 *)

(* Before a session is active there is nothing to keep.                    *)
LEMMA StartKeepsInv ==
  ASSUME WindowsInv, Start \/ BindTarget \/ Activate
  PROVE  WindowsInv'
<1> USE DEF gameVars, storeVars, cameraVars, plannerVars, auxVars
<1>1. /\ ~Active /\ session.state \in {"idle", "loading", "bound"}
      /\ UNCHANGED <<now, gameVars, storeVars, cameraVars, plannerVars, faults, highest>>
      /\ \/ wasNear' = wasNear /\ session'.state \in {"idle", "loading", "bound"}
         \/ /\ wasNear' = IsNear(Last(history).shows)' /\ session'.pending /\ session'.state = "active"
            /\ session'.since = now
  BY DEF Start, BindTarget, Activate, Active, WindowsInv, WindowsTypeOK, Sessions, IsNear
<1>2. session \in Sessions /\ now \in Nat \ {0}
  BY NowIsNatural DEF WindowsInv, WindowsTypeOK
<1>3. session' \in Sessions /\ session'.ended = session.ended
  <2>1. ASSUME StartIsAllowed PROVE Last(history).shows.bay \in {"none", "a", "b"}
    <3>1. history # <<>> /\ history \in Seq(Sample)
      BY <2>1 DEF StartIsAllowed, LatestIsFresh, WindowsInv, WindowsTypeOK, StoreTypeOK
    <3>2. Last(history).shows \in Games
      BY <3>1, LastIsOf DEF Sample
    <3> QED BY <3>2, StoreAssumption
  <2> QED BY <1>2, <2>1, ZenonT(40) DEF Start, BindTarget, Activate, Sessions
<1>4. wasNear' \in BOOLEAN
  BY <1>1 DEF IsNear, WindowsInv, WindowsTypeOK
<1>5. WindowsTypeOK' /\ EgoFits'
  BY <1>1, <1>3, <1>4 DEF WindowsInv, WindowsTypeOK, StoreTypeOK, EgoFits
<1>6. /\ consumer = NoFrames /\ timings = <<>> /\ predictQ = <<>> /\ worker = NoWork /\ clock = NoClock
      /\ plan = NoPlan /\ session.ended = "not"
  BY <1>1 DEF WindowsInv, RestFits
<1>7. RestFits' /\ StepsFit' /\ SeenFits'
  BY <1>1, <1>3, <1>6 DEF WindowsInv, RestFits, StepsFit, SeenFits, Active, NoWork
<1>8. EnvelopeFits'
  BY <1>1, <1>6 DEF EnvelopeFits, Active
<1>9. LinesFit' /\ ClockFits' /\ WindowsFit' /\ InputsFit' /\ AnswersFit'
  <2>1. session'.since <= now' /\ (Active' => session'.since > 0)
    <3>1. session.since <= now
      BY DEF WindowsInv, LinesFit
    <3>2. session'.since = session.since \/ session'.since = now
      BY <1>2 DEF Start, BindTarget, Activate, Sessions
    <3>3. Active' => session'.since = now
      BY <1>1 DEF Active
    <3> QED BY <1>1, <1>2, <3>1, <3>2, <3>3
  <2> QED BY <1>1, <1>6, <2>1, EmptySeq
      DEF LinesFit, ClockFits, WindowsFit, InputsFit, AnswersFit, NoFrames, NoWork
<1>10. BufferFits'
  BY <1>1, <1>6, OffsetsOfImages DEF BufferFits, Kept, NoFrames
<1>11. OrderFits'
  BY <1>1, <1>6 DEF OrderFits, IsPast, PlanPlace, FrameDate, NewestWindowWaits, NoFrames, NoWork, NoPlan, NoClock
<1> QED BY <1>5, <1>7, <1>8, <1>9, <1>10, <1>11 DEF WindowsInv
-----------------------------------------------------------------------------
(* The frames.                                                             *)
LEMMA FaultsAreCounted ==
  ASSUME WindowsInv, Fault
  PROVE  faults' \in 0..MaxFaults
BY ToleranceTypes DEF Fault, WindowsInv, WindowsTypeOK

LEMMA EndingsKeepInv ==
  ASSUME WindowsInv, SessionEnds \/ TimingTimesOut \/ StreamEnds \/ PredictionFails
  PROVE  WindowsInv'
<1>1. CASE SessionEnds
  BY <1>1, FaultsAreCounted, EndKeepsInv DEF SessionEnds, Terminate
<1>2. CASE TimingTimesOut
  BY <1>2, EndKeepsInv DEF TimingTimesOut, Terminate, WindowsInv, WindowsTypeOK
<1>3. CASE StreamEnds
  BY <1>3, FaultsAreCounted, EndKeepsInv DEF StreamEnds, Terminate
<1>4. CASE PredictionFails
  BY <1>4, EndKeepsInv DEF PredictionFails, WindowsInv, WindowsTypeOK
<1> QED BY <1>1, <1>2, <1>3, <1>4

(* Frames come one FrameInterval after another.                            *)
LEMMA CaptureTimes ==
  ASSUME WindowsInv, NEW index \in Int
  PROVE  /\ session.since \in Nat /\ index * FrameInterval \in Int /\ CapturedAt(index) \in Int
         /\ index \in Nat => index * FrameInterval \in Nat
         /\ CapturedAt(index + 1) > CapturedAt(index)
         /\ (index + 1) * FrameInterval = index * FrameInterval + FrameInterval
<1>1. session.since \in Nat
  BY DEF WindowsInv, WindowsTypeOK, Sessions
<1>2. FrameInterval \in Nat \ {0}
  BY ToleranceTypes
<1> QED BY <1>1, <1>2 DEF CapturedAt

LEMMA ReadLineKeepsInv ==
  ASSUME WindowsInv, NEW line \in Lines, NEW read \in {1, 2}, ReadLine(line, read),
         CapturedAt(line.index) <= now, line.observed = now, observed + read <= MaxFrames,
         faults' \in 0..MaxFaults
  PROVE  WindowsInv'
<1> USE DEF gameVars, storeVars, plannerVars, auxVars
<1>1. /\ Active /\ timings' = Append(timings, line) /\ Len(timings) < TimingBuffer
      /\ observed' = observed + read
      /\ UNCHANGED <<now, gameVars, storeVars, session, clock, consumer, predictQ, plannerVars, auxVars>>
  BY DEF ReadLine, Captured
<1>2. timings \in Seq(Lines) /\ observed \in 0..MaxFrames /\ MaxFrames \in Nat /\ TimingBuffer \in Nat
  BY ToleranceTypes DEF WindowsInv, WindowsTypeOK
<1>3. timings' \in Seq(Lines) /\ Len(timings') = Len(timings) + 1 /\ Len(timings) \in Nat
      /\ \A i \in 1..Len(timings') : timings'[i] = IF i <= Len(timings) THEN timings[i] ELSE line
  BY <1>1, <1>2, AppendProperties, LenProperties
<1>4. WindowsTypeOK'
  <2>1. observed' \in 0..MaxFrames /\ Len(timings') <= TimingBuffer
    BY <1>1, <1>2, <1>3
  <2> QED BY <1>1, <1>3, <2>1 DEF WindowsInv, WindowsTypeOK, StoreTypeOK
<1>5. EgoFits' /\ RestFits' /\ StepsFit' /\ SeenFits' /\ EnvelopeFits'
  BY <1>1 DEF WindowsInv, EgoFits, RestFits, StepsFit, SeenFits, EnvelopeFits, Active, IsNear
<1>6. LinesFit'
  <2>1. now \in Nat
    BY NowIsNatural
  <2>2. ASSUME NEW i \in 1..Len(timings')
        PROVE  CapturedAt(timings'[i].index) <= timings'[i].observed /\ timings'[i].observed <= now
    <3>1. CASE i <= Len(timings)
      BY <1>3, <3>1 DEF WindowsInv, LinesFit
    <3>2. CASE ~(i <= Len(timings))
      BY <1>3, <2>1, <3>2
    <3> QED BY <3>1, <3>2
  <2> QED BY <1>1, <2>2 DEF WindowsInv, LinesFit, CapturedAt, Active
<1>7. ClockFits' /\ BufferFits' /\ WindowsFit' /\ OrderFits'
  BY <1>1, NowIsNatural, CameraLater
<1>8. InputsFit' /\ AnswersFit'
  BY <1>1, NowIsNatural, PlannerLater
<1> QED BY <1>4, <1>5, <1>6, <1>7, <1>8 DEF WindowsInv

LEMMA ReadTimingKeepsInv ==
  ASSUME WindowsInv, ReadTiming \/ ReadBadTiming
  PROVE  WindowsInv'
<1>1. observed \in Nat /\ now \in Nat /\ MaxFrames \in Nat /\ FrameInterval \in Nat
  BY NowIsNatural, ToleranceTypes DEF WindowsInv, WindowsTypeOK
<1>2. /\ observed * FrameInterval \in Nat /\ (observed + 1) * FrameInterval \in Nat
      /\ CapturedAt(observed + 1) > CapturedAt(observed)
      /\ CapturedAt(observed) \in Int /\ CapturedAt(observed + 1) \in Int
  BY <1>1, CaptureTimes
<1>3. ASSUME NEW index \in Nat, NEW pts \in Nat, NEW ok \in BOOLEAN
      PROVE  Line(index, pts, ok) \in Lines /\ Line(index, pts, ok).index = index
             /\ Line(index, pts, ok).observed = now
  BY <1>1 DEF Line, Lines
<1>4. ASSUME NEW index \in Nat, Captured(index) PROVE CapturedAt(index) <= now /\ index + 1 <= MaxFrames
  BY <1>1, <1>4 DEF Captured
<1>5. ASSUME NEW pts \in Nat, NEW ok \in BOOLEAN, ReadLine(Line(observed, pts, ok), 1), faults' \in 0..MaxFaults
      PROVE  WindowsInv'
  <2>1. Captured(observed)
    BY <1>5 DEF ReadLine
  <2> QED BY <1>1, <1>3, <1>4, <1>5, <2>1, ReadLineKeepsInv
<1>6. CASE ReadTiming
  <2>1. faults' \in 0..MaxFaults
    BY <1>6 DEF ReadTiming, WindowsInv, WindowsTypeOK
  <2> QED BY <1>2, <1>5, <1>6, <2>1 DEF ReadTiming
<1>7. CASE ReadBadTiming
  <2>1. faults' \in 0..MaxFaults
    BY <1>7, FaultsAreCounted DEF ReadBadTiming
  <2>2. CASE ReadLine(Line(observed, 0, FALSE), 1)
    BY <1>5, <2>1, <2>2
  <2>3. CASE Captured(observed + 1) /\ ReadLine(Line(observed + 1, (observed + 1) * FrameInterval, TRUE), 2)
    <3>1. observed + 1 \in Nat /\ observed + 2 <= MaxFrames /\ CapturedAt(observed + 1) <= now
      BY <1>1, <1>4, <2>3
    <3> QED BY <1>2, <1>3, <2>1, <2>3, <3>1, ReadLineKeepsInv
  <2>4. CASE \E pts \in {observed * FrameInterval - 1, observed * FrameInterval + 1} \cap Nat :
               ReadLine(Line(observed, pts, TRUE), 1)
    BY <1>5, <2>1, <2>4
  <2> QED BY <1>7, <2>2, <2>3, <2>4 DEF ReadBadTiming
<1> QED BY <1>6, <1>7

(* Of consecutive frames that reach back far enough, a window finds its    *)
(* own.                                                                    *)
LEMMA BuildWindowFinds ==
  ASSUME NEW buffer \in Seq(Frames), NEW sequence \in Nat, NEW index \in Nat, index >= RequiredFrames,
         Len(buffer) = RequiredFrames + 1,
         \A j \in 1..RequiredFrames + 1 : buffer[j].index = index - RequiredFrames + j - 1
  PROVE  LET window == BuildWindow(buffer, sequence)
         IN /\ window \in Windows /\ window.sequence = sequence /\ window.frame = index
            /\ window.capturedAt = Last(buffer).at
            /\ \A i \in DOMAIN ImageOffsets :
                 /\ window.frames[i].index = index + ImageOffsets[i]
                 /\ \E j \in 1..RequiredFrames + 1 : window.frames[i] = buffer[j]
<1> DEFINE n == RequiredFrames + 1
           IsAt(frame, i) == frame.index = index + ImageOffsets[i]
           Frame(i) == CHOOSE frame \in ToSet(buffer) : IsAt(frame, i)
           frames == [i \in DOMAIN ImageOffsets |-> Frame(i)]
<1>1. RequiredFrames \in Nat /\ DOMAIN buffer = 1..n /\ \A j \in 1..n : buffer[j] \in Frames
  BY OffsetsOfImages, LenProperties, ElementOfSeq
<1>2. ToSet(buffer) = {buffer[j] : j \in 1..n}
  BY <1>1 DEF ToSet
<1>3. Last(buffer) = buffer[n] /\ Last(buffer).index = index
  BY <1>1 DEF Last
<1>4. ASSUME NEW i \in DOMAIN ImageOffsets
      PROVE  /\ \E frame \in ToSet(buffer) : IsAt(frame, i)
             /\ Frame(i) \in ToSet(buffer) /\ IsAt(Frame(i), i)
  <2>1. ImageOffsets[i] \in -RequiredFrames..0
    BY OffsetsOfImages
  <2>2. n + ImageOffsets[i] \in 1..n
    BY <1>1, <2>1
  <2>3. buffer[n + ImageOffsets[i]].index = index + ImageOffsets[i]
    BY <1>1, <2>1, <2>2
  <2>4. \E frame \in ToSet(buffer) : IsAt(frame, i)
    BY <1>2, <2>2, <2>3
  <2> QED BY <2>4
<1> HIDE DEF Frame
<1>5. BuildWindow(buffer, sequence) =
        [sequence |-> sequence, frame |-> index, capturedAt |-> buffer[n].at, frames |-> frames]
  BY <1>3, <1>4 DEF BuildWindow, Frame
<1>6. frames \in [DOMAIN ImageOffsets -> Frames]
  BY <1>1, <1>2, <1>4
<1>7. buffer[n].at \in Int
  BY <1>1 DEF Frames
<1>8. BuildWindow(buffer, sequence) \in Windows
  <2> HIDE DEF frames
  <2> QED BY <1>5, <1>6, <1>7 DEF Windows
<1>9. ASSUME NEW i \in DOMAIN ImageOffsets
      PROVE  frames[i].index = index + ImageOffsets[i] /\ \E j \in 1..n : frames[i] = buffer[j]
  BY <1>2, <1>4
<1> HIDE DEF frames
<1> QED BY <1>3, <1>5, <1>8, <1>9

(* A frame that is taken is dated later than the one before.               *)
LEMMA DatesGrow ==
  ASSUME WindowsInv, Active, timings # <<>>, TimingFits(Head(timings)),
         clock' = Advanced(Head(timings)), now' = now, session' = session,
         consumer'.next = consumer.next + 1, timings' = Tail(timings)
  PROVE  LET frame == [index |-> consumer.next, at |-> Resolved(Head(timings))]
         IN /\ frame \in Frames /\ FrameFits(frame) /\ FrameDate' = frame.at
            /\ FrameDate \in Int /\ FrameDate < frame.at
            /\ clock' \in Clocks /\ ClockFits'
            /\ timings' \in Seq(Lines) /\ Len(timings') <= TimingBuffer /\ LinesFit'
<1> DEFINE timing == Head(timings)
<1>1. /\ timings \in Seq(Lines) /\ timing \in Lines /\ timing = timings[1] /\ Len(timings) \in Nat \ {0}
      /\ timings' \in Seq(Lines) /\ Len(timings') = Len(timings) - 1
      /\ \A i \in 1..Len(timings') : timings'[i] = timings[i + 1]
  <2>1. timings \in Seq(Lines)
    BY DEF WindowsInv, WindowsTypeOK
  <2>2. Len(timings) \in Nat \ {0}
    BY <2>1, EmptySeq, LenProperties
  <2>3. timings' \in Seq(Lines) /\ Len(timings') = Len(timings) - 1
        /\ \A i \in 1..Len(timings') : timings'[i] = timings[i + 1]
    BY <2>1, <2>2, HeadTailProperties
  <2>4. Head(timings) \in Lines /\ Head(timings) = timings[1]
    BY <2>1, <2>2, HeadTailProperties, ElementOfSeq
  <2> QED BY <2>1, <2>2, <2>3, <2>4
<1>2. /\ clock \in Clocks /\ consumer.next \in Nat /\ now \in Nat /\ session.since \in Nat \ {0}
      /\ ClockLead \in Nat /\ CadenceTolerance \in Nat /\ FrameInterval \in Nat
  BY NowIsNatural, ToleranceTypes DEF WindowsInv, WindowsTypeOK, LinesFit, Consumers, Sessions
<1>3. /\ timing.pts \in Nat /\ timing.observed \in Nat
      /\ clock.anchor \in Nat /\ clock.firstPts \in Nat /\ clock.lastPts \in Nat
  BY <1>1, <1>2 DEF Lines, Clocks
<1>4. CapturedAt(timing.index) <= timing.observed /\ timing.observed <= now /\ timing.index = consumer.next
  <2>1. 1 \in 1..Len(timings)
    BY <1>1
  <2> QED BY <1>1, <2>1 DEF WindowsInv, LinesFit, TimingFits
<1>5. /\ clock'.anchor = IF consumer.next = 0 THEN timing.observed ELSE clock.anchor
      /\ clock'.firstPts = IF consumer.next = 0 THEN timing.pts ELSE clock.firstPts
      /\ clock'.lastPts = timing.pts /\ clock' \in Clocks
  <2>1. clock' = Advanced(timing)
    OBVIOUS
  <2> HIDE DEF timing
  <2> QED BY <1>3, <2>1 DEF Advanced, Clocks
<1> DEFINE due == consumer.next * FrameInterval
<1>6. due \in Nat
  <2>1. ASSUME NEW i \in Nat PROVE i * FrameInterval \in Nat
    BY <1>2
  <2> QED BY <1>2, <2>1
<1> DEFINE frame == [index |-> consumer.next, at |-> Resolved(timing)]
<1> DEFINE IsLater == /\ Resolved(timing) \in Int /\ FrameDate' = Resolved(timing)
                      /\ FrameDate \in Int /\ FrameDate < Resolved(timing)
                      /\ Resolved(timing) >= session.since + due - CadenceTolerance
                      /\ Resolved(timing) <= now + ClockLead
                      /\ ClockFits'
<1>7. ASSUME consumer.next = 0 PROVE IsLater
  <2>1. Resolved(timing) = timing.observed /\ FrameDate' = timing.observed
    BY <1>3, <1>5, <1>7 DEF Resolved, FrameDate
  <2>2. FrameDate = 0
    BY <1>7 DEF WindowsInv, ClockFits, FrameDate, NoClock
  <2>3. timing.observed >= session.since /\ due = 0
    BY <1>2, <1>3, <1>4, <1>7 DEF CapturedAt
  <2>4. ClockFits'
    BY <1>2, <1>3, <1>5, <1>7, <2>3 DEF ClockFits
  <2> HIDE DEF timing, due
  <2> QED BY <1>2, <1>3, <1>4, <2>1, <2>2, <2>3, <2>4
<1>8. ASSUME consumer.next # 0 PROVE IsLater
  <2>1. /\ Resolved(timing) = clock.anchor + timing.pts - clock.firstPts
        /\ FrameDate' = Resolved(timing) /\ Resolved(timing) \in Int
    BY <1>3, <1>5, <1>8 DEF Resolved, FrameDate
  <2>2. /\ timing.pts > clock.lastPts
        /\ Distance(timing.pts - clock.firstPts, due) <= CadenceTolerance
        /\ Resolved(timing) <= timing.observed + ClockLead
    BY <1>2, <1>8, <2>1 DEF TimingFits
  <2>3. clock.anchor >= session.since /\ clock.lastPts >= clock.firstPts
    BY <1>8 DEF WindowsInv, ClockFits
  <2>4. FrameDate \in Int /\ FrameDate < Resolved(timing)
    BY <1>3, <2>1, <2>2 DEF FrameDate
  <2>5. timing.pts - clock.firstPts >= due - CadenceTolerance
    <3> HIDE DEF due
    <3> QED BY <1>2, <1>3, <1>6, <2>2 DEF Distance
  <2>6. ClockFits'
    BY <1>2, <1>3, <1>5, <1>8, <2>2, <2>3, SMTT(30) DEF ClockFits
  <2> HIDE DEF timing, due
  <2>7. Resolved(timing) >= session.since + due - CadenceTolerance
    BY <1>2, <1>3, <1>6, <2>1, <2>3, <2>5
  <2>8. Resolved(timing) <= now + ClockLead
    BY <1>2, <1>3, <1>4, <2>1, <2>2
  <2> QED BY <2>1, <2>4, <2>6, <2>7, <2>8
<1>9. IsLater
  BY <1>7, <1>8
<1>10. FrameFits(frame)
  <2>1. frame.at = Resolved(timing) /\ CapturedAt(frame.index) = session.since + due
    BY DEF CapturedAt
  <2>2. Resolved(timing) \in Int /\ Resolved(timing) >= session.since + due - CadenceTolerance
        /\ Resolved(timing) <= now + ClockLead
    BY <1>9
  <2> HIDE DEF timing, frame, due
  <2> QED BY <1>2, <1>6, <2>1, <2>2 DEF FrameFits
<1>11. LinesFit'
  BY <1>1, <1>2 DEF WindowsInv, LinesFit, CapturedAt, Active
<1>12. frame \in Frames
  BY <1>2, <1>9 DEF Frames
<1>13. Len(timings') <= TimingBuffer
  <2>1. Len(timings) <= TimingBuffer /\ TimingBuffer \in Nat
    BY ToleranceTypes DEF WindowsInv, WindowsTypeOK
  <2> QED BY <1>1, <2>1
<1> QED BY <1>1, <1>5, <1>9, <1>10, <1>11, <1>12, <1>13

(* The buffer keeps the latest frames without a gap.                       *)
LEMMA BufferMoves ==
  ASSUME WindowsInv, Active, now' = now, session' = session,
         NEW frame \in Frames, FrameFits(frame), frame.index = consumer.next,
         consumer'.next = consumer.next + 1,
         consumer'.buffer = Newest(Append(consumer.buffer, frame), RequiredFrames + 1)
  PROVE  /\ consumer'.buffer \in Seq(Frames) /\ Last(consumer'.buffer) = frame
         /\ BufferFits'
         /\ consumer.next >= RequiredFrames => Kept' = RequiredFrames + 1
<1> DEFINE buffer == consumer.buffer
           n == consumer.next
           longer == Append(buffer, frame)
           newest == Newest(longer, RequiredFrames + 1)
<1>1. RequiredFrames \in Nat /\ n \in Nat /\ buffer \in Seq(Frames)
  BY OffsetsOfImages DEF WindowsInv, WindowsTypeOK, Consumers
<1>2. /\ Len(buffer) = Kept
      /\ \A i \in 1..Kept : buffer[i].index = n - Kept + i - 1 /\ FrameFits(buffer[i])
  BY DEF WindowsInv, BufferFits
<1> DEFINE k == IF n <= RequiredFrames THEN n ELSE RequiredFrames + 1
           l == IF n + 1 <= RequiredFrames THEN n + 1 ELSE RequiredFrames + 1
<1>3. Kept = k /\ Kept' = l
  BY DEF Kept
<1>4. /\ k \in Nat /\ l \in Nat /\ l <= k + 1
      /\ l = IF k + 1 > RequiredFrames + 1 THEN RequiredFrames + 1 ELSE k + 1
      /\ n >= RequiredFrames => l = RequiredFrames + 1
  <2> HIDE DEF n
  <2> QED BY <1>1
<1> HIDE DEF k, l
<1>5. /\ longer \in Seq(Frames) /\ longer # <<>> /\ Last(longer) = frame /\ Len(longer) = k + 1
      /\ \A i \in 1..k + 1 : longer[i] = IF i <= k THEN buffer[i] ELSE frame
  <2>1. longer \in Seq(Frames) /\ longer # <<>> /\ Last(longer) = frame
    BY <1>1, AppendKeeps
  <2>2. /\ Len(longer) = k + 1
        /\ \A i \in 1..k + 1 : longer[i] = IF i <= k THEN buffer[i] ELSE frame
    BY <1>1, <1>2, <1>3, AppendProperties
  <2> QED BY <2>1, <2>2
<1>6. /\ newest \in Seq(Frames) /\ Last(newest) = frame /\ Len(newest) = l
      /\ \A i \in 1..l : newest[i] = longer[k + 1 - l + i]
  <2>1. RequiredFrames + 1 \in Nat \ {0}
    BY <1>1
  <2> HIDE DEF longer
  <2> QED BY <1>4, <1>5, <2>1, NewestKeeps
<1>7. ASSUME NEW i \in 1..l
      PROVE  newest[i].index = n + 1 - l + i - 1 /\ FrameFits(newest[i])
  <2> DEFINE j == k + 1 - l + i
  <2> HIDE DEF newest, longer, buffer
  <2>1. j \in 1..k + 1 /\ newest[i] = longer[j]
    <3>1. i \in Int /\ 1 <= i /\ i <= l /\ l \in Int /\ k \in Int /\ l <= k + 1
      BY <1>4
    <3>2. j \in 1..k + 1
      BY <3>1
    <3> QED BY <1>6, <3>2
  <2>2. longer[j] = IF j <= k THEN buffer[j] ELSE frame
    BY <1>5, <2>1
  <2>3. CASE j <= k
    <3>1. buffer[j].index = n - k + j - 1 /\ FrameFits(buffer[j])
      <4> HIDE DEF j
      <4>1. j \in 1..k
        BY <1>4, <2>1, <2>3
      <4> QED BY <1>2, <1>3, <4>1 DEF buffer
    <3>2. n - k + j - 1 = n + 1 - l + i - 1
      <4> HIDE DEF n
      <4> QED BY <1>1, <1>4
    <3> QED BY <2>1, <2>2, <2>3, <3>1, <3>2
  <2>4. CASE ~(j <= k)
    <3>1. n + 1 - l + i - 1 = n
      <4> HIDE DEF n
      <4> QED BY <1>1, <1>4, <2>4
    <3> QED BY <2>1, <2>2, <2>4, <3>1
  <2> QED BY <2>3, <2>4
<1>8. BufferFits'
  <2>1. consumer'.buffer = newest /\ consumer'.next = n + 1
    OBVIOUS
  <2> HIDE DEF newest, n
  <2>2. ASSUME NEW i \in 1..l
        PROVE  /\ consumer'.buffer[i].index = consumer'.next - l + i - 1
               /\ FrameFits(consumer.buffer[i])'
    <3>1. newest[i].index = n + 1 - l + i - 1 /\ FrameFits(newest[i])
      BY <1>7
    <3>2. FrameFits(consumer.buffer[i])'
      BY <2>1, <3>1 DEF FrameFits, CapturedAt
    <3>3. consumer'.buffer[i].index = consumer'.next - l + i - 1
      <4> DEFINE next == consumer'.next
      <4>1. next = n + 1 /\ l \in Int /\ i \in Int /\ n \in Int
        BY <1>1, <1>4, <2>1
      <4> HIDE DEF next
      <4>2. next - l + i - 1 = n + 1 - l + i - 1
        BY <4>1
      <4> QED BY <2>1, <3>1, <4>2 DEF next
    <3> QED BY <3>2, <3>3
  <2> QED BY <1>3, <1>6, <2>1, <2>2 DEF BufferFits
<1> HIDE DEF newest
<1>9. consumer'.buffer = newest
  BY DEF newest
<1> QED BY <1>3, <1>4, <1>6, <1>8, <1>9

LEMMA ConsumeFrameKeepsInv ==
  ASSUME WindowsInv, ConsumeFrame
  PROVE  WindowsInv'
<1> USE DEF gameVars, storeVars, auxVars
<1>1. CASE ~TimingFits(Head(timings)) /\ Terminate("failed")
  <2>1. UNCHANGED <<now, gameVars, storeVars, plan, faults, auxVars>>
    BY DEF ConsumeFrame
  <2> QED BY <1>1, <2>1, EndKeepsInv DEF Terminate, WindowsInv, WindowsTypeOK
<1> DEFINE frame == [index |-> consumer.next, at |-> Resolved(Head(timings))]
           buffer == Newest(Append(consumer.buffer, frame), RequiredFrames + 1)
           sequence == consumer.sequence + (IF ShouldDispatch(frame.index) THEN 1 ELSE 0)
           window == IF ShouldDispatch(frame.index) THEN BuildWindow(buffer, sequence) ELSE None
<1>2. CASE /\ TimingFits(Head(timings))
           /\ consumer' = [pc |-> IF window = None THEN "read" ELSE "offer", next |-> consumer.next + 1,
                           buffer |-> buffer, sequence |-> sequence, window |-> window]
           /\ timings' = Tail(timings) /\ clock' = Advanced(Head(timings))
           /\ UNCHANGED <<session, observed, predictQ, worker>>
  <2>1. /\ Active /\ consumer.pc = "read" /\ consumer.next < MaxFrames /\ timings # <<>>
        /\ UNCHANGED <<now, gameVars, storeVars, plan, faults, auxVars>>
    BY DEF ConsumeFrame, Captured
  <2>2. /\ consumer'.next = consumer.next + 1 /\ consumer'.buffer = buffer
        /\ consumer'.sequence = sequence /\ consumer'.window = window
        /\ consumer'.pc = IF window = None THEN "read" ELSE "offer"
    <3> HIDE DEF buffer, sequence, window
    <3> QED BY <1>2
  <2>3. /\ consumer.next \in 0..MaxFrames /\ consumer.sequence \in Nat /\ MaxFrames \in Nat
        /\ consumer.next \in Nat /\ RequiredFrames \in Nat
    BY ToleranceTypes, OffsetsOfImages DEF WindowsInv, WindowsTypeOK, Consumers
  <2>4. /\ frame \in Frames /\ FrameFits(frame) /\ FrameDate' = frame.at
        /\ FrameDate \in Int /\ FrameDate < frame.at
        /\ clock' \in Clocks /\ ClockFits'
        /\ timings' \in Seq(Lines) /\ Len(timings') <= TimingBuffer /\ LinesFit'
    BY <1>2, <2>1, <2>2, DatesGrow
  <2> HIDE DEF frame
  <2>5. frame.index = consumer.next
    BY DEF frame
  <2>6. /\ buffer \in Seq(Frames) /\ Last(buffer) = frame /\ BufferFits'
        /\ consumer.next >= RequiredFrames => Kept' = RequiredFrames + 1
    <3>1. consumer'.buffer = Newest(Append(consumer.buffer, frame), RequiredFrames + 1)
      BY <2>2
    <3> QED BY <1>2, <2>1, <2>2, <2>4, <2>5, <3>1, BufferMoves
  <2> HIDE DEF buffer
  <2>7. sequence \in Nat /\ sequence = IF ShouldDispatch(frame.index) THEN consumer.sequence + 1 ELSE consumer.sequence
    BY <2>3
  <2> HIDE DEF sequence
  <2>8. ASSUME ShouldDispatch(frame.index)
        PROVE  /\ window \in Windows /\ window # None /\ window.sequence = sequence
               /\ window.frame = consumer.next /\ window.capturedAt = frame.at /\ WindowFits(window)
    <3>1. consumer.next >= RequiredFrames
      BY <2>5, <2>8 DEF ShouldDispatch
    <3>2. Kept' = RequiredFrames + 1
      BY <2>6, <3>1
    <3>3. /\ Len(buffer) = RequiredFrames + 1
          /\ \A j \in 1..RequiredFrames + 1 :
               buffer[j].index = consumer.next - RequiredFrames + j - 1 /\ FrameFits(buffer[j])
      <4>1. Len(buffer) = RequiredFrames + 1
        BY <2>2, <2>6, <3>2 DEF BufferFits
      <4>2. ASSUME NEW j \in 1..RequiredFrames + 1
            PROVE  /\ buffer[j].index = consumer'.next - (RequiredFrames + 1) + j - 1
                   /\ FrameFits(buffer[j])
        BY <1>2, <2>1, <2>2, <2>6, <3>2 DEF BufferFits, FrameFits, CapturedAt
      <4>3. ASSUME NEW j \in 1..RequiredFrames + 1
            PROVE  consumer'.next - (RequiredFrames + 1) + j - 1 = consumer.next - RequiredFrames + j - 1
        <5> DEFINE next == consumer'.next
        <5>1. next = consumer.next + 1
          BY <2>2
        <5> HIDE DEF next
        <5>2. next - (RequiredFrames + 1) + j - 1 = consumer.next - RequiredFrames + j - 1
          BY <2>3, <5>1
        <5> QED BY <5>2 DEF next
      <4> QED BY <4>1, <4>2, <4>3
    <3>4. window = BuildWindow(buffer, sequence)
      BY <2>8
    <3> HIDE DEF window
    <3>5. /\ window \in Windows /\ window.sequence = sequence /\ window.frame = consumer.next
          /\ window.capturedAt = frame.at
          /\ \A i \in DOMAIN ImageOffsets :
               /\ window.frames[i].index = consumer.next + ImageOffsets[i]
               /\ \E j \in 1..RequiredFrames + 1 : window.frames[i] = buffer[j]
      <4> DEFINE index == consumer.next
      <4>1. /\ index \in Nat /\ index >= RequiredFrames
            /\ \A j \in 1..RequiredFrames + 1 : buffer[j].index = index - RequiredFrames + j - 1
        BY <2>3, <3>1, <3>3
      <4> HIDE DEF index
      <4>2. LET found == BuildWindow(buffer, sequence)
            IN /\ found \in Windows /\ found.sequence = sequence /\ found.frame = index
               /\ found.capturedAt = Last(buffer).at
               /\ \A i \in DOMAIN ImageOffsets :
                    /\ found.frames[i].index = index + ImageOffsets[i]
                    /\ \E j \in 1..RequiredFrames + 1 : found.frames[i] = buffer[j]
        BY <2>6, <2>7, <3>3, <4>1, BuildWindowFinds, ZenonT(40)
      <4> QED BY <2>6, <3>4, <4>2 DEF index
    <3>6. WindowFits(window)
      BY <3>3, <3>5 DEF WindowFits
    <3> QED BY <3>5, <3>6, NoneIsNothing
  <2>9. ~ShouldDispatch(frame.index) => window = None
    OBVIOUS
  <2> HIDE DEF window
  <2>10. consumer' \in Consumers
    <3>1. consumer.next + 1 \in 0..MaxFrames
      BY <2>1, <2>3
    <3>2. window \in Windows \cup {None}
      BY <2>8, <2>9
    <3> QED BY <1>2, <2>6, <2>7, <3>1, <3>2 DEF Consumers
  <2>11. WindowsTypeOK'
    BY <1>2, <2>1, <2>4, <2>10 DEF WindowsInv, WindowsTypeOK, StoreTypeOK
  <2>12. EgoFits' /\ SeenFits' /\ EnvelopeFits'
    BY <1>2, <2>1 DEF WindowsInv, EgoFits, SeenFits, EnvelopeFits, Active, IsNear
  <2>13. RestFits'
    BY <1>2, <2>1 DEF WindowsInv, RestFits, Active
  <2>14. StepsFit'
    BY <1>2, <2>2 DEF WindowsInv, StepsFit
  <2>15. WindowsFit'
    <3>1. window # None => WindowFits(window)
      BY <2>8, <2>9
    <3> QED BY <1>2, <2>1, <2>2, <3>1 DEF WindowsInv, WindowsFit, WindowFits, FrameFits, CapturedAt
  <2>16. OrderFits'
    <3>1. ASSUME NEW a, a.sequence \in Nat, a.frame \in Int, a.capturedAt \in Int, IsPast(a)
          PROVE  IsPast(a)'
      <4>1. a.sequence <= consumer.sequence /\ a.frame < consumer.next /\ a.capturedAt <= FrameDate
        BY <3>1 DEF IsPast
      <4>2. a.sequence <= sequence /\ a.frame < consumer.next + 1 /\ a.capturedAt <= frame.at
        <5>1. a.sequence <= sequence
          BY <2>3, <2>7, <3>1, <4>1
        <5>2. a.frame < consumer.next + 1
          BY <2>3, <3>1, <4>1
        <5>3. a.capturedAt <= frame.at
          BY <2>4, <3>1, <4>1 DEF Frames
        <5> QED BY <5>1, <5>2, <5>3
      <4>3. window # None => Precedes(a, window)
        BY <2>3, <2>4, <2>7, <2>8, <2>9, <3>1, <4>1, SMTT(30) DEF Precedes, Frames
      <4> QED BY <2>2, <2>4, <4>2, <4>3 DEF IsPast, Precedes
    <3>2. /\ predictQ # <<>> => /\ predictQ[1] \in Windows /\ IsPast(predictQ[1])
                               /\ Precedes(PlanPlace, predictQ[1])
          /\ worker.window # None => /\ worker.window \in Windows /\ IsPast(worker.window)
                                     /\ Precedes(PlanPlace, worker.window)
          /\ worker.window # None /\ predictQ # <<>> => Precedes(worker.window, predictQ[1])
          /\ IsPast(PlanPlace) /\ NewestWindowWaits
      <4>1. /\ predictQ # <<>> => predictQ[1] \in Windows
            /\ worker.window # None => worker.window \in Windows
        BY EmptySeq, LenProperties, ElementOfSeq DEF WindowsInv, WindowsTypeOK, Workers
      <4> QED BY <2>1, <4>1 DEF WindowsInv, OrderFits
    <3>3. predictQ # <<>> => IsPast(predictQ[1])'
      BY <1>2, <3>1, <3>2 DEF Windows, IsPast, Precedes
    <3>4. worker.window # None => IsPast(worker.window)'
      BY <1>2, <3>1, <3>2 DEF Windows, IsPast, Precedes
    <3>5. IsPast(PlanPlace)'
      <4>1. PlanPlace.sequence \in Nat /\ PlanPlace.frame \in Int /\ PlanPlace.capturedAt \in Int
        BY DEF PlanPlace, WindowsInv, WindowsTypeOK, Plans
      <4>2. PlanPlace' = PlanPlace
        BY <2>1 DEF PlanPlace
      <4> QED BY <3>1, <3>2, <4>1, <4>2 DEF IsPast, Precedes
    <3>6. consumer'.window # None =>
            /\ consumer'.window.sequence = consumer'.sequence /\ consumer'.window.frame = consumer'.next - 1
            /\ consumer'.window.capturedAt = FrameDate'
      <4> DEFINE next == consumer'.next
      <4>1. next = consumer.next + 1
        BY <2>2
      <4> HIDE DEF next
      <4>2. consumer.next = next - 1
        BY <2>3, <4>1
      <4> QED BY <2>2, <2>4, <2>8, <2>9, <4>2 DEF next
    <3>7. NewestWindowWaits'
      BY <1>2, <2>1, <2>2, <2>7, <2>8, <3>2 DEF NewestWindowWaits
    <3> QED BY <1>2, <2>1, <3>2, <3>3, <3>4, <3>5, <3>6, <3>7 DEF OrderFits, Precedes, PlanPlace
  <2>17. InputsFit' /\ AnswersFit'
    BY <1>2, <2>1, NowIsNatural, PlannerLater
  <2> QED BY <2>4, <2>6, <2>11, <2>12, <2>13, <2>14, <2>15, <2>16, <2>17 DEF WindowsInv
<1> QED BY <1>1, <1>2 DEF ConsumeFrame
-----------------------------------------------------------------------------
(* The queue.                                                              *)
LEMMA WindowTypes ==
  ASSUME WindowsInv
  PROVE  /\ predictQ # <<>> => Len(predictQ) = 1 /\ predictQ[1] \in Windows /\ Head(predictQ) = predictQ[1]
                               /\ Tail(predictQ) = <<>>
         /\ consumer.window # None => consumer.window \in Windows
         /\ worker.window # None => worker.window \in Windows
         /\ consumer.next \in Nat /\ consumer.sequence \in Nat /\ FrameDate \in Int
<1>1. predictQ \in Seq(Windows) /\ Len(predictQ) <= 1
  BY DEF WindowsInv, WindowsTypeOK
<1>2. ASSUME predictQ # <<>>
      PROVE  Len(predictQ) = 1 /\ predictQ[1] \in Windows /\ Head(predictQ) = predictQ[1] /\ Tail(predictQ) = <<>>
  <2>1. Len(predictQ) \in Nat \ {0}
    BY <1>1, <1>2, EmptySeq, LenProperties
  <2>2. Len(predictQ) = 1
    BY <1>1, <2>1
  <2>3. predictQ[1] \in Windows
    BY <1>1, <2>2, ElementOfSeq, SMTT(30)
  <2> DEFINE rest == Tail(predictQ)
  <2>4. rest \in Seq(Windows) /\ Len(rest) = 0 /\ Head(predictQ) = predictQ[1]
    BY <1>1, <1>2, <2>2, HeadTailProperties
  <2> HIDE DEF rest
  <2>5. rest = <<>>
    BY <2>4, EmptySeq
  <2> QED BY <2>2, <2>3, <2>4, <2>5 DEF rest
<1>3. consumer \in Consumers /\ worker \in Workers /\ clock \in Clocks
  BY DEF WindowsInv, WindowsTypeOK
<1> QED BY <1>2, <1>3 DEF Consumers, Workers, Clocks, FrameDate

LEMMA QueueKeepsInv ==
  ASSUME WindowsInv, Offer \/ DropOldest \/ Enqueue
  PROVE  WindowsInv'
<1> USE DEF gameVars, storeVars, plannerVars, auxVars
<1>1. /\ Active
      /\ UNCHANGED <<now, gameVars, storeVars, session, observed, timings, clock, plannerVars, faults, auxVars>>
  BY DEF Offer, DropOldest, Enqueue
<1>2. \/ consumer.pc \in {"offer", "put"} /\ Put
      \/ consumer.pc = "offer" /\ consumer' = [consumer EXCEPT !.pc = "drop"] /\ UNCHANGED predictQ
      \/ consumer.pc = "drop" /\ consumer' = [consumer EXCEPT !.pc = "put"] /\ predictQ' = <<>>
  BY DEF Offer, DropOldest, Enqueue
<1>3. consumer \in Consumers /\ predictQ \in Seq(Windows) /\ Len(predictQ) <= 1
  BY DEF WindowsInv, WindowsTypeOK
<1>4. consumer.pc # "read" /\ consumer.window # None /\ consumer.window \in Windows
  BY <1>2, WindowTypes DEF WindowsInv, StepsFit
<1>5. /\ consumer'.next = consumer.next /\ consumer'.buffer = consumer.buffer
      /\ consumer'.sequence = consumer.sequence
  BY <1>2, <1>3 DEF Put, Consumers
<1>6. \/ /\ predictQ = <<>> /\ predictQ' = <<consumer.window>>
         /\ consumer'.pc = "read" /\ consumer'.window = None
      \/ consumer'.pc = "drop" /\ consumer'.window = consumer.window /\ UNCHANGED predictQ
      \/ consumer'.pc = "put" /\ consumer'.window = consumer.window /\ predictQ' = <<>>
  BY <1>2, <1>3 DEF Put, Consumers
<1>7. consumer' \in Consumers /\ predictQ' \in Seq(Windows) /\ Len(predictQ') <= 1
  <2>1. consumer' \in Consumers
    BY <1>2, <1>3 DEF Put, Consumers
  <2> DEFINE one == <<consumer.window>>
             empty == <<>>
  <2>2. one \in Seq(Windows) /\ Len(one) = 1 /\ empty \in Seq(Windows) /\ Len(empty) = 0
    BY <1>4, EmptySeq
  <2>3. predictQ' \in {one, empty, predictQ}
    BY <1>6
  <2> HIDE DEF one, empty
  <2>4. Len(one) <= 1 /\ Len(empty) <= 1
    <3>1. 1 <= 1 /\ 0 <= 1
      OBVIOUS
    <3> QED BY <2>2, <3>1, Zenon
  <2> QED BY <1>3, <2>1, <2>2, <2>3, <2>4, Zenon
<1>8. WindowsTypeOK'
  BY <1>1, <1>7 DEF WindowsInv, WindowsTypeOK, StoreTypeOK
<1>9. EgoFits' /\ SeenFits' /\ EnvelopeFits' /\ LinesFit' /\ ClockFits'
  BY <1>1, <1>5 DEF WindowsInv, EgoFits, SeenFits, EnvelopeFits, Active, IsNear, LinesFit, ClockFits, CapturedAt
<1>10. RestFits'
  BY <1>1 DEF WindowsInv, RestFits, Active
<1>11. StepsFit'
  BY <1>1, <1>4, <1>6 DEF WindowsInv, StepsFit
<1>12. BufferFits' /\ WindowsFit'
  <2>1. BufferFits'
    BY <1>1, <1>5 DEF WindowsInv, BufferFits, Kept, FrameFits, CapturedAt
  <2>2. /\ consumer'.window # None => consumer'.window = consumer.window
        /\ predictQ' # <<>> => predictQ'[1] = consumer.window \/ predictQ' = predictQ
    BY <1>6
  <2>3. ASSUME NEW window, WindowFits(window) PROVE WindowFits(window)'
    BY <1>1, <2>3 DEF WindowFits, FrameFits, CapturedAt
  <2>4. WindowsFit'
    BY <1>1, <1>4, <2>2, <2>3 DEF WindowsInv, WindowsFit, WindowFits, FrameFits, CapturedAt
  <2> QED BY <2>1, <2>4
<1>13. OrderFits'
  <2>1. OrderFits /\ Active
    BY <1>1 DEF WindowsInv
  <2>2. PlanPlace' = PlanPlace /\ FrameDate' = FrameDate
    BY <1>1 DEF PlanPlace, FrameDate
  <2>3. /\ IsPast(PlanPlace)'
        /\ worker.window # None => IsPast(worker.window)'
        /\ predictQ' = predictQ /\ predictQ # <<>> => IsPast(predictQ[1])'
    BY <1>1, <1>4, <1>5, <1>6, <2>1, <2>2 DEF OrderFits, IsPast, Precedes
  <2>4. CASE /\ predictQ = <<>> /\ predictQ' = <<consumer.window>>
             /\ consumer'.pc = "read" /\ consumer'.window = None
    <3>1. predictQ'[1] = consumer.window /\ Head(predictQ') = consumer.window
      BY <2>4
    <3>2. IsPast(predictQ[1])'
      BY <1>4, <1>5, <2>1, <2>2, <2>4, <3>1, WindowTypes DEF OrderFits, IsPast
    <3>3. /\ Precedes(PlanPlace, consumer.window)
          /\ worker.window # None => Precedes(worker.window, consumer.window)
      BY <1>4, <2>1 DEF OrderFits, IsPast
    <3>4. NewestWindowWaits'
      BY <1>4, <1>5, <2>1, <3>1 DEF OrderFits, NewestWindowWaits
    <3>5. worker' = worker
      BY <1>1
    <3> QED BY <2>1, <2>2, <2>3, <2>4, <3>1, <3>2, <3>3, <3>4, <3>5 DEF OrderFits, Precedes
  <2>5. CASE consumer'.pc = "drop" /\ consumer'.window = consumer.window /\ UNCHANGED predictQ
    <3>1. NewestWindowWaits'
      BY <2>5 DEF NewestWindowWaits
    <3> QED BY <1>1, <1>5, <2>1, <2>2, <2>3, <2>5, <3>1 DEF OrderFits, Precedes
  <2>6. CASE consumer'.pc = "put" /\ consumer'.window = consumer.window /\ predictQ' = <<>>
    <3>1. NewestWindowWaits'
      BY <2>6 DEF NewestWindowWaits
    <3> QED BY <1>1, <1>5, <2>1, <2>2, <2>3, <2>6, <3>1 DEF OrderFits, Precedes
  <2> QED BY <1>6, <2>4, <2>5, <2>6
<1>14. InputsFit' /\ AnswersFit'
  BY <1>1, NowIsNatural, PlannerLater
<1> QED BY <1>8, <1>9, <1>10, <1>11, <1>12, <1>13, <1>14 DEF WindowsInv

LEMMA TakeKeepsInv ==
  ASSUME WindowsInv, Take
  PROVE  WindowsInv'
<1> USE DEF gameVars, storeVars, auxVars
<1>1. /\ Active /\ worker.pc = "idle" /\ predictQ # <<>> /\ predictQ' = Tail(predictQ)
      /\ worker' = [worker EXCEPT !.pc = "check", !.window = Head(predictQ)]
      /\ UNCHANGED <<now, gameVars, storeVars, session, observed, timings, clock, consumer, plan, faults, auxVars>>
  BY DEF Take
<1>2. predictQ[1] \in Windows /\ Head(predictQ) = predictQ[1] /\ predictQ' = <<>>
  BY <1>1, WindowTypes
<1>3. worker \in Workers
  BY DEF WindowsInv, WindowsTypeOK
<1>4. worker' \in Workers
  BY <1>1, <1>2, <1>3 DEF Workers
<1>5. /\ worker'.pc = "check" /\ worker'.window = predictQ[1] /\ worker'.seen = worker.seen
      /\ worker'.inputs = worker.inputs
  BY <1>1, <1>2, <1>3 DEF Workers
<1>6. worker.seen = None /\ worker.inputs = <<>> /\ predictQ[1] # None
  BY <1>1, <1>2, NoneIsNothing DEF WindowsInv, StepsFit
<1>7. WindowsTypeOK'
  <2>1. predictQ' \in Seq(Windows) /\ Len(predictQ') <= 1
    <3>1. <<>> \in Seq(Windows) /\ Len(<<>>) = 0
      BY EmptySeq
    <3> QED BY <1>2, <3>1
  <2> QED BY <1>1, <1>4, <2>1 DEF WindowsInv, WindowsTypeOK, StoreTypeOK
<1>8. EgoFits' /\ RestFits' /\ EnvelopeFits' /\ LinesFit' /\ ClockFits' /\ BufferFits'
  BY <1>1 DEF WindowsInv, EgoFits, RestFits, EnvelopeFits, Active, IsNear, LinesFit, ClockFits, CapturedAt,
              BufferFits, Kept, FrameFits
<1>9. StepsFit' /\ SeenFits'
  BY <1>1, <1>2, <1>5, <1>6 DEF WindowsInv, StepsFit, SeenFits
<1>10. WindowsFit'
  <2>1. ASSUME NEW window, WindowFits(window) PROVE WindowFits(window)'
    BY <1>1, <2>1 DEF WindowFits, FrameFits, CapturedAt
  <2>2. consumer'.window # None => WindowFits(consumer.window)'
    BY <1>1, <2>1 DEF WindowsInv, WindowsFit, WindowFits, FrameFits, CapturedAt
  <2>3. WindowFits(worker.window)'
    BY <1>1, <1>5, <2>1 DEF WindowsInv, WindowsFit, WindowFits, FrameFits, CapturedAt
  <2> QED BY <1>2, <2>2, <2>3 DEF WindowsFit
<1>11. OrderFits'
  <2>1. IsPast(predictQ[1]) /\ Precedes(PlanPlace, predictQ[1]) /\ IsPast(PlanPlace)
    BY <1>1 DEF WindowsInv, OrderFits
  <2>2. IsPast(worker.window)' /\ Precedes(PlanPlace, worker.window)' /\ IsPast(PlanPlace)'
    BY <1>1, <1>5, <2>1 DEF IsPast, Precedes, PlanPlace, FrameDate
  <2> QED BY <1>1, <1>2, <2>2 DEF WindowsInv, OrderFits, NewestWindowWaits, FrameDate
<1>12. InputsFit' /\ AnswersFit'
  BY <1>1, <1>5, <1>6 DEF WindowsInv, InputsFit, AnswersFit
<1> QED BY <1>7, <1>8, <1>9, <1>10, <1>11, <1>12 DEF WindowsInv
-----------------------------------------------------------------------------
(* The worker.                                                             *)

(* A step of the worker on its window leaves the frames as they are.       *)
LEMMA WorkerMoves ==
  ASSUME WindowsInv, Active, UNCHANGED <<now, gameVars, storeVars, cameraVars, plan, faults, auxVars>>,
         session' \in Sessions, session'.state = session.state, session'.since = session.since,
         session'.bay = session.bay, session'.ended = session.ended, ~session'.pending => wasNear,
         worker' \in Workers, worker'.window = worker.window, worker.pc # "idle", worker'.pc # "idle",
         worker'.seen = None <=> worker'.pc \notin {"ego", "submit"},
         worker'.inputs = <<>> <=> worker'.pc \notin {"ask", "recheck", "submit"},
         SeenFits', InputsFit', AnswersFit'
  PROVE  WindowsInv'
<1> USE DEF gameVars, storeVars, cameraVars, auxVars
<1>1. WindowsTypeOK'
  BY DEF WindowsInv, WindowsTypeOK, StoreTypeOK
<1>2. EgoFits' /\ RestFits' /\ StepsFit'
  BY DEF WindowsInv, EgoFits, RestFits, StepsFit, Active
<1>3. EnvelopeFits'
  BY DEF WindowsInv, EnvelopeFits, Active, IsNear
<1>4. LinesFit' /\ ClockFits' /\ BufferFits' /\ WindowsFit' /\ OrderFits'
  BY NowIsNatural, CameraLater
<1> QED BY <1>1, <1>2, <1>3, <1>4 DEF WindowsInv

(* A look is at the newest telemetry.                                      *)
LEMMA LooksKeepInv ==
  ASSUME WindowsInv, Look \/ LookAgain
  PROVE  WindowsInv'
<1>1. /\ Active /\ UNCHANGED <<now, gameVars, storeVars, plan, faults, auxVars>>
      /\ \/ worker.pc = "check" /\ LookAtTelemetry("ego")
         \/ worker.pc = "recheck" /\ LookAtTelemetry("submit")
  BY DEF Look, LookAgain
<1>2. CASE ~LatestIsFresh
  <2>1. End("failed")
    BY <1>1, <1>2 DEF LookAtTelemetry
  <2> QED BY <1>1, <2>1, EndKeepsInv DEF WindowsInv, WindowsTypeOK
<1>3. CASE LatestIsFresh
  <2>1. PICK next \in {"ego", "submit"} :
          /\ worker' = [worker EXCEPT !.pc = next, !.seen = Seen] /\ UNCHANGED <<session, cameraVars>>
          /\ next = "ego" <=> worker.pc = "check"
    BY <1>1, <1>3 DEF LookAtTelemetry
  <2>2. history # <<>> /\ Last(history) \in Sample
    BY <1>3, LastIsOf DEF LatestIsFresh, WindowsInv, WindowsTypeOK, StoreTypeOK
  <2>3. Seen \in Looks /\ Seen # None
    <3>1. Seen \in Looks
      BY <2>2, NowIsNatural DEF Seen, Looks, Sample
    <3> QED BY <3>1, NoneIsNothing
  <2>4. worker \in Workers
    BY DEF WindowsInv, WindowsTypeOK
  <2>5. /\ worker' \in Workers /\ worker'.pc = next /\ worker'.seen = Seen /\ worker'.window = worker.window
        /\ worker'.inputs = worker.inputs /\ worker'.sampledAt = worker.sampledAt
        /\ worker'.answer = worker.answer
    BY <2>1, <2>3, <2>4 DEF Workers
  <2>6. SeenFits'
    <3>1. IsNear(Seen.shows) => wasNear
      BY <1>1, <2>2 DEF Seen, IsNear, WindowsInv, EnvelopeFits
    <3> QED BY <1>1, <2>1, <2>2, <2>5, <3>1 DEF SeenFits, Seen, IsNear, storeVars, auxVars
  <2>7. InputsFit'
    BY <2>5 DEF WindowsInv, InputsFit
  <2>8. AnswersFit'
    BY <1>1, <2>1, <2>5 DEF WindowsInv, AnswersFit
  <2>9. worker'.inputs = <<>> <=> worker'.pc \notin {"ask", "recheck", "submit"}
    BY <1>1, <2>1, <2>5 DEF WindowsInv, StepsFit
  <2>10. session \in Sessions /\ (~session.pending => wasNear)
    BY <1>1 DEF WindowsInv, WindowsTypeOK, EnvelopeFits
  <2> QED BY <1>1, <2>1, <2>3, <2>5, <2>6, <2>7, <2>8, <2>9, <2>10, WorkerMoves
<1> QED BY <1>2, <1>3

(* Who passes the check drives on from the envelope.                       *)
LEMMA CheckSeesEnvelope ==
  ASSUME WindowsInv, Active, worker.pc \in {"ego", "submit"}, ActiveCheckPasses
  PROVE  wasNear
<1>1. worker.seen # None
  BY DEF WindowsInv, StepsFit
<1>2. IsNear(worker.seen.shows) => wasNear
  BY <1>1 DEF WindowsInv, SeenFits
<1>3. ~session.pending => wasNear
  BY DEF WindowsInv, EnvelopeFits
<1> QED BY <1>2, <1>3 DEF ActiveCheckPasses, IsNear

LEMMA CheckKeepsInv ==
  ASSUME WindowsInv, Check
  PROVE  WindowsInv'
<1>1. Active /\ worker.pc = "ego" /\ UNCHANGED <<now, gameVars, storeVars, plan, faults, auxVars>>
  BY DEF Check
<1>2. CASE CheckFailed
  BY <1>1, <1>2, EndKeepsInv DEF CheckFailed, WindowsInv, WindowsTypeOK
<1>3. CASE /\ ActiveCheckPasses
           /\ session' = [session EXCEPT !.pending = FALSE]
           /\ worker' = [worker EXCEPT !.pc = "select", !.seen = None]
           /\ UNCHANGED cameraVars
  <2>1. session \in Sessions /\ worker \in Workers
    BY DEF WindowsInv, WindowsTypeOK
  <2>2. /\ session' \in Sessions /\ session'.state = session.state /\ session'.since = session.since
        /\ session'.bay = session.bay /\ session'.ended = session.ended
    BY <1>3, <2>1 DEF Sessions
  <2>3. /\ worker' \in Workers /\ worker'.window = worker.window /\ worker'.pc = "select"
        /\ worker'.seen = None /\ worker'.inputs = worker.inputs
    BY <1>3, <2>1 DEF Workers
  <2>4. wasNear
    BY <1>1, <1>3, CheckSeesEnvelope
  <2>5. worker'.inputs = <<>>
    BY <1>1, <2>3 DEF WindowsInv, StepsFit
  <2>6. SeenFits' /\ InputsFit'
    BY <2>3, <2>5 DEF SeenFits, InputsFit
  <2>7. AnswersFit'
    BY <1>1, <2>3 DEF WindowsInv, AnswersFit
  <2> QED BY <1>1, <1>3, <2>2, <2>3, <2>4, <2>5, <2>6, <2>7, WorkerMoves
<1> QED BY <1>2, <1>3 DEF Check

(* The rows that are selected for a time belong to it.                     *)
LEMMA SelectionsFit ==
  ASSUME WindowsInv, NEW date \in Int, NEW times \in PlannerSelections(date)
  PROVE  /\ times \in Seq(Int) /\ times # <<>> /\ Len(times) = Len(TelemetryOffsets)
         /\ Last(times) \in Int /\ Last(times) \in date - AlignmentTolerance .. date
         /\ \A i \in 1..Len(times) - 1 : times[i] < times[i + 1]
         /\ \A i \in 1..Len(times) :
              Distance(times[i], Last(times) + TelemetryOffsets[i] * SampleInterval) <= OffsetTolerance
<1> DEFINE n == Len(TelemetryOffsets)
           Target(anchor, k) == history[anchor].time + TelemetryOffsets[k] * SampleInterval
<1>1. PICK anchor \in Anchors(date) : \E c \in SelectionsAtOffsets(anchor) :
        times = [k \in DOMAIN c |-> history[c[k]].time]
  BY DEF PlannerSelections
<1>2. PICK c \in SelectionsAtOffsets(anchor) : times = [k \in DOMAIN c |-> history[c[k]].time]
  BY <1>1
<1>3. /\ c \in [1..n -> DOMAIN history] /\ c[n] = anchor
      /\ \A k \in 1..n - 1 : /\ c[k] \in ClosestEarlier(c[k + 1], Target(anchor, k))
                             /\ Distance(history[c[k]].time, Target(anchor, k)) <= OffsetTolerance
  BY DEF SelectionsAtOffsets
<1>4. n \in Nat \ {0} /\ TelemetryOffsets[n] = 0
  BY WindowsAssumption, EmptySeq, LenProperties DEF Last
<1>5. \A i \in DOMAIN history : history[i].time \in Int
  <2>1. history \in Seq(Sample)
    BY DEF WindowsInv, WindowsTypeOK, StoreTypeOK
  <2>2. \A i \in DOMAIN history : history[i] \in Sample
    BY <2>1, ElementOfSeq, LenProperties
  <2> QED BY <2>2 DEF Sample
<1> HIDE DEF n
<1>6. times \in [1..n -> Int] /\ \A i \in 1..n : times[i] = history[c[i]].time
  BY <1>2, <1>3, <1>5
<1>7. times \in Seq(Int) /\ Len(times) = n /\ times # <<>> /\ Last(times) = times[n]
  <2>1. times \in Seq(Int)
    BY <1>4, <1>6, IsASeq
  <2>2. Len(times) = n
    BY <1>4, <1>6, <2>1, LenProperties
  <2> QED BY <1>4, <2>1, <2>2, EmptySeq DEF Last
<1>8. times[n] = history[anchor].time /\ times[n] \in date - AlignmentTolerance .. date
  <2>1. anchor \in Eligible(date) /\ anchor \in DOMAIN history
    BY DEF Anchors, Eligible
  <2>2. date - history[anchor].time >= 0 /\ date - history[anchor].time <= AlignmentTolerance
    BY <2>1 DEF Eligible, Delta
  <2> QED BY <1>3, <1>4, <1>5, <1>6, <2>1, <2>2, ToleranceTypes
<1>9. ASSUME NEW i \in 1..n - 1 PROVE times[i] < times[i + 1]
  <2>1. i \in 1..n /\ i + 1 \in 1..n
    BY <1>4
  <2>2. history[c[i]].time < history[c[i + 1]].time
    BY <1>3 DEF ClosestEarlier
  <2> QED BY <1>6, <2>1, <2>2
<1>10. ASSUME NEW i \in 1..n
       PROVE  Distance(times[i], times[n] + TelemetryOffsets[i] * SampleInterval) <= OffsetTolerance
  <2>1. CASE i = n
    <3>1. times[n] \in Int /\ SampleInterval \in Nat
      BY <1>4, <1>6, ToleranceTypes
    <3>2. times[n] + TelemetryOffsets[n] * SampleInterval = times[n]
      BY <1>4, <3>1
    <3>3. Distance(times[n], times[n]) = 0
      BY <3>1 DEF Distance
    <3>4. OffsetTolerance >= 0
      BY ToleranceTypes DEF OffsetTolerance
    <3> QED BY <2>1, <3>2, <3>3, <3>4
  <2>2. CASE i # n
    <3>1. i \in 1..n - 1
      BY <1>4, <2>2
    <3> QED BY <1>3, <1>6, <1>8, <3>1
  <2> QED BY <2>1, <2>2
<1>11. times[n] \in Int
  BY <1>4, <1>6
<1> QED BY <1>7, <1>8, <1>9, <1>10, <1>11 DEF n

LEMMA SelectKeepsInv ==
  ASSUME WindowsInv, Select
  PROVE  WindowsInv'
<1> DEFINE date == worker.window.capturedAt
<1>1. Active /\ worker.pc = "select" /\ UNCHANGED <<now, gameVars, storeVars, plan, faults, auxVars>>
  BY DEF Select
<1>2. CASE End("failed")
  BY <1>1, <1>2, EndKeepsInv DEF WindowsInv, WindowsTypeOK
<1>3. ASSUME NEW times \in PlannerSelections(date),
             worker' = [worker EXCEPT !.pc = "ask", !.inputs = times,
                                      !.sampledAt = IF Last(times) > date THEN Last(times) ELSE date],
             UNCHANGED <<session, cameraVars>>
      PROVE  WindowsInv'
  <2>1. worker \in Workers /\ session \in Sessions
    BY DEF WindowsInv, WindowsTypeOK
  <2>2. worker.window # None /\ worker.seen = None
    BY <1>1 DEF WindowsInv, StepsFit
  <2>3. date \in Int
    BY <2>2, WindowTypes DEF Windows
  <2> HIDE DEF date
  <2>4. /\ times \in Seq(Int) /\ times # <<>> /\ Len(times) = Len(TelemetryOffsets)
        /\ Last(times) \in Int /\ Last(times) \in date - AlignmentTolerance .. date
        /\ \A i \in 1..Len(times) - 1 : times[i] < times[i + 1]
        /\ \A i \in 1..Len(times) :
             Distance(times[i], Last(times) + TelemetryOffsets[i] * SampleInterval) <= OffsetTolerance
    BY <2>3, SelectionsFit
  <2>5. (IF Last(times) > date THEN Last(times) ELSE date) = date
    BY <2>3, <2>4, ToleranceTypes
  <2>6. /\ worker' \in Workers /\ worker'.pc = "ask" /\ worker'.window = worker.window
        /\ worker'.seen = None /\ worker'.inputs = times /\ worker'.sampledAt = date
        /\ worker'.answer = worker.answer
    BY <1>3, <2>1, <2>2, <2>3, <2>4, <2>5 DEF Workers
  <2>7. SeenFits' /\ AnswersFit'
    BY <1>1, <2>6 DEF WindowsInv, SeenFits, AnswersFit
  <2>8. InputsFit'
    BY <2>4, <2>6 DEF InputsFit, date
  <2>9. ~session.pending => wasNear
    BY <1>1 DEF WindowsInv, EnvelopeFits
  <2> QED BY <1>1, <1>3, <2>1, <2>4, <2>6, <2>7, <2>8, <2>9, WorkerMoves
<1> QED BY <1>2, <1>3 DEF Select

LEMMA ServerAnswersKeepsInv ==
  ASSUME WindowsInv, ServerAnswers
  PROVE  WindowsInv'
<1>1. Active /\ worker.pc = "ask" /\ UNCHANGED <<now, gameVars, storeVars, plan, faults, auxVars>>
  BY DEF ServerAnswers
<1>2. CASE End("failed")
  BY <1>1, <1>2, EndKeepsInv DEF WindowsInv, WindowsTypeOK
<1>3. ASSUME NEW answer \in Answers, ValidatePlan(worker.sampledAt, now, answer.points),
             worker' = [worker EXCEPT !.pc = "recheck", !.answer = answer.points],
             UNCHANGED <<session, cameraVars>>
      PROVE  WindowsInv'
  <2>1. worker \in Workers /\ session \in Sessions
    BY DEF WindowsInv, WindowsTypeOK
  <2>2. answer.points \in Seq(Setpoint)
    BY WindowsAssumption
  <2>3. /\ worker' \in Workers /\ worker'.pc = "recheck" /\ worker'.window = worker.window
        /\ worker'.seen = worker.seen /\ worker'.inputs = worker.inputs
        /\ worker'.sampledAt = worker.sampledAt /\ worker'.answer = answer.points
    BY <1>3, <2>1, <2>2 DEF Workers
  <2>4. worker.seen = None /\ worker.inputs # <<>>
    BY <1>1 DEF WindowsInv, StepsFit
  <2>5. SeenFits' /\ InputsFit'
    BY <2>3, <2>4 DEF WindowsInv, SeenFits, InputsFit
  <2>6. AnswersFit'
    BY <1>1, <1>3, <2>3 DEF WindowsInv, AnswersFit
  <2>7. ~session.pending => wasNear
    BY <1>1 DEF WindowsInv, EnvelopeFits
  <2> QED BY <1>1, <1>3, <2>1, <2>3, <2>4, <2>5, <2>6, <2>7, WorkerMoves
<1> QED BY <1>2, <1>3 DEF ServerAnswers

(* What is submitted comes after what drove before.                        *)
LEMMA SubmitKeepsInv ==
  ASSUME WindowsInv, Submit
  PROVE  WindowsInv'
<1> USE DEF gameVars, storeVars, auxVars
<1>1. Active /\ worker.pc = "submit" /\ UNCHANGED <<now, gameVars, storeVars, auxVars>>
  BY DEF Submit
<1>2. CASE CheckFailed /\ UNCHANGED <<plan, faults>>
  BY <1>1, <1>2, EndKeepsInv DEF CheckFailed, WindowsInv, WindowsTypeOK
<1>3. CASE ActiveCheckPasses /\ Fault /\ End("failed") /\ UNCHANGED plan
  BY <1>1, <1>3, FaultsAreCounted, EndKeepsInv
<1>4. CASE /\ ActiveCheckPasses
           /\ plan' = [sequence |-> worker.window.sequence, frame |-> worker.window.frame,
                       sampledAt |-> worker.sampledAt, points |-> worker.answer]
           /\ worker' = NoWork /\ UNCHANGED <<session, cameraVars, faults>>
  <2> USE <1>4 DEF cameraVars
  <2>1. worker.window # None /\ worker.inputs # <<>> /\ worker.window \in Windows /\ worker \in Workers
    BY <1>1, WindowTypes DEF WindowsInv, StepsFit, WindowsTypeOK
  <2>2. worker.sampledAt = worker.window.capturedAt
    BY <2>1 DEF WindowsInv, InputsFit
  <2>3. plan' \in Plans
    BY <2>1 DEF Plans, Windows, Workers
  <2>4. /\ worker' \in Workers /\ worker'.window = None /\ worker'.seen = None /\ worker'.inputs = <<>>
        /\ worker'.pc = "idle"
    BY EmptySeq DEF NoWork, Workers
  <2>5. WindowsTypeOK'
    BY <1>1, <2>3, <2>4 DEF WindowsInv, WindowsTypeOK, StoreTypeOK
  <2>6. wasNear
    BY <1>1, CheckSeesEnvelope
  <2>7. EgoFits' /\ RestFits' /\ StepsFit' /\ SeenFits' /\ EnvelopeFits'
    BY <1>1, <2>4, <2>6 DEF WindowsInv, EgoFits, RestFits, StepsFit, SeenFits, EnvelopeFits, Active
  <2>8. LinesFit' /\ ClockFits' /\ BufferFits'
    BY <1>1 DEF WindowsInv, LinesFit, ClockFits, BufferFits, Kept, FrameFits, CapturedAt, Active
  <2>9. WindowsFit' /\ InputsFit'
    BY <1>1, <2>4 DEF WindowsInv, WindowsFit, WindowFits, FrameFits, CapturedAt, InputsFit
  <2>10. AnswersFit'
    BY <1>1, <2>4 DEF WindowsInv, AnswersFit
  <2>11. OrderFits'
    <3>1. /\ PlanPlace'.sequence = worker.window.sequence /\ PlanPlace'.frame = worker.window.frame
          /\ PlanPlace'.capturedAt = worker.window.capturedAt
      BY <2>2 DEF PlanPlace
    <3>2. IsPast(worker.window) /\ (predictQ # <<>> => Precedes(worker.window, predictQ[1]))
      BY <1>1, <2>1 DEF WindowsInv, OrderFits
    <3>3. IsPast(PlanPlace)' /\ (predictQ' # <<>> => Precedes(PlanPlace, predictQ[1])')
      BY <3>1, <3>2 DEF IsPast, Precedes, FrameDate
    <3>4. predictQ' # <<>> => IsPast(predictQ[1])'
      BY <1>1 DEF WindowsInv, OrderFits, IsPast, Precedes, FrameDate
    <3> QED BY <1>1, <2>4, <3>3, <3>4 DEF WindowsInv, OrderFits, NewestWindowWaits, FrameDate
  <2> QED BY <2>5, <2>7, <2>8, <2>9, <2>10, <2>11 DEF WindowsInv
<1> QED BY <1>2, <1>3, <1>4 DEF Submit
-----------------------------------------------------------------------------
(* The theorems.                                                           *)
LEMMA InitHoldsInv == WindowsInit => WindowsInv
<1> SUFFICES ASSUME WindowsInit PROVE WindowsInv
  OBVIOUS
<1> USE DEF WindowsInit, NoFrames, NoWork, NoClock, NoPlan
<1>1. StoreTypeOK /\ history = <<>> /\ now = 1
  <2>1. 0 \in 0..MaxChanges /\ 0 \in 0..MaxSamples /\ 1 \in 1..MaxTime /\ 0 \in 0..MaxTime
        /\ 0 <= HistoryLimit /\ 0 <= TemporalEntries
    BY StoreAssumption
  <2>2. Len(<<>>) = 0 /\ \A S : <<>> \in Seq(S)
    BY EmptySeq
  <2> QED BY <2>1, <2>2 DEF StoreInit, StoreTypeOK
<1>2. WindowsTypeOK
  <2>1. session \in Sessions /\ clock \in Clocks
    BY DEF Sessions, Clocks
  <2>2. consumer \in Consumers /\ worker \in Workers /\ plan \in Plans
    BY ToleranceTypes, EmptySeq DEF Consumers, Workers, Plans
  <2>3. timings \in Seq(Lines) /\ Len(timings) <= TimingBuffer /\ predictQ \in Seq(Windows) /\ Len(predictQ) <= 1
    BY ToleranceTypes, EmptySeq
  <2>4. observed \in 0..MaxFrames /\ faults \in 0..MaxFaults
    BY ToleranceTypes
  <2> QED BY <1>1, <2>1, <2>2, <2>3, <2>4 DEF WindowsTypeOK
<1>3. EgoFits /\ RestFits /\ StepsFit /\ SeenFits /\ EnvelopeFits
  BY DEF StoreInit, EgoFits, RestFits, StepsFit, SeenFits, EnvelopeFits, Active
<1>4. LinesFit /\ ClockFits /\ WindowsFit /\ OrderFits /\ InputsFit /\ AnswersFit
  BY <1>1, EmptySeq DEF LinesFit, ClockFits, WindowsFit, OrderFits, InputsFit, AnswersFit, Active
<1>5. BufferFits
  BY OffsetsOfImages, EmptySeq DEF BufferFits, Kept
<1> QED BY <1>2, <1>3, <1>4, <1>5 DEF WindowsInv

LEMMA NextKeepsInv ==
  ASSUME WindowsInv, [WindowsNext]_windowVars
  PROVE  WindowsInv'
<1>1. CASE WindowsNext
  <2>1. CASE Telemetry
    BY <2>1, TelemetryKeepsInv
  <2>2. CASE Start \/ BindTarget \/ Activate
    BY <2>2, StartKeepsInv
  <2>3. CASE SessionEnds \/ TimingTimesOut \/ StreamEnds \/ PredictionFails
    BY <2>3, EndingsKeepInv
  <2>4. CASE ReadTiming \/ ReadBadTiming
    BY <2>4, ReadTimingKeepsInv
  <2>5. CASE Consumer
    BY <2>5, ConsumeFrameKeepsInv, QueueKeepsInv DEF Consumer
  <2>6. CASE Take
    BY <2>6, TakeKeepsInv
  <2>7. CASE Look \/ LookAgain
    BY <2>7, LooksKeepInv
  <2>8. CASE Check
    BY <2>8, CheckKeepsInv
  <2>9. CASE Select
    BY <2>9, SelectKeepsInv
  <2>10. CASE ServerAnswers
    BY <2>10, ServerAnswersKeepsInv
  <2>11. CASE Submit
    BY <2>11, SubmitKeepsInv
  <2> QED BY <1>1, <2>1, <2>2, <2>3, <2>4, <2>5, <2>6, <2>7, <2>8, <2>9, <2>10, <2>11 DEF WindowsNext, Worker
<1>2. CASE UNCHANGED windowVars
  <2>1. /\ UNCHANGED <<now, gameVars, storeVars>> /\ UNCHANGED <<session, observed, timings, clock>>
        /\ UNCHANGED <<consumer, predictQ>> /\ UNCHANGED <<worker, plan, faults>> /\ UNCHANGED auxVars
    BY <1>2 DEF windowVars, inferVars, cameraVars, plannerVars
  <2>2. WindowsTypeOK' /\ EgoFits' /\ RestFits' /\ StepsFit' /\ SeenFits' /\ EnvelopeFits'
    BY <2>1 DEF gameVars, storeVars, auxVars, WindowsInv, WindowsTypeOK, StoreTypeOK, EgoFits,
      RestFits, StepsFit, SeenFits, EnvelopeFits, Active, IsNear
  <2>3. LinesFit' /\ ClockFits' /\ BufferFits' /\ WindowsFit'
    BY <2>1 DEF WindowsInv, LinesFit, ClockFits, BufferFits, Kept, WindowsFit, WindowFits, FrameFits,
      CapturedAt, Active
  <2>4. OrderFits' /\ InputsFit' /\ AnswersFit'
    BY <2>1 DEF WindowsInv, OrderFits, IsPast, Precedes, PlanPlace, FrameDate, NewestWindowWaits,
      InputsFit, AnswersFit, Active
  <2> QED BY <2>2, <2>3, <2>4 DEF WindowsInv
<1> QED BY <1>1, <1>2

(* The inductive invariant holds throughout.                               *)
THEOREM WindowsInvariant == WindowsSpec => []WindowsInv
<1>1. WindowsInit => WindowsInv
  BY InitHoldsInv
<1>2. WindowsInv /\ [WindowsNext]_windowVars => WindowsInv'
  BY NextKeepsInv
<1> QED BY <1>1, <1>2, PTL DEF WindowsSpec

(* Every variable has its type: queue and channel stay within their room,  *)
(* and no session has more frames than it took (consumeInferenceFrames,    *)
(* enqueuePredictionWindow).                                               *)
THEOREM WindowsTypes == WindowsSpec => []WindowsTypeOK
<1>1. WindowsInv => WindowsTypeOK
  BY DEF WindowsInv
<1> QED BY <1>1, WindowsInvariant, PTL

(* The frames and the rows that the model is asked about belong together,  *)
(* whatever FFmpeg writes and however samples arrive                       *)
(* (inferenceFrameClock.resolve, buildPlannerSelection).                   *)
THEOREM InputsBelongTogether == WindowsSpec => []InputsAreOfTheFrame
<1>1. WindowsInv => InputsAreOfTheFrame
  <2> SUFFICES ASSUME WindowsInv, worker.inputs # <<>>
               PROVE  InputsAreOfTheFrame
    BY DEF InputsAreOfTheFrame
  <2>1. worker.window # None /\ worker.window \in Windows
    BY WindowTypes DEF WindowsInv, StepsFit
  <2>2. DOMAIN worker.window.frames = DOMAIN ImageOffsets
    BY <2>1 DEF Windows
  <2>3. WindowFits(worker.window)
    BY <2>1 DEF WindowsInv, WindowsFit
  <2>4. worker.inputs \in Seq(Int) /\ DOMAIN worker.inputs = 1..Len(worker.inputs)
    BY LenProperties DEF WindowsInv, WindowsTypeOK, Workers
  <2> QED BY <2>2, <2>3, <2>4 DEF WindowsInv, InputsFit, WindowFits, FrameFits, InputsAreOfTheFrame
<1> QED BY <1>1, WindowsInvariant, PTL

(* An older window never waits for the worker while a newer one was thrown *)
(* away (enqueuePredictionWindow).                                         *)
THEOREM NewestWaits == WindowsSpec => []NewestWindowWaits
<1>1. WindowsInv => NewestWindowWaits
  BY DEF WindowsInv, OrderFits, RestFits, NewestWindowWaits
<1> QED BY <1>1, WindowsInvariant, PTL

(* Nothing drives the car that was never seen in the envelope of a start   *)
(* while its session was active (validateActiveParkingInference).          *)
THEOREM DrivesFromEnvelopeOnly == WindowsSpec => []DrivesFromEnvelope
<1>1. WindowsInv => DrivesFromEnvelope
  BY DEF WindowsInv, EnvelopeFits, DrivesFromEnvelope
<1> QED BY <1>1, WindowsInvariant, PTL

(* A plan goes out on the newest sound telemetry there is, and each is of  *)
(* a later observation than the one before (submitActiveParkingPrediction).*)
THEOREM PlansStayCurrent == WindowsSpec => PlansAreCurrent
<1>1. ASSUME WindowsInv, [WindowsNext]_windowVars, plan' # plan
      PROVE  Submit
  <2>1. WindowsNext
    BY <1>1 DEF windowVars, inferVars, plannerVars
  <2> QED BY <1>1, <2>1 DEF WindowsNext, Telemetry, Start, BindTarget, Activate, SessionEnds, ReadTiming,
        ReadBadTiming, ReadLine, TimingTimesOut, StreamEnds, Consumer, ConsumeFrame, Offer, DropOldest,
        Enqueue, Worker, Take, Look, Check, Select, PredictionFails, LookAgain, ServerAnswers,
        plannerVars, inferVars
<1>2. ASSUME WindowsInv, [WindowsNext]_windowVars, plan' # plan
      PROVE  /\ worker.seen.last =>
                  /\ worker.seen.time = highest
                  /\ worker.seen.shows.phase = "ready" /\ worker.seen.shows.bay = session.bay
             /\ plan'.frame > plan.frame /\ plan'.sequence > plan.sequence /\ plan'.sampledAt > plan.sampledAt
  <2>1. /\ Active /\ worker.pc = "submit" /\ ActiveCheckPasses
        /\ plan' = [sequence |-> worker.window.sequence, frame |-> worker.window.frame,
                    sampledAt |-> worker.sampledAt, points |-> worker.answer]
    BY <1>1, <1>2 DEF Submit
  <2>2. worker.seen # None /\ worker.window # None /\ worker.inputs # <<>> /\ worker.window \in Windows
    BY <1>2, <2>1, WindowTypes DEF WindowsInv, StepsFit
  <2>3. ASSUME worker.seen.last PROVE worker.seen.time = highest
    BY <1>2, <2>1, <2>2, <2>3
       DEF WindowsInv, SeenFits, EgoFits, ActiveCheckPasses, OperatingStateIsReady, EgoIsSound
  <2>4. worker.seen.shows.phase = "ready" /\ worker.seen.shows.bay = session.bay
    BY <2>1 DEF ActiveCheckPasses, OperatingStateIsReady
  <2>5. Precedes(PlanPlace, worker.window) /\ worker.sampledAt = worker.window.capturedAt
    BY <1>2, <2>1, <2>2 DEF WindowsInv, OrderFits, InputsFit
  <2>6. /\ worker.window.frame > plan.frame /\ worker.window.sequence > plan.sequence
        /\ worker.sampledAt > plan.sampledAt
    BY <1>2, <2>2, <2>5 DEF Precedes, PlanPlace, WindowsInv, WindowsTypeOK, Plans, Windows
  <2> QED BY <2>1, <2>3, <2>4, <2>6
<1>3. WindowsInv /\ [WindowsNext]_windowVars =>
        /\ [plan' # plan /\ worker.seen.last =>
              /\ worker.seen.time = highest
              /\ worker.seen.shows.phase = "ready" /\ worker.seen.shows.bay = session.bay]_windowVars
        /\ [plan' # plan => plan'.frame > plan.frame /\ plan'.sequence > plan.sequence
                              /\ plan'.sampledAt > plan.sampledAt]_windowVars
  BY <1>2
<1> QED BY <1>3, WindowsInvariant, PTL DEF WindowsSpec, PlansAreCurrent, PlanKnowsTheLatest, PlansAdvance
=============================================================================
