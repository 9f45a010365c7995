---------------------------- MODULE DatasetSamples ----------------------------
(***************************************************************************)
(* From the frames and the telemetry of a recorded trip to the samples of  *)
(* its dataset (backend/internal/dataset/processor.go).                    *)
(*                                                                         *)
(* Times are integers.  A frame has its pts, whether ffprobe gave it a     *)
(* timestamp, and whether it shows the flash that starts the trip.  A row  *)
(* of telemetry has its time and "stopped"; a field that may be missing is *)
(* a set with at most one member: its speed, and of its yaw, yaw rate and  *)
(* route delta the presence alone.  A sample names frames by the number of *)
(* their image, and rows by their index.                                   *)
(***************************************************************************)
EXTENDS Integers, Sequences, FiniteSets, SequencesExt, FiniteSetsExt

CONSTANTS
  WindowSize, FrameStride, SampleStride,  \* of the frame windows
  LabelTolerance, SampleInterval,         \* of the telemetry timeline
  TelemetryOffsets, FutureOffsets,
  SpeedDeltaClip, FlashFrameLimit,
  SmoothingRadius,                        \* futureTargetSmoothingRadius
  StoppedBurst, StoppedSpacing            \* of the thinning of stopped samples

(* What validTelemetryOffsets, validFutureOffsets and the start of         *)
(* buildDatasetSamplesWithStats ask for; otherwise there are no samples.   *)
ASSUME SamplingAssumption ==
  /\ WindowSize \in Nat /\ WindowSize % 2 = 1
  /\ FrameStride \in Nat \ {0} /\ SampleStride \in Nat \ {0}
  /\ LabelTolerance \in Nat /\ SampleInterval \in Nat \ {0}
  /\ FlashFrameLimit \in Nat /\ StoppedBurst \in Int /\ StoppedSpacing \in Int
  /\ TelemetryOffsets \in Seq(Int) /\ FutureOffsets \in Seq(Int)
  /\ TelemetryOffsets # <<>> /\ Last(TelemetryOffsets) = 0
  /\ \A i \in 1..Len(TelemetryOffsets) - 1 : TelemetryOffsets[i] < TelemetryOffsets[i + 1]
  /\ FutureOffsets # <<>> /\ FutureOffsets[1] >= 1
  /\ \A i \in 1..Len(FutureOffsets) - 1 : FutureOffsets[i] < FutureOffsets[i + 1]

Offset(a, b) == IF a < b THEN b - a ELSE a - b

(* What is left of a list when only some places are kept.                  *)
Kept(list, places) ==
  LET part[n \in 0..Len(list)] ==
        IF n = 0 THEN <<>> ELSE IF n \in places THEN Append(part[n - 1], list[n]) ELSE part[n - 1]
  IN part[Len(list)]

-----------------------------------------------------------------------------
(* Frames.  A frame without a timestamp is dropped before the rest are     *)
(* given the images in their order, 1, 2, ..., though ffmpeg wrote an      *)
(* image for it too; then the frames whose image is missing are dropped.   *)
ProbeVideoFrames(video) == Kept(video, {i \in DOMAIN video : video[i].timed})

AttachImagePaths(frames) ==
  [i \in 1..Len(frames) |-> [pts |-> frames[i].pts, image |-> i]]

FramesWithImages(video, existing) ==
  LET frames == AttachImagePaths(ProbeVideoFrames(video))
  IN Kept(frames, {i \in DOMAIN frames : frames[i].image \in existing})

(* The first of the leading frames that is bright enough: 0 for none.      *)
SyncFlash(video, frames) ==
  LET bright == {i \in 1..Min({FlashFrameLimit, Len(frames)}) : video[frames[i].image].flash}
  IN IF bright = {} THEN 0 ELSE Min(bright)

(* A fault to be caught: the window is centred on its frame.               *)
FrameWindowCentred(frames, anchor) ==
  LET earliest == anchor - ((WindowSize - 1) \div 2) * FrameStride
      indices == [slot \in 1..WindowSize |-> earliest + (slot - 1) * FrameStride]
  IN IF earliest < 1 \/ indices[WindowSize] > Len(frames) THEN <<>>
     ELSE [slot \in 1..WindowSize |-> frames[indices[slot]].image]

(* The images of the window that ends at a frame; <<>> if it would begin   *)
(* before the first.                                                       *)
FrameWindow(frames, anchor) ==
  LET earliest == anchor - (WindowSize - 1) * FrameStride
  IN IF earliest < 1 THEN <<>>
     ELSE [slot \in 1..WindowSize |-> frames[earliest + (slot - 1) * FrameStride].image]

-----------------------------------------------------------------------------
(* Telemetry.  A row goes behind those that are not later: of rows with    *)
(* the same time, whose order sort.Slice leaves open, the first comes first.*)
Inserted(labels, label) ==
  LET earlier == {i \in DOMAIN labels : labels[i].time <= label.time}
  IN InsertAt(labels, Cardinality(earlier) + 1, label)

(* Rows without a valid time are left out, the others sorted by their time *)
(* since the flash, in frames' units.                                      *)
TimedLabels(rows, syncTime) ==
  LET labels[n \in 0..Len(rows)] ==
        IF n = 0 THEN <<>>
        ELSE IF rows[n].time = {} THEN labels[n - 1]
        ELSE Inserted(labels[n - 1], [rows[n] EXCEPT !.time = Max(rows[n].time) - syncTime])
  IN labels[Len(rows)]

(* A fault to be caught: the first row at or after the time is taken.      *)
NearestLater(labels, target, tolerance, first, last) ==
  LET later == {i \in first..last : labels[i].time >= target}
  IN IF later = {} THEN 0
     ELSE IF Offset(labels[Min(later)].time, target) > tolerance THEN 0 ELSE Min(later)

(* The row of a range that is nearest to a time and not beyond the         *)
(* tolerance, 0 for none: of the first row at or after the time and the    *)
(* one before it, the later unless the earlier is nearer.                  *)
Nearest(labels, target, tolerance, first, last) ==
  LET later == {i \in first..last : labels[i].time >= target}
      index == IF later = {} THEN last + 1 ELSE Min(later)
      candidates == {index - 1, index} \cap (first..last)
      Off(i) == Offset(labels[i].time, target)
      best == CHOOSE i \in candidates :
                \A j \in candidates \ {i} : IF j < i THEN Off(i) <= Off(j) ELSE Off(i) < Off(j)
  IN IF candidates = {} THEN 0 ELSE IF Off(best) > tolerance THEN 0 ELSE best

AlignmentTolerance == Min({LabelTolerance, SampleInterval \div 2})

(* The dense rows before a row, each the nearest to its time among those   *)
(* after the row before it; <<>> as soon as one is missing.                *)
TelemetryHistory(labels, anchor) ==
  LET first == TelemetryOffsets[1]
      row[offset \in first..0] ==
        LET previous == IF offset = first THEN 0 ELSE row[offset - 1]
        IN IF offset # first /\ previous = 0 THEN 0
           ELSE IF offset = 0 THEN anchor
           ELSE Nearest(labels, labels[anchor].time + offset * SampleInterval,
                        AlignmentTolerance, previous + 1, anchor - 1)
  IN IF row[0] = 0 THEN <<>> ELSE [k \in 1..1 - first |-> row[first + k - 1]]

(* The dense rows after a row, in the same way.                            *)
TelemetryFuture(labels, anchor) ==
  LET horizon == Last(FutureOffsets)
      row[offset \in 0..horizon] ==
        IF offset = 0 THEN anchor
        ELSE IF row[offset - 1] = 0 THEN 0
        ELSE Nearest(labels, labels[anchor].time + offset * SampleInterval,
                     AlignmentTolerance, row[offset - 1] + 1, Len(labels))
  IN IF row[horizon] = 0 THEN <<>> ELSE [k \in 1..horizon |-> row[k]]

-----------------------------------------------------------------------------
(* Targets: means over the rows around one, of those that have the value.  *)
Around(labels, center) ==
  {i \in DOMAIN labels : center - SmoothingRadius <= i /\ i <= center + SmoothingRadius}

SmoothedFutureSpeed(labels, center) ==
  LET known == {i \in Around(labels, center) : labels[i].speed # {}}
  IN IF known = {} THEN {}
     ELSE {MapThenSumSet(LAMBDA i : Max(labels[i].speed), known) \div Cardinality(known)}

SmoothedFutureYaw(labels, center) == \E i \in Around(labels, center) : labels[i].yaw

(* A row has a yaw rate or it is derived from the yaws of its neighbours,  *)
(* at an end from its own and that of the one neighbour.                   *)
ResolvedYawRate(labels, i) ==
  \/ labels[i].yawRate
  \/ LET left == IF i > 1 THEN i - 1 ELSE i
         right == IF i < Len(labels) THEN i + 1 ELSE i
     IN labels[left].yaw /\ labels[right].yaw /\ labels[right].time > labels[left].time

SmoothedYawRate(labels, center) == \E i \in Around(labels, center) : ResolvedYawRate(labels, i)

SmoothedRouteForwardDelta(labels, center) == \E i \in Around(labels, center) : labels[i].route

(* The change of speed to be predicted, clipped; the label also needs the  *)
(* speeds themselves and the yaw now.                                      *)
TrainingLabel(labels, current, future) ==
  LET target == SmoothedFutureSpeed(labels, future)
      delta == Max(target) - Max(labels[current].speed)
  IN IF target = {} \/ labels[current].speed = {} \/ labels[future].speed = {}
        \/ ~labels[current].yaw
     THEN {}
     ELSE {[speedDelta |-> Max({-SpeedDeltaClip, Min({SpeedDeltaClip, delta})}),
            horizon |-> labels[future].time - labels[current].time]}

-----------------------------------------------------------------------------
(* The sample of a frame, if it has one.                                   *)
SampleAt(frames, labels, flash, anchor) ==
  LET At(i) == Nearest(labels, frames[i].pts - frames[flash].pts, LabelTolerance, 1, Len(labels))
      future == anchor + SampleStride
      now == At(anchor)
      then == At(future)
      window == FrameWindow(frames, anchor)
      history == TelemetryHistory(labels, now)
      next == TelemetryFuture(labels, now)
  IN IF window = <<>> THEN {}
     ELSE IF now = 0 THEN {}
     ELSE IF history = <<>> \/ next = <<>> \/ future > Len(frames) THEN {}
     ELSE IF then = 0 THEN {}
     ELSE IF /\ SmoothedFutureYaw(labels, then) /\ SmoothedYawRate(labels, then)
             /\ SmoothedRouteForwardDelta(labels, now)
             /\ labels[then].time > labels[now].time
     THEN {[pts |-> frames[anchor].pts, label |-> now, frames |-> window,
            history |-> history, future |-> next, target |-> target] :
              target \in TrainingLabel(labels, now, then)}
     ELSE {}

Anchors(frames) == {i \in 1..Len(frames) : (i - 1) % SampleStride = 0}

DatasetSamples(frames, labels, flash) ==
  LET samples[n \in 0..Len(frames)] ==
        IF n = 0 THEN <<>>
        ELSE samples[n - 1] \o SetToSeq(IF n \in Anchors(frames) THEN SampleAt(frames, labels, flash, n) ELSE {})
  IN samples[Len(frames)]

(* A fault to be caught: a run of stopped samples never ends.              *)
ThinStoppedForever(samples, labels) ==
  LET stopped == SelectSeq(samples, LAMBDA sample : labels[sample.label].stopped)
      first == {sample \in Range(SubSeq(stopped, 1, StoppedBurst)) : TRUE}
  IN SelectSeq(samples, LAMBDA sample : ~labels[sample.label].stopped \/ sample \in first)

(* The run of stopped samples a sample ends: none.                         *)
Moving == [inRun |-> FALSE, kept |-> 0, last |-> 0]

(* Of the samples at a standstill in a row, the first ones are kept, and   *)
(* then one per spacing.                                                   *)
ThinStopped(samples, labels) ==
  LET Time(n) == labels[samples[n].label].time
      Stopped(n) == labels[samples[n].label].stopped
      Due(run, n) ==
        ~run.inRun \/ run.kept < StoppedBurst \/ Time(n) - run.last >= StoppedSpacing
      runs[n \in 0..Len(samples)] ==
        IF n = 0 THEN Moving
        ELSE IF ~Stopped(n) THEN Moving
        ELSE LET before == runs[n - 1]
             IN IF Due(before, n) THEN [inRun |-> TRUE, kept |-> before.kept + 1, last |-> Time(n)]
                ELSE before
  IN IF StoppedBurst < 1 \/ StoppedSpacing <= 0 THEN samples
     ELSE Kept(samples, {n \in DOMAIN samples : Stopped(n) => Due(runs[n - 1], n)})
=============================================================================
