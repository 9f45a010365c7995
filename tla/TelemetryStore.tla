---------------------------- MODULE TelemetryStore ----------------------------
(***************************************************************************)
(* The telemetry in the backend's control store (backend/internal/control: *)
(* store.go, telemetry_contract.go), and the game that sends it.  Samples  *)
(* are sent without waiting for one another, so one may be delayed, lost,  *)
(* or arrive after a later one; the store keeps them as they arrive.       *)
(*                                                                         *)
(* Of the game, a sample shows to which bay the errors of the sample       *)
(* refer ("none" when no bay is calibrated), whether the car may drive on  *)
(* ("ready"), has parked, or something else ("unsafe": another phase, a    *)
(* collision, a tilt, off the ground, reversing), whether it is within the *)
(* envelope of a start, and whether the driver is in a sound vehicle.      *)
(***************************************************************************)
EXTENDS Integers, Sequences, SequencesExt

CONSTANTS
  Games,             \* the states of the game
  ClockOffsets,      \* of the game's clock to the backend's
  HistoryLimit,      \* telemetryLimit
  TemporalEntries, TemporalDuration,  \* of the temporal history
  MaxTime, MaxSamples, MaxChanges     \* bounds

ASSUME StoreAssumption ==
  /\ \A game \in Games :
       /\ game.bay \in {"none", "a", "b"} /\ game.phase \in {"ready", "parked", "unsafe"}
       /\ game.near \in BOOLEAN /\ game.seated \in BOOLEAN
  /\ ClockOffsets \subseteq Int
  /\ HistoryLimit \in Nat \ {0} /\ TemporalEntries \in Nat \ {0} /\ TemporalDuration \in Nat \ {0}
  /\ MaxTime \in Nat \ {0} /\ MaxSamples \in Nat /\ MaxChanges \in Nat

VARIABLES
  now,
  game,            \* what the game is, and how often that or a sample was out of the ordinary
  sent, inFlight,  \* samples: how many were sent, and which are under way
  history,         \* telemetryHistory; the latest telemetry is its last
  updatedAt,       \* telemetryUpdatedAt
  ego,             \* egoTelemetry: time and validity
  lastTimestamp,   \* the adapter's lastTimestampS
  temporal         \* temporalHistory

gameVars  == <<game, sent, inFlight>>
storeVars == <<history, updatedAt, ego, lastTimestamp, temporal>>

Sample == [time : Int, shows : Games]

StoreTypeOK ==
  /\ now \in 1..MaxTime
  /\ game \in [is : Games, changes : 0..MaxChanges]
  /\ sent \in 0..MaxSamples /\ inFlight \subseteq Sample
  /\ history \in Seq(Sample) /\ Len(history) <= HistoryLimit
  /\ updatedAt \in 0..MaxTime
  /\ ego \in [time : Int, valid : BOOLEAN]
  /\ lastTimestamp \in Nat
  /\ temporal \in Seq([time : Int, valid : BOOLEAN]) /\ Len(temporal) <= TemporalEntries

StoreInit ==
  /\ now = 1
  /\ game \in [is : Games, changes : {0}]
  /\ sent = 0 /\ inFlight = {}
  /\ history = <<>> /\ updatedAt = 0
  /\ ego = [time |-> 0, valid |-> FALSE] /\ lastTimestamp = 0
  /\ temporal = <<>>

-----------------------------------------------------------------------------
TimePasses == now < MaxTime /\ now' = now + 1 /\ UNCHANGED <<gameVars, storeVars>>

(* The client sends a sample of the game as it is by now; it may lack its  *)
(* time (0).  A sample that stays under way is lost.                       *)
Send ==
  /\ sent < MaxSamples /\ sent' = sent + 1
  /\ \E next \in Games, time \in {now + offset : offset \in ClockOffsets} \cup {0} :
       LET changes == game.changes + (IF next = game.is /\ time > 0 THEN 0 ELSE 1)
       IN /\ changes <= MaxChanges /\ game' = [is |-> next, changes |-> changes]
          /\ inFlight' = inFlight \cup {[time |-> time, shows |-> next]}
  /\ UNCHANGED <<now, storeVars>>

(* What a sample adds is kept up to a limit; the temporal history only as  *)
(* far as it reaches back from the newest arrival.                         *)
Newest(entries, limit) == SubSeq(entries, IF Len(entries) > limit THEN Len(entries) - limit + 1 ELSE 1, Len(entries))

Trim(entries) ==
  LET kept == Newest(entries, TemporalEntries)
      recent == {i \in DOMAIN kept : kept[i].time >= Last(kept).time - TemporalDuration}
      first == CHOOSE i \in recent : \A j \in recent : i <= j
  IN IF Last(kept).time <= 0 THEN kept ELSE SubSeq(kept, first, Len(kept))

(* A fault to be caught: the order of the samples is not looked at.        *)
ValidInAnyOrder(sample) == sample.time > 0 /\ sample.shows.seated

(* The adapter's validation of a sample.                                   *)
Valid(sample) ==
  /\ sample.time > 0
  /\ ~(lastTimestamp > 0 /\ sample.time < lastTimestamp)
  /\ sample.shows.seated

UpdateTelemetry(sample) ==
  LET time == IF sample.time = 0 THEN now ELSE sample.time
      entry == [time |-> sample.time, valid |-> Valid(sample)]
  IN /\ history' = Newest(Append(history, [sample EXCEPT !.time = time]), HistoryLimit)
     /\ updatedAt' = now
     /\ ego' = entry
     /\ lastTimestamp' = IF Valid(sample) THEN sample.time ELSE lastTimestamp
     /\ temporal' = Trim(Append(temporal, entry))

Receive ==
  /\ \E sample \in inFlight : UpdateTelemetry(sample) /\ inFlight' = inFlight \ {sample}
  /\ UNCHANGED <<now, game, sent>>

StoreNext == TimePasses \/ Send \/ Receive
=============================================================================
