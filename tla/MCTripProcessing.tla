--------------------------- MODULE MCTripProcessing ---------------------------
(* Instances of TripProcessing for TLC: a frame and a row of telemetry     *)
(* every 4, over 7 frames.  The plain recording meets every order of the   *)
(* steps, failure and crash; a recording with something unusual is the     *)
(* first trip's, and is processed by the backend alone, with no failure.   *)
EXTENDS TripProcessing

MCTelemetryOffsets == <<-2, 0>>
MCFutureOffsets == <<1>>

Frames == [i \in 1..7 |-> [pts |-> 4 * i, timed |-> TRUE, flash |-> i = 1]]

Row(time) ==
  [time |-> {time}, stopped |-> FALSE, speed |-> {120}, yaw |-> TRUE, yawRate |-> TRUE, route |-> TRUE]

(* Row i has the time of frame i, since the flash.                         *)
Rows == [i \in 1..7 |-> Row(100 + 4 * (i - 1))]

Plain == [video |-> Frames, rows |-> Rows, syncTime |-> 100]

(* Rows 2 to 5 are early or late, in every way: by the digits of n.        *)
Jittered ==
  [n \in 1..256 |->
     [Plain EXCEPT !.rows = [i \in 1..7 |->
        IF i \in 2..5 THEN Row(100 + 4 * (i - 1) + ((n \div 4^(i - 2)) % 4) - 1) ELSE Rows[i]]]]

(* The car stands still at some rows.                                      *)
Stopped ==
  LET at == <<3..5, 4..6, {3, 5}, {3, 4, 6}, 3..7, 2..4>>
  IN [n \in DOMAIN at |->
        [Plain EXCEPT !.rows = [i \in 1..7 |-> [Rows[i] EXCEPT !.stopped = i \in at[n]]]]]

Film(i, frame) == [Plain EXCEPT !.video = [j \in 1..7 |-> IF j = i THEN frame ELSE Frames[j]]]
Track(i, row) == [Plain EXCEPT !.rows = [j \in 1..7 |-> IF j = i THEN row ELSE Rows[j]]]

Unusual ==
  <<Film(1, [Frames[1] EXCEPT !.flash = FALSE]),       \* no flash: nothing to align to
    Film(3, [Frames[3] EXCEPT !.flash = TRUE]),
    Film(2, [Frames[2] EXCEPT !.timed = FALSE]),       \* a frame without a timestamp
    [Plain EXCEPT !.video = [i \in 1..7 |-> [Frames[i] EXCEPT !.timed = FALSE]]],
    [Plain EXCEPT !.rows = <<>>],
    Track(4, [Rows[4] EXCEPT !.time = {}]),
    Track(4, [Rows[4] EXCEPT !.speed = {}]),
    Track(5, [Rows[5] EXCEPT !.speed = {600}]),
    Track(4, [Rows[4] EXCEPT !.yaw = FALSE]),
    [Plain EXCEPT !.rows = [i \in 1..7 |-> [Rows[i] EXCEPT !.yawRate = FALSE, !.yaw = i # 5]]],
    [Plain EXCEPT !.rows = [i \in 1..7 |-> [Rows[i] EXCEPT !.route = i \in {1, 2}]]],
    [Plain EXCEPT !.rows = Reverse(Rows)]>>

MCRecorded == <<Plain>> \o Jittered \o Stopped \o Unusual

All(first) == [t \in Trips |-> IF t = 1 THEN first ELSE 1]

AtMost(number, batches, failed, died) ==
  [workers |-> CHOOSE S \in SUBSET Workers : Cardinality(S) = number,
   batches |-> batches, faults |-> failed, crashes |-> died]

(* The backend with two trips; the backend with one and process-runs with  *)
(* both; process-runs alone.                                               *)
MCTripInit ==
  \/ \E first \in Recordings : StartWith(All(first), {1}, <<>>, AtMost(0, 0, 0, 0))
  \/ StartWith(All(1), Trips, <<>>, AtMost(0, 0, MaxFaults, MaxCrashes))
  \/ StartWith(All(1), {1}, <<2>>, AtMost(1, 1, 1, MaxCrashes))
  \/ StartWith(All(1), {}, <<1, 2>>, AtMost(2, MaxBatches, 1, MaxCrashes))

MCTripSpec == MCTripInit /\ [][TripNext]_tripVars /\ TripFairness
=============================================================================
