----------------------------- MODULE MCTripCapture -----------------------------
(* Instances of TripCapture for TLC.                                       *)
EXTENDS TripCapture

(* A run of two attempts and one of a single attempt.                      *)
TwoThenOne == <<2, 1>>

AskedToQuit(s) == \E c \in Stoppers : call[c] # "idle" /\ target[c] = s

(* A restart or a file that cannot be written, once and in the first run,  *)
(* and one start that its abort overtakes.  The second run is left to      *)
(* itself, and its ffmpeg records until it is asked to quit.               *)
OneMishap ==
  /\ faults' + restarts' <= 1 /\ Cardinality(overtaken') <= 1
  /\ faults' + restarts' > faults + restarts => runner.trip.run < 2
  /\ runner'.stopRequested => runner'.trip.run < 2
  /\ \A s \in Captures \ {1} :
       process[s] = "running" /\ process'[s] = "exited" => AskedToQuit(s)
=============================================================================
