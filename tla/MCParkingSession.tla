--------------------------- MODULE MCParkingSession ---------------------------
(* Instances of ParkingSession for TLC.                                    *)
EXTENDS ParkingSession

(* Another client takes part in the first session only, and of the second  *)
(* the frames never end.                                                   *)
MCSessionBound ==
  starts' > 1 => foreign' = 0 /\ pc'[2]["frames"] \in {"off", "run"}
=============================================================================
