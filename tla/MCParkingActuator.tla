-------------------------- MODULE MCParkingActuator --------------------------
(* Model values for checking ParkingActuator with TLC.                     *)
EXTENDS ActuatorRefinement

(* Full throttle with the wheel turned, a service brake above the model    *)
(* brake threshold together with a throttle inside the conflict deadband,  *)
(* a handbrake, and nothing.                                               *)
Drive  == [Neutral EXCEPT !.steer = 50, !.throttle = 80]
Brake  == [Neutral EXCEPT !.throttle = 4, !.brake = 90]
Hold   == Brakes(0, TRUE)

MCRequests ==
  {[enabled |-> TRUE,  owner |-> Parking, ctl |-> Neutral],
   [enabled |-> TRUE,  owner |-> Unowned, ctl |-> Drive],
   [enabled |-> TRUE,  owner |-> Unowned, ctl |-> Brake],
   [enabled |-> FALSE, owner |-> Unowned, ctl |-> Hold]}

MCOutputs ==
  {[steer |-> 30, effort |-> 40, hold |-> FALSE],
   [steer |-> 0, effort |-> -30, hold |-> FALSE],
   [steer |-> 0, effort |-> 0, hold |-> TRUE]}

(* In time and standing, in time on arrival only and moving, or late and   *)
(* too fast.                                                               *)
MCSamples ==
  {[lag |-> 0, speed |-> 0, valid |-> TRUE, matches |-> TRUE],
   [lag |-> 1, speed |-> 5, valid |-> TRUE, matches |-> TRUE],
   [lag |-> 2, speed |-> 9, valid |-> TRUE, matches |-> TRUE]}

MCClockSteps == {-1}
MCObservationAges == {-1, 0, 1}

(* The sets of the run with a direct command only.                         *)
FewRequests ==
  {[enabled |-> TRUE,  owner |-> Parking, ctl |-> Neutral],
   [enabled |-> TRUE,  owner |-> Unowned, ctl |-> Drive]}

FewSamples == {[lag |-> 0, speed |-> 5, valid |-> TRUE, matches |-> TRUE]}
=============================================================================
