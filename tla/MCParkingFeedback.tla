-------------------------- MODULE MCParkingFeedback --------------------------
(***************************************************************************)
(* A coarse controller: percents in steps of the slew, a steering profile  *)
(* with a dead centre, speeds 0..3 of which 3 is faster than may be asked  *)
(* for, and both values of an elapsed time that is accepted.               *)
(***************************************************************************)
EXTENDS ParkingFeedback

MCProfile == << [at |-> -100, value |-> -80], [at |-> -10, value |-> 0],
                [at |-> 20, value |-> 0], [at |-> 100, value |-> 100] >>

MCSteeringIntegralMin == -2
MCSpeedIntegralMin == -4

Longitudinal ==
  [desiredWheel: {60}, wheel: {30}, desiredSpeed: {0, 2}, speed: {0, 1, 3},
   stop: {30, 60, 80}, dt: {1, 2}]

Lateral ==
  [desiredWheel: {-100, 0}, wheel: {-100, 30}, desiredSpeed: {2}, speed: {1},
   stop: {30}, dt: {1}]

Valid == {in \in Longitudinal : in.dt = 1 \/ in.stop # 60} \cup Lateral

(* One input for each thing validateInput refuses.                         *)
Invalid ==
  LET good == CHOOSE in \in Valid : TRUE
  IN  { [good EXCEPT !.desiredWheel = 101], [good EXCEPT !.wheel = -101],
        [good EXCEPT !.desiredSpeed = 3], [good EXCEPT !.speed = -1],
        [good EXCEPT !.stop = 101], [good EXCEPT !.dt = 0], [good EXCEPT !.dt = 3] }

MCInputs == Valid \cup Invalid

=============================================================================
