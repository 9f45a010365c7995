----------------------------- MODULE SetpointPlan -----------------------------
(***************************************************************************)
(* Setpoint plans of the parking model                                     *)
(* (backend/internal/parkingcontrol/plan.go).  A point has its time after  *)
(* the observation, dt, and three setpoints.  The setpoints are integers,  *)
(* in units of 1/Unit of what they are in the code, and those between two  *)
(* points are rounded down.                                                *)
(***************************************************************************)
EXTENDS Interpolation

CONSTANTS
  Unit, MaxSpeed  \* ParkingSetpointMaxSpeedMPS

ASSUME PlanAssumption == Unit \in Nat \ {0} /\ MaxSpeed \in Nat

Setpoint == [dt : Int, steer : Int, speed : Int, stop : Int]

WithinBounds(point) ==
  /\ -Unit <= point.steer /\ point.steer <= Unit
  /\ 0 <= point.speed /\ point.speed <= MaxSpeed
  /\ 0 <= point.stop /\ point.stop <= Unit

SteerMap(points) == [i \in 1..Len(points) |-> [at |-> points[i].dt, value |-> points[i].steer]]
SpeedMap(points) == [i \in 1..Len(points) |-> [at |-> points[i].dt, value |-> points[i].speed]]
StopMap(points)  == [i \in 1..Len(points) |-> [at |-> points[i].dt, value |-> points[i].stop]]

(* The contract and the direction are the caller's.                        *)
ValidatePlan(sampledAt, receivedAt, points) ==
  /\ sampledAt > 0 /\ receivedAt > 0 /\ receivedAt >= sampledAt
  /\ points # <<>> /\ points[1].dt > 0
  /\ Increasing(SteerMap(points))
  /\ \A i \in 1..Len(points) : WithinBounds(points[i])

SampleByAge(points, age) ==
  [dt |-> age, steer |-> Interpolate(SteerMap(points), age),
   speed |-> Interpolate(SpeedMap(points), age), stop |-> Interpolate(StopMap(points), age)]
=============================================================================
