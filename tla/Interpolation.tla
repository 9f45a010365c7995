---------------------------- MODULE Interpolation ----------------------------
(***************************************************************************)
(* Piecewise linear interpolation between points [at, value] with strictly *)
(* increasing "at", clamped to the first and the last point: the shape     *)
(* that the steering profile (backend/internal/parkingcontrol/profile.go)  *)
(* and the plan sampler (plan.go) share.  Values are integers, and a       *)
(* quotient is rounded down.                                               *)
(***************************************************************************)
EXTENDS Integers, Sequences

Increasing(points) ==
  \A i \in 1..Len(points) - 1 : points[i].at < points[i + 1].at

(* The segment whose right end is the first one at or beyond x.            *)
Segment(points, x) ==
  CHOOSE i \in 1..Len(points) - 1 :
    /\ x <= points[i + 1].at
    /\ \A j \in 1..i - 1 : points[j + 1].at < x

Between(left, right, x) ==
  left.value + ((x - left.at) * (right.value - left.value)) \div (right.at - left.at)

(* A fault to be caught: the line of the first segment is used everywhere. *)
InterpolateFirstSegment(points, x) ==
  IF x <= points[1].at THEN points[1].value
  ELSE IF x >= points[Len(points)].at THEN points[Len(points)].value
  ELSE Between(points[1], points[2], x)

Interpolate(points, x) ==
  IF x <= points[1].at THEN points[1].value
  ELSE IF x >= points[Len(points)].at THEN points[Len(points)].value
  ELSE LET i == Segment(points, x)
       IN  Between(points[i], points[i + 1], x)
=============================================================================
