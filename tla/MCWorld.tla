------------------------------ MODULE MCWorld ------------------------------
(***************************************************************************)
(* Instances of World for TLC.  The widths are scaled down together: a      *)
(* second has 3 microseconds, int64 ends at 8, so that the clock overflows  *)
(* after 4 ticks, the velocity limit is 3, the greatest the constructor     *)
(* allows, and a tick of 2 microseconds leaves residuals of either sign.    *)
(***************************************************************************)
EXTENDS CanonicalState, WorldSchedule

V(x, y) == [a \in Axis |-> IF a = "x" THEN x ELSE y]

MCPositions == {V(-1, 0), V(0, 3)}
MCVelocities == {V(2, 0), V(-3, 1), V(5, 0)}
=============================================================================
