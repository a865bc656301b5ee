----------------------------- MODULE EqualCheck -----------------------------
(***************************************************************************)
(* The angle comparison Equal of arm_nodelet.cc, 180 - ||a - b| - 180| <   *)
(* tol, checked against the textbook circular distance for readings and   *)
(* targets within one turn (the formula wraps once only: two values more   *)
(* than 360 apart are compared wrongly).                                   *)
(* Each step picks a new pair of readings and a tolerance.                 *)
(***************************************************************************)
EXTENDS ArmJoints

CONSTANTS Angles, Tols   \* values a joint may read or be asked for; tolerances

\* Readings and targets within one turn: every target the handlers set is
\* (pan -90 .. 90, tilt -20 .. 180, gripper -100 .. 45 percent), and so is
\* every reading of an arm within its limits; tolerances are non-negative
\* (the configuration's bounds).
ASSUME EqualCheckAssumption ==
  /\ Angles \subseteq -180 .. 180
  /\ Tols \subseteq Nat

VARIABLES a, b   \* a joint's reading and a target; tol comes from ArmJoints

eqVars == <<a, b, tol>>

\* The tolerance configurations: every joint with the same tolerance.
TolConfigs == {[j \in Joints |-> x] : x \in Tols}

EqInit == a \in Angles /\ b \in Angles /\ tol \in TolConfigs

EqNext == a' \in Angles /\ b' \in Angles /\ tol' \in TolConfigs

EqSpec == EqInit /\ [][EqNext]_eqVars

\* The reference: the shorter way round the circle between two angles.
CircDist(x, y) ==
  LET d == Abs(x - y) % 360 IN IF d > 180 THEN 360 - d ELSE d

\* Equal answers "close" exactly when the two readings are less than tol
\* apart the shorter way round, so that a joint reading 179 degrees counts
\* as at -179 (Equal, used by every completion test of JointStateCallback).
EqualIsCircular ==
  \A j \in Joints : Equal(j, [k \in Joints |-> a], b) <=> CircDist(a, b) < tol[j]
=============================================================================
