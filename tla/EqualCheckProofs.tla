-------------------------- MODULE EqualCheckProofs --------------------------
(***************************************************************************)
(* Proof that Equal's wraparound formula, 180 - ||a - b| - 180| < tol, is  *)
(* the circular-distance test for any two values at most one turn apart,  *)
(* and so for every pair of readings and targets within -180 .. 180.      *)
(***************************************************************************)
EXTENDS EqualCheck, TLAPS

\* The values EqSpec ranges over.
EqTypeOK == a \in Angles /\ b \in Angles /\ tol \in TolConfigs

\* The formula of Equal agrees with the circular distance whenever the two
\* values are at most 360 apart: below 180 both are |x - y|, above it both
\* are 360 - |x - y|, and at 360 both are 0.
LEMMA WithinTolCircular ==
  ASSUME NEW x \in Int, NEW y \in Int, NEW t \in Int, Abs(x - y) <= 360
  PROVE  WithinTol(t, x, y) <=> CircDist(x, y) < t
<1>. DEFINE d0 == Abs(x - y)
<1>1. d0 \in 0 .. 360
  BY DEF Abs
<1>2. CASE d0 < 360
  <2>1. d0 % 360 = d0
    BY <1>1, <1>2
  <2>. QED
    BY <1>1, <1>2, <2>1 DEF WithinTol, CircDist, Abs, d0
<1>3. CASE d0 = 360
  <2>1. d0 % 360 = 0
    BY <1>3
  <2>. QED
    BY <1>3, <2>1 DEF WithinTol, CircDist, Abs, d0
<1>. QED
  BY <1>1, <1>2, <1>3

\* Equal is the circular-distance test (EqualIsCircular, run equal) for
\* every reading and target within -180 .. 180 and every tolerance: the
\* completion tests of JointStateCallback accept exactly the readings less
\* than tol away from the goal the shorter way round.
THEOREM EqualIsCircularHolds == EqSpec => []EqualIsCircular
<1>1. EqInit => EqTypeOK
  BY DEF EqInit, EqTypeOK
<1>2. EqTypeOK /\ [EqNext]_eqVars => EqTypeOK'
  BY DEF EqTypeOK, EqNext, eqVars
<1>3. EqTypeOK => EqualIsCircular
  <2>. SUFFICES ASSUME EqTypeOK, NEW j \in Joints
                PROVE  Equal(j, [k \in Joints |-> a], b) <=> CircDist(a, b) < tol[j]
    BY DEF EqualIsCircular
  <2>1. a \in -180 .. 180 /\ b \in -180 .. 180
    BY EqualCheckAssumption DEF EqTypeOK
  <2>2. tol[j] \in Int
    <3>1. PICK x \in Tols : tol = [k \in Joints |-> x]
      BY DEF EqTypeOK, TolConfigs
    <3>. QED
      BY <3>1, EqualCheckAssumption
  <2>3. Abs(a - b) <= 360
    BY <2>1 DEF Abs
  <2>4. Equal(j, [k \in Joints |-> a], b) = WithinTol(tol[j], a, b)
    BY DEF Equal
  <2>. QED
    BY <2>1, <2>2, <2>3, <2>4, WithinTolCircular
<1>. QED
  BY <1>1, <1>2, <1>3, PTL DEF EqSpec
=============================================================================
