---------------------------- MODULE MC_EqualCheck ----------------------------
EXTENDS EqualCheck

\* Every 15 degrees over one turn, -180 .. 180: the pan and gripper
\* readings and every target the handlers set lie in it.
MC_Angles == {-180 + 15 * k : k \in 0 .. 24}
MC_Tols == {1, 10, 20}
=============================================================================
