----------------------------- MODULE ArmJoints -----------------------------
(***************************************************************************)
(* JointRegistry of the arm behaviour (arm_nodelet.cc): the three joints,  *)
(* the compiled-in constants, the affine conversion between driver units   *)
(* and human units (degrees, percent open), the angular-wraparound         *)
(* equality Equal and the predicates built on it (IsStowed,                *)
(* RequiresClosing) and the self-collision rule of the goal handler.       *)
(*                                                                         *)
(* Numbers are integers.  The code's pan/tilt scale is K_RADS_TO_DEGS, an  *)
(* irrational factor; the model takes the driver unit of pan and tilt to   *)
(* be the degree (scale 1) and keeps the offsets, so tilt still converts   *)
(* with its +90 offset.  The gripper keeps its exact scale 25/100.         *)
(***************************************************************************)
EXTENDS Integers

VARIABLE tol   \* joints_[j].tol: per-joint tolerance in human units (tol_pan, ...)

Joints == {"PAN", "TILT", "GRIPPER"}

\* Compiled-in constants of ArmNodelet (arm_nodelet.cc, "Constant vales").
K_PAN_OFFSET     == 0
K_PAN_MIN        == -90
K_PAN_MAX        == 90
K_PAN_STOW       == 0
K_PAN_DEPLOY     == 0
K_TILT_OFFSET    == 90
K_TILT_MIN       == -20
K_TILT_MAX       == 180
K_TILT_STOW      == 180
K_TILT_DEPLOY    == 0
K_TILT_SAFE      == 90
K_GRIPPER_STOW   == 20
K_GRIPPER_DEPLOY == 20
K_GRIPPER_OPEN   == 45
K_GRIPPER_CLOSE  == 20
K_GRIPPER_CAL    == -100

\* HUMAN = SCALE * DRIVER + OFFSET, SCALE = ScaleNum / ScaleDen (Initialize).
Offset   == [PAN |-> K_PAN_OFFSET, TILT |-> K_TILT_OFFSET,
             GRIPPER |-> K_GRIPPER_CLOSE]
ScaleNum == [PAN |-> 1, TILT |-> 1, GRIPPER |-> K_GRIPPER_OPEN - K_GRIPPER_CLOSE]
ScaleDen == [PAN |-> 1, TILT |-> 1, GRIPPER |-> 100]

Abs(x) == IF x < 0 THEN -x ELSE x

\* Telemetry conversion (JointStateCallback): affine, except that the raw
\* gripper reading K_GRIPPER_CAL is kept as the "uncalibrated" sentinel.
ToHuman(j, raw) ==
  IF j = "GRIPPER" /\ raw = K_GRIPPER_CAL
    THEN K_GRIPPER_CAL
    ELSE (raw * ScaleNum[j]) \div ScaleDen[j] + Offset[j]

\* Command conversion (Arm): (goal - offset) / scale.
ToDriver(j, h) == ((h - Offset[j]) * ScaleDen[j]) \div ScaleNum[j]

\* Mutant of WithinTol: the plain difference, without the wraparound.
WithinTolNoWrap(tl, a, b) == Abs(a - b) < tl

\* The wraparound comparison of Equal: 180 - | |a - b| - 180 | < tol.
WithinTol(tl, a, b) == 180 - Abs(Abs(a - b) - 180) < tl

\* Equal(t, v): is the observed value of joint j (in vals) close to target?
Equal(j, vals, target) == WithinTol(tol[j], vals[j], target)

\* IsStowed: pan and tilt both at their stow angles.
IsStowed(vals) ==
  /\ Equal("PAN", vals, K_PAN_STOW)
  /\ Equal("TILT", vals, K_TILT_STOW)

\* RequiresClosing: the gripper is calibrated and not already at stow.
RequiresClosing(vals) ==
  /\ ~Equal("GRIPPER", vals, K_GRIPPER_CAL)
  /\ ~Equal("GRIPPER", vals, K_GRIPPER_STOW)

\* Self-collision rule of GoalCallback: tilt above the safe angle while pan
\* is more than 0.1 degree away from the stow pan (10 * |d| > 1 in tenths).
Collision(p, t) == t > K_TILT_SAFE /\ 10 * Abs(p - K_PAN_STOW) > 1

\* Does a vector of raw driver positions put the arm in that configuration?
InCollision(raw) == Collision(ToHuman("PAN", raw["PAN"]), ToHuman("TILT", raw["TILT"]))
=============================================================================
