--------------------------- MODULE ArmBoundsProofs ---------------------------
(***************************************************************************)
(* Proof that the driver is never commanded outside the pan and tilt       *)
(* limits (CommandsInBounds) for every value of the constants, as long as  *)
(* the SetState service never forces an action state and the hardware     *)
(* stays within its limits (HwWithinLimits).                              *)
(*                                                                         *)
(* CommandsInBounds is not inductive: Arm sends the goal of the state the *)
(* row runs in, so the goals must be within limits in every state whose   *)
(* rows command pan or tilt, and Result and ARM_STOP copy the observed    *)
(* values into the goals, so the values and the physical position must be *)
(* within limits too.                                                      *)
(***************************************************************************)
EXTENDS ArmNodeletProofs, TLAPS

\* Pan and tilt of a vector of human values are within their limits.
PTBounds(g) ==
  /\ g["PAN"] \in K_PAN_MIN .. K_PAN_MAX
  /\ g["TILT"] \in K_TILT_MIN .. K_TILT_MAX

\* The human angles of a vector of raw positions.
HumanPose(r) == [j \in Joints |-> ToHuman(j, r[j])]

\* The states whose rows send the pan or tilt goal to the driver.
PanTiltStates == {"STOWING_SETTING", "STOWING_PANNING", "DEPLOYING_PANNING",
                  "PANNING"}

\* The inductive strengthening of CommandsInBounds.
BoundsInv ==
  /\ TypeOK
  /\ PTBounds(HumanPose(cmd))
  /\ PTBounds(HumanPose(pos))
  /\ PTBounds(val)
  /\ state \in PanTiltStates => PTBounds(goal)

\* The part of BoundsInv a step of the machine re-establishes.
BoundsNext ==
  /\ PTBounds(HumanPose(cmd'))
  /\ PTBounds(val')
  /\ state' \in PanTiltStates => PTBounds(goal')

\* Arm sends what JointStateCallback reads back: for pan and tilt, the
\* human value of the driver command of a goal is the goal.
LEMMA RoundTrip ==
  ASSUME NEW j \in {"PAN", "TILT"}, NEW h \in Int
  PROVE  ToHuman(j, ToDriver(j, h)) = h
BY DEF ToHuman, ToDriver, Offset, ScaleNum, ScaleDen, K_PAN_OFFSET,
       K_TILT_OFFSET, K_GRIPPER_CLOSE, K_GRIPPER_OPEN, K_GRIPPER_CAL

\* A row that commands pan or tilt, or that enters a state whose rows do,
\* runs in such a state or is raised by a goal; the gripper goals
\* (GOAL_SET, GOAL_CALIBRATE) only ever command the gripper.
LEMMA ArmRowBounds ==
  ASSUME NEW v, NEW r \in ArmRows(v)
  PROVE  /\ r[3] \in {"PAN", "TILT"} => r[1] \in PanTiltStates \/ r[2] \in GoalEvents
         /\ r[4] \in PanTiltStates => r[1] \in PanTiltStates \/ r[2] \in GoalEvents
         /\ r[2] \in {"GOAL_SET", "GOAL_CALIBRATE"} =>
              r[3] = "GRIPPER" /\ r[4] \notin PanTiltStates
<1>1. r \in ArmRows(v) \ {StowRow(v)} \/ r = StowRow(v)
  OBVIOUS
<1>2. CASE r = StowRow(v)
  BY <1>2 DEF StowRow, PanTiltStates, GoalEvents
<1>3. CASE r \in ArmRows(v) \ {StowRow(v)}
  BY <1>3 DEF ArmRows, PanTiltStates, GoalEvents
<1>. QED
  BY <1>1, <1>2, <1>3

\* fsm_.Update keeps the commands, the values and the goals of the
\* pan/tilt states within limits, when the handler's values are within
\* limits and its goals are within limits, or are the current goals and
\* the event is not a goal, or feed a gripper goal from DEPLOYED.
LEMMA UpdateBounds ==
  ASSUME TypeOK, BoundsInv, NEW e, NEW pre, PreOK(pre), Update(e, pre),
         PTBounds(pre.val),
         \/ PTBounds(pre.goal)
         \/ pre.goal = goal /\ e \notin GoalEvents
         \/ state = "DEPLOYED" /\ e \in {"GOAL_SET", "GOAL_CALIBRATE"}
  PROVE  BoundsNext
<1>. USE DEF BoundsNext
<1>1. CASE \E r \in {r \in ArmRows(pre.val) : r[1] = state /\ r[2] = e} :
             /\ state' = r[4] /\ val' = pre.val
             /\ goal' = pre.goal /\ srv' = pre.srv
             /\ Arm(r[3], pre)
  <2>1. PICK r \in ArmRows(pre.val) : /\ r[1] = state /\ r[2] = e
                                      /\ state' = r[4] /\ val' = pre.val
                                      /\ goal' = pre.goal
                                      /\ Arm(r[3], pre)
    BY <1>1
  <2>2. r[3] \in Joints \cup {"NONE"}
    BY ArmRowFacts
  <2>3. /\ r[3] \in {"PAN", "TILT"} => r[1] \in PanTiltStates \/ r[2] \in GoalEvents
        /\ r[4] \in PanTiltStates => r[1] \in PanTiltStates \/ r[2] \in GoalEvents
        /\ r[2] \in {"GOAL_SET", "GOAL_CALIBRATE"} =>
             r[3] = "GRIPPER" /\ r[4] \notin PanTiltStates
    BY ArmRowBounds
  \* The goals the row works with are within limits whenever it commands
  \* pan or tilt or enters a pan/tilt state.
  <2>4. r[3] \in {"PAN", "TILT"} \/ r[4] \in PanTiltStates => PTBounds(pre.goal)
    BY <2>1, <2>3 DEF BoundsInv
  <2>5. PTBounds(HumanPose(cmd'))
    <3>1. CASE r[3] \in {"PAN", "TILT"}
      <4>1. pre.goal[r[3]] \in Int
        BY <3>1 DEF PreOK, Joints
      <4>2. ToHuman(r[3], ToDriver(r[3], pre.goal[r[3]])) = pre.goal[r[3]]
        BY <3>1, <4>1, RoundTrip
      <4>3. cmd' = [cmd EXCEPT ![r[3]] = ToDriver(r[3], pre.goal[r[3]])]
        BY <2>1, <3>1 DEF Arm
      <4>. QED
        BY <2>4, <3>1, <4>2, <4>3 DEF PTBounds, HumanPose, BoundsInv, TypeOK, Joints
    <3>2. CASE r[3] = "GRIPPER"
      <4>1. cmd' = [cmd EXCEPT !["GRIPPER"] = ToDriver("GRIPPER", pre.goal["GRIPPER"])]
        BY <2>1, <3>2 DEF Arm
      <4>. QED
        BY <4>1 DEF PTBounds, HumanPose, BoundsInv, TypeOK, Joints
    <3>3. CASE r[3] = "NONE"
      BY <2>1, <3>3 DEF Arm, BoundsInv
    <3>. QED
      BY <2>2, <3>1, <3>2, <3>3 DEF Joints
  <2>. QED
    BY <2>1, <2>4, <2>5
<1>2. CASE \E r \in {r \in ResultRows : r[1] = state /\ e \in r[2]} :
             Result(FALSE, pre) /\ state' = Resolved(r[3], pre.val)
  <2>1. PICK r \in ResultRows : Result(FALSE, pre) /\ state' = Resolved(r[3], pre.val)
    BY <1>2
  <2>2. state' \notin PanTiltStates
    BY <2>1, ResolvedFacts DEF ResolvedStates, PanTiltStates
  <2>. QED
    BY <2>1, <2>2 DEF Result, BoundsInv
<1>3. CASE /\ state' = state /\ val' = pre.val /\ goal' = pre.goal
           /\ cmd' = cmd
  BY <1>3 DEF BoundsInv, PanTiltStates
<1>. QED
  BY <1>1, <1>2, <1>3 DEF Update
\* A goal handler that starts an action keeps the bounds when its goals are
\* within limits or it starts a gripper action from DEPLOYED.
LEMMA AcceptBounds ==
  ASSUME TypeOK, BoundsInv, NEW e, NEW g \in [Joints -> Int], Accept(e, g),
         \/ PTBounds(g)
         \/ state = "DEPLOYED" /\ e \in {"GOAL_SET", "GOAL_CALIBRATE"}
  PROVE  BoundsNext
<1>. DEFINE pre == [Here EXCEPT !.goal = g, !.srv = "ACTIVE"]
<1>1. PreOK(pre)
  BY DEF PreOK, Here, TypeOK
<1>2. pre.val = val /\ pre.goal = g
  BY DEF Here
<1>. QED
  BY <1>1, <1>2, UpdateBounds DEF Accept, BoundsInv

\* Refusing a goal keeps the bounds: the goals snap to the values.
LEMMA RejectBounds ==
  ASSUME BoundsInv, Reject
  PROVE  BoundsNext
BY DEF Reject, Result, Here, BoundsInv, BoundsNext

\* Every goal handler keeps the bounds: deploy and stow goals are within
\* limits, moves are range-checked (MoveValid), ARM_STOP holds the values,
\* and the gripper goals start gripper rows only.
LEMMA GoalBounds ==
  ASSUME TypeOK, BoundsInv, NEW c, GoalCallback(c)
  PROVE  BoundsNext
<1>1. CASE GoalStop
  BY <1>1, AcceptBounds DEF GoalStop, BoundsInv, TypeOK
<1>2. CASE GoalDeploy
  <2>1. PTBounds([PAN |-> K_PAN_DEPLOY, TILT |-> K_TILT_DEPLOY,
                  GRIPPER |-> K_GRIPPER_DEPLOY])
    BY DEF PTBounds, K_PAN_DEPLOY, K_TILT_DEPLOY, K_PAN_MIN, K_PAN_MAX,
           K_TILT_MIN, K_TILT_MAX
  <2>2. [PAN |-> K_PAN_DEPLOY, TILT |-> K_TILT_DEPLOY,
         GRIPPER |-> K_GRIPPER_DEPLOY] \in [Joints -> Int]
    BY DEF Joints, K_PAN_DEPLOY, K_TILT_DEPLOY, K_GRIPPER_DEPLOY
  <2>. QED
    BY <1>2, <2>1, <2>2, AcceptBounds, RejectBounds DEF GoalDeploy
<1>3. CASE GoalStow
  <2>1. PTBounds([PAN |-> K_PAN_STOW, TILT |-> K_TILT_STOW,
                  GRIPPER |-> K_GRIPPER_STOW])
    BY DEF PTBounds, K_PAN_STOW, K_TILT_STOW, K_PAN_MIN, K_PAN_MAX,
           K_TILT_MIN, K_TILT_MAX
  <2>2. [PAN |-> K_PAN_STOW, TILT |-> K_TILT_STOW,
         GRIPPER |-> K_GRIPPER_STOW] \in [Joints -> Int]
    BY DEF Joints, K_PAN_STOW, K_TILT_STOW, K_GRIPPER_STOW
  <2>. QED
    BY <1>3, <2>1, <2>2, AcceptBounds, RejectBounds DEF GoalStow
<1>4. CASE GoalCalibrate
  <2>1. [goal EXCEPT !["TILT"] = K_GRIPPER_CAL] \in [Joints -> Int]
    <3>1. K_GRIPPER_CAL \in Int
      BY DEF K_GRIPPER_CAL
    <3>. QED
      BY <3>1 DEF TypeOK
  <2>. QED
    BY <1>4, <2>1, AcceptBounds, RejectBounds DEF GoalCalibrate
<1>5. CASE Reject
  BY <1>5, RejectBounds
<1>6. ASSUME NEW p \in PanRequests, NEW t \in TiltRequests, GoalMove(c, p, t)
      PROVE  BoundsNext
  <2>. DEFINE np == IF c \in {"ARM_MOVE", "ARM_PAN"} THEN p ELSE goal["PAN"]
              nt == IF c \in {"ARM_MOVE", "ARM_TILT"} THEN t ELSE goal["TILT"]
              g == [goal EXCEPT !["PAN"] = np, !["TILT"] = nt]
  <2>1. np \in Int /\ nt \in Int
    BY ConstantsAssumption DEF TypeOK, Joints
  <2>2. g \in [Joints -> Int]
    BY <2>1 DEF TypeOK, Joints
  <2>3. MoveValid(np, nt) => PTBounds(g)
    BY <2>1 DEF MoveValid, PTBounds, TypeOK, Joints
  <2>. QED
    BY <1>6, <2>2, <2>3, AcceptBounds, RejectBounds DEF GoalMove
<1>7. ASSUME NEW x \in GripperRequests,
             c \in {"GRIPPER_SET", "GRIPPER_OPEN", "GRIPPER_CLOSE"},
             GoalGripper(c, x)
      PROVE  BoundsNext
  <2>. DEFINE target == CASE c = "GRIPPER_SET" -> x
                          [] c = "GRIPPER_OPEN" -> K_GRIPPER_OPEN
                          [] c = "GRIPPER_CLOSE" -> K_GRIPPER_CLOSE
  <2>1. CASE Reject
    BY <2>1, RejectBounds
  <2>2. CASE /\ state = "DEPLOYED" /\ K_GRIPPER_CLOSE <= target
             /\ target <= K_GRIPPER_OPEN
             /\ Accept("GOAL_SET", [goal EXCEPT !["GRIPPER"] = target])
    <3>1. target \in Int
      <4>1. CASE c = "GRIPPER_SET"
        BY <4>1, ConstantsAssumption
      <4>2. CASE c = "GRIPPER_OPEN"
        BY <4>2 DEF K_GRIPPER_OPEN
      <4>3. CASE c = "GRIPPER_CLOSE"
        BY <4>3 DEF K_GRIPPER_CLOSE
      <4>. QED
        BY <1>7, <4>1, <4>2, <4>3
    <3>2. [goal EXCEPT !["GRIPPER"] = target] \in [Joints -> Int]
      BY <3>1 DEF TypeOK
    <3>. QED
      BY <2>2, <3>2, AcceptBounds
  <2>. QED
    BY <1>7, <2>1, <2>2 DEF GoalGripper
<1>. QED
  BY <1>1, <1>2, <1>3, <1>4, <1>5, <1>6, <1>7, GoalDispatch
\* The driver is never commanded outside the pan and tilt limits
\* (CommandsInBounds, run core): the commands Arm sends are goals that the
\* handlers range-checked or that Result and ARM_STOP copied from
\* telemetry of a position within limits.  It holds as long as SetState
\* never forces an action state (run calibtilt shows what happens then)
\* and the hardware stays within its limits (HwWithinLimits).
THEOREM CommandsInBoundsHolds ==
  ASSUME ManualStates \cap ActiveStates = {}
  PROVE  Spec => []CommandsInBounds
<1>. USE ConstantsAssumption, HwWithinLimits
<1>1. Init => BoundsInv
  <2>. SUFFICES ASSUME Init PROVE BoundsInv
    OBVIOUS
  <2>1. TypeOK
    BY InitTyped
  <2>2. PTBounds(HumanPose(pos))
    <3>1. pos \in Poses
      BY DEF Init
    <3>2. pos["PAN"] \in HwPositions["PAN"] /\ pos["TILT"] \in HwPositions["TILT"]
      BY <3>1 DEF Poses, Joints
    <3>. QED
      BY <3>2 DEF PTBounds, HumanPose, Joints
  <2>3. PTBounds(val) /\ state \notin PanTiltStates
    BY DEF Init, PTBounds, Joints, PanTiltStates, K_PAN_MIN, K_PAN_MAX,
           K_TILT_MIN, K_TILT_MAX
  <2>. QED
    BY <2>1, <2>2, <2>3 DEF Init, BoundsInv
<1>2. TypeOK /\ BoundsInv /\ [Next]_vars => BoundsInv'
  <2>. SUFFICES ASSUME TypeOK, BoundsInv, [Next]_vars PROVE BoundsInv'
    OBVIOUS
  <2>0. TypeOK'
    BY NextTyped
  <2>1. CASE Telemetry
    <3>1. PICK S \in SUBSET Joints \ {{}} : JointStateCallback(S)
      BY <2>1 DEF Telemetry
    <3>. DEFINE v == [j \in Joints |-> IF j \in S THEN ToHuman(j, pos[j]) ELSE val[j]]
                e == Observed(state, v)
                pre == [Here EXCEPT !.val = v,
                                    !.timer = goalTimer /\ state \notin ActiveStates]
    <3>2. PTBounds(v)
      BY DEF PTBounds, HumanPose, BoundsInv, Joints
    <3>3. pos' = pos
      BY <3>1 DEF JointStateCallback
    <3>4. CASE e = "NONE" /\ val' = v /\ UNCHANGED <<state, goal, cmd, goalTimer, srv>>
      BY <3>2, <3>3, <3>4, <2>0 DEF BoundsInv
    <3>5. CASE Update(e, pre)
      <4>1. PreOK(pre)
        BY ToHumanInt DEF PreOK, Here, TypeOK
      <4>2. pre.val = v /\ pre.goal = goal
        BY DEF Here
      <4>3. e \notin GoalEvents
        BY ObservedNeverGoal DEF TypeOK
      <4>. QED
        BY <2>0, <3>2, <3>3, <3>5, <4>1, <4>2, <4>3, UpdateBounds
           DEF BoundsNext, BoundsInv
    <3>. QED
      BY <3>1, <3>4, <3>5 DEF JointStateCallback
  <2>2. ASSUME NEW c \in AllCommands, GoalCallback(c) PROVE BoundsInv'
    BY <2>0, <2>2, GoalBounds, GoalDispatch DEF BoundsNext, BoundsInv
  <2>3. CASE CancelCallback
    <3>1. PreOK(Here) /\ Here.val = val /\ Here.goal = goal
      BY DEF PreOK, Here, TypeOK
    <3>. QED
      BY <2>0, <2>3, <3>1, UpdateBounds DEF CancelCallback, GoalEvents,
         BoundsNext, BoundsInv
  <2>4. CASE TimeoutCallback
    <3>1. LET pre == [Here EXCEPT !.timer = FALSE]
          IN  PreOK(pre) /\ pre.val = val /\ pre.goal = goal
      BY DEF PreOK, Here, TypeOK
    <3>. QED
      BY <2>0, <2>4, <3>1, UpdateBounds DEF TimeoutCallback, GoalEvents,
         BoundsNext, BoundsInv
  <2>5. CASE WatchdogCallback
    BY <2>0, <2>5 DEF WatchdogCallback, Result, Here, Resolved, BoundsInv,
       PanTiltStates
  <2>6. ASSUME NEW s \in States, SetStateCallback(s) PROVE BoundsInv'
    BY <2>0, <2>6 DEF SetStateCallback, BoundsInv, PanTiltStates, ActiveStates,
       States
  <2>7. ASSUME NEW j \in Joints, DriverMove(j) PROVE BoundsInv'
    BY <2>0, <2>7 DEF DriverMove, BoundsInv, PTBounds, HumanPose, TypeOK, Joints
  <2>8. ASSUME NEW j \in Joints, NEW p \in HwPositions[j], ManualMove(j, p)
        PROVE BoundsInv'
    BY <2>0, <2>8 DEF ManualMove, BoundsInv, PTBounds, HumanPose, TypeOK, Joints
  <2>9. CASE UNCHANGED vars
    BY <2>0, <2>9 DEF vars, BoundsInv
  <2>10. ASSUME NEW t \in TolChoices, ReconfigureCallback(t) PROVE BoundsInv'
    BY <2>0, <2>10 DEF ReconfigureCallback, BoundsInv
  <2>11. ASSUME NEW c \in AllCommands, PreemptCallback(c) PROVE BoundsInv'
    <3>1. PreOK(Here) /\ Here.val = val /\ Here.goal = goal
      BY DEF PreOK, Here, TypeOK
    <3>. QED
      BY <2>0, <2>11, <3>1, UpdateBounds DEF PreemptCallback, GoalEvents,
         BoundsNext, BoundsInv
  <2>. QED
    BY <2>1, <2>2, <2>3, <2>4, <2>5, <2>6, <2>7, <2>8, <2>9, <2>10, <2>11
    DEF Next
<1>3. BoundsInv => CommandsInBounds
  BY DEF BoundsInv, CommandsInBounds, PTBounds, HumanPose, Joints
<1>. QED
  BY <1>1, <1>2, <1>3, TypeCorrect, PTL DEF Spec
=============================================================================
