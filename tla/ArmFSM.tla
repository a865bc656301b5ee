------------------------------- MODULE ArmFSM -------------------------------
(***************************************************************************)
(* ArmStateMachine and ActuationGateway of arm_nodelet.cc: the transition  *)
(* table registered in the ArmNodelet constructor, Arm (one joint command  *)
(* plus a restarted goal timer), Result (snap every goal to its value,     *)
(* reply to the caller when leaving an action state, pick the resting     *)
(* state) and the table lookup of ff_util::FSM::Update.                    *)
(*                                                                         *)
(* A handler calls Update after it has written values, goals or timers of  *)
(* its own; those writes reach Update as the record "pre" (fields val,     *)
(* goal, timer, srv), and Update determines every variable of this module. *)
(***************************************************************************)
EXTENDS ArmJoints

VARIABLES
  state,      \* fsm_ current state
  val,        \* joints_[j].val: last observed value, human units
  goal,       \* joints_[j].goal: current goal, human units
  cmd,        \* last position sent to the driver for each joint, raw units
  goalTimer,  \* timer_goal_ is running (one-shot)
  srv         \* action server: "ACTIVE" while a goal awaits its result

fsmVars == <<state, val, goal, cmd, goalTimer, srv>>

States == {"INITIALIZING", "UNKNOWN", "STOWED", "DEPLOYED", "PANNING",
           "TILTING", "SETTING", "CALIBRATING", "STOWING_SETTING",
           "STOWING_PANNING", "STOWING_TILTING", "DEPLOYING_PANNING",
           "DEPLOYING_TILTING"}

\* The states in which Result replies to the caller (its switch statement).
ActiveStates == States \ {"INITIALIZING", "UNKNOWN", "STOWED", "DEPLOYED"}

Events == {"READY", "DEPLOYED", "STOWED", "GOAL_DEPLOY", "GOAL_STOW",
           "GOAL_MOVE", "GOAL_CALIBRATE", "GOAL_SET", "GOAL_CANCEL",
           "PAN_COMPLETE", "TILT_COMPLETE", "GRIPPER_COMPLETE",
           "CALIBRATE_COMPLETE", "TIMEOUT"}

Fail == {"TIMEOUT", "GOAL_CANCEL"}   \* the TIMEOUT | GOAL_CANCEL masks

\* Rows <<from, event, joint to command, to>> whose handler calls Arm (or
\* nothing, joint "NONE") and returns a fixed state.  Arm cannot fail once
\* Initialize has filled joints_, so the "if (!Arm(..)) return Result(..)"
\* branches are not rows.  GOAL_STOW from DEPLOYED depends on the gripper.
StowRow(v) ==
  IF RequiresClosing(v)
    THEN <<"DEPLOYED", "GOAL_STOW", "GRIPPER", "STOWING_SETTING">>
    ELSE <<"DEPLOYED", "GOAL_STOW", "PAN", "STOWING_PANNING">>

ArmRows(v) ==
  { <<"INITIALIZING", "READY", "NONE", "UNKNOWN">>,
    <<"UNKNOWN", "STOWED", "NONE", "STOWED">>,
    <<"UNKNOWN", "DEPLOYED", "NONE", "DEPLOYED">>,
    <<"STOWED", "DEPLOYED", "NONE", "DEPLOYED">>,
    <<"DEPLOYED", "STOWED", "NONE", "STOWED">>,
    <<"STOWED", "GOAL_DEPLOY", "PAN", "DEPLOYING_PANNING">>,
    <<"DEPLOYING_PANNING", "PAN_COMPLETE", "TILT", "DEPLOYING_TILTING">>,
    <<"STOWING_SETTING", "GRIPPER_COMPLETE", "PAN", "STOWING_PANNING">>,
    <<"STOWING_PANNING", "PAN_COMPLETE", "TILT", "STOWING_TILTING">>,
    <<"STOWED", "GOAL_MOVE", "PAN", "PANNING">>,
    <<"DEPLOYED", "GOAL_MOVE", "PAN", "PANNING">>,
    <<"PANNING", "PAN_COMPLETE", "TILT", "TILTING">>,
    <<"DEPLOYED", "GOAL_SET", "GRIPPER", "SETTING">>,
    <<"DEPLOYED", "GOAL_CALIBRATE", "GRIPPER", "CALIBRATING">> }
  \cup {StowRow(v)}

\* Rows <<from, events, response>> whose handler returns Result(response).
\* DEPLOYING_PANNING and DEPLOYING_TILTING have no TIMEOUT | GOAL_CANCEL row.
ResultRows ==
  { <<"DEPLOYING_TILTING", {"TILT_COMPLETE"}, "SUCCESS">>,
    <<"STOWING_SETTING", Fail, "GRIPPER_FAILED">>,
    <<"STOWING_PANNING", Fail, "PAN_FAILED">>,
    <<"STOWING_TILTING", {"TILT_COMPLETE"}, "SUCCESS">>,
    <<"STOWING_TILTING", Fail, "TILT_FAILED">>,
    <<"PANNING", Fail, "PAN_FAILED">>,
    <<"TILTING", {"TILT_COMPLETE"}, "SUCCESS">>,
    <<"TILTING", Fail, "TILT_FAILED">>,
    <<"SETTING", {"GRIPPER_COMPLETE"}, "SUCCESS">>,
    <<"SETTING", Fail, "GRIPPER_FAILED">>,
    <<"CALIBRATING", {"CALIBRATE_COMPLETE"}, "SUCCESS">>,
    <<"CALIBRATING", Fail, "CALIBRATE_FAILED">> }

\* Mutant of Arm: the goal timer is not restarted with the command.
ArmKeepTimer(j, pre) ==
  /\ cmd' = IF j = "NONE" THEN cmd ELSE [cmd EXCEPT ![j] = ToDriver(j, pre.goal[j])]
  /\ goalTimer' = pre.timer

\* Arm(type): publish (goal - offset) / scale for one joint and restart
\* timer_goal_.  Joint "NONE" is a background row that commands nothing.
Arm(j, pre) ==
  IF j = "NONE"
    THEN cmd' = cmd /\ goalTimer' = pre.timer
    ELSE /\ cmd' = [cmd EXCEPT ![j] = ToDriver(j, pre.goal[j])]
         /\ goalTimer' = TRUE

\* Result(response, send) without its return value: every goal is set to
\* the joint's value (no command is published: the Arm calls are commented
\* out), and a result goes to the caller if send or if the current state
\* is an action state.
Result(send, pre) ==
  /\ val' = pre.val
  /\ goal' = pre.val
  /\ cmd' = cmd
  /\ goalTimer' = pre.timer
  /\ srv' = IF send \/ state \in ActiveStates THEN "IDLE" ELSE pre.srv

\* Mutant of Resolved: Result returns its response code (both are int32_t)
\* instead of the next state.
ResolvedCode(response, v) ==
  IF response = "COMMUNICATION_ERROR" THEN "INITIALIZING" ELSE response

\* The return value of Result: INITIALIZING after a communication error,
\* otherwise STOWED or DEPLOYED according to the observed pose.
Resolved(response, v) ==
  IF response = "COMMUNICATION_ERROR" THEN "INITIALIZING"
  ELSE IF IsStowed(v) THEN "STOWED" ELSE "DEPLOYED"

\* fsm_.Update(event): run the handler of the matching row, or ignore the
\* event when no row matches the current state.
Update(e, pre) ==
  LET arms == {r \in ArmRows(pre.val) : r[1] = state /\ r[2] = e}
      ends == {r \in ResultRows : r[1] = state /\ e \in r[2]}
  IN  \/ \E r \in arms :
           /\ state' = r[4]
           /\ val' = pre.val
           /\ goal' = pre.goal
           /\ srv' = pre.srv
           /\ Arm(r[3], pre)
      \/ \E r \in ends :
           /\ Result(FALSE, pre)
           /\ state' = Resolved(r[3], pre.val)
      \/ /\ arms = {} /\ ends = {}
         /\ state' = state
         /\ val' = pre.val
         /\ goal' = pre.goal
         /\ cmd' = cmd
         /\ goalTimer' = pre.timer
         /\ srv' = pre.srv

\* The values a handler starts from when it writes nothing before Update.
Here == [val |-> val, goal |-> goal, timer |-> goalTimer, srv |-> srv]
=============================================================================
