----------------------------- MODULE ArmNodelet -----------------------------
(***************************************************************************)
(* The arm behaviour of arm_nodelet.cc as a whole: the callbacks that feed *)
(* events into the state machine of ArmFSM (GoalArbiter: GoalCallback,     *)
(* CancelCallback, PreemptCallback; TelemetryIngestor: JointStateCallback; *)
(* the goal and watchdog timers; the manual SetState service; the dynamic *)
(* reconfiguration of the tolerances) and the                              *)
(* environment they talk to: the caller of the action and the joint        *)
(* driver, whose position follows the last command and which a person may *)
(* also move by hand.  Every callback runs to completion before the next   *)
(* one (the nodelet's single-threaded callback queue), so each is one      *)
(* atomic action.                                                          *)
(***************************************************************************)
EXTENDS ArmFSM

CONSTANTS
  HwPositions,      \* per joint: raw positions the arm may start at or be moved to
  PanRequests,      \* pan angles a caller may request (human units)
  TiltRequests,     \* tilt angles a caller may request
  GripperRequests,  \* gripper openings a caller may request with GRIPPER_SET
  Commands,         \* the goal commands a caller may send
  ManualStates,     \* the states an operator may force through SetState
  Disturb,          \* may the arm be moved by hand?
  TolChoices        \* tolerance vectors the configuration may hold (tol_pan, ...)

AllCommands == {"ARM_STOP", "ARM_DEPLOY", "ARM_STOW", "ARM_PAN", "ARM_TILT",
                "ARM_MOVE", "GRIPPER_CALIBRATE", "GRIPPER_SET",
                "GRIPPER_OPEN", "GRIPPER_CLOSE", "INVALID"}

ASSUME ConstantsAssumption ==
  /\ HwPositions \in [Joints -> SUBSET Int]
  /\ \A j \in Joints : HwPositions[j] # {}
  /\ PanRequests \subseteq Int
  /\ TiltRequests \subseteq Int
  /\ GripperRequests \subseteq Int
  /\ Commands \subseteq AllCommands
  /\ ManualStates \subseteq States
  /\ Disturb \in BOOLEAN
  /\ TolChoices \subseteq [Joints -> Nat]
  /\ TolChoices # {}

\* The driver reports and reaches only positions within the pan and tilt
\* limits of the arm: every position the arm may start at or be moved to by
\* hand converts to an angle within [K_*_MIN, K_*_MAX].
ASSUME HwWithinLimits ==
  /\ \A p \in HwPositions["PAN"] : ToHuman("PAN", p) \in K_PAN_MIN .. K_PAN_MAX
  /\ \A p \in HwPositions["TILT"] : ToHuman("TILT", p) \in K_TILT_MIN .. K_TILT_MAX

VARIABLES
  pos,       \* raw position of each joint of the physical arm
  watchdog,  \* timer_watchdog_ is running (one-shot)
  pending    \* a goal the action server delivers after PreemptCallback, or "NONE"

vars == <<state, val, goal, cmd, goalTimer, srv, pos, watchdog, tol, pending>>

TypeOK ==
  /\ state \in States
  /\ val \in [Joints -> Int]
  /\ goal \in [Joints -> Int]
  /\ cmd \in [Joints -> Int]
  /\ goalTimer \in BOOLEAN
  /\ srv \in {"IDLE", "ACTIVE"}
  /\ pos \in [Joints -> Int]
  /\ watchdog \in BOOLEAN
  /\ tol \in [Joints -> Nat]
  /\ pending \in AllCommands \cup {"NONE"}

\* Raw joint vectors the arm can physically be in: no self-collision.
Poses == {r \in [Joints -> UNION {HwPositions[j] : j \in Joints}] :
            /\ \A j \in Joints : r[j] \in HwPositions[j]
            /\ ~InCollision(r)}

\* The nodelet starts in INITIALIZING with zero-initialised joints_ entries
\* and both timers stopped; the driver holds the arm where it is.
\* Initialize reads the tolerances from the configuration.
Init ==
  /\ state = "INITIALIZING"
  /\ val = [j \in Joints |-> 0]
  /\ goal = [j \in Joints |-> 0]
  /\ pos \in Poses
  /\ cmd = pos
  /\ goalTimer = FALSE
  /\ srv = "IDLE"
  /\ watchdog = FALSE
  /\ tol \in TolChoices
  /\ pending = "NONE"

-----------------------------------------------------------------------------
(* TelemetryIngestor: JointStateCallback.                                  *)

\* The joint each wait state of the callback's switch is waiting on.
Awaited == [PANNING |-> "PAN", STOWING_PANNING |-> "PAN",
            DEPLOYING_PANNING |-> "PAN", TILTING |-> "TILT",
            STOWING_TILTING |-> "TILT", DEPLOYING_TILTING |-> "TILT",
            SETTING |-> "GRIPPER", STOWING_SETTING |-> "GRIPPER"]

Completes == [PAN |-> "PAN_COMPLETE", TILT |-> "TILT_COMPLETE",
              GRIPPER |-> "GRIPPER_COMPLETE"]

\* Mutant of Observed: STOWED misses a manual deploy.
ObservedStowedBlind(s, v) ==
  CASE s = "UNKNOWN" -> IF IsStowed(v) THEN "STOWED" ELSE "DEPLOYED"
    [] s \in {"STOWED", "DEPLOYED"} -> IF s = "DEPLOYED" /\ IsStowed(v) THEN "STOWED" ELSE "NONE"
    [] s = "INITIALIZING" -> "READY"
    [] s = "CALIBRATING" ->
         IF Equal("GRIPPER", v, K_GRIPPER_CAL) THEN "NONE" ELSE "CALIBRATE_COMPLETE"
    [] OTHER ->
         IF Equal(Awaited[s], v, goal[Awaited[s]])
           THEN Completes[Awaited[s]] ELSE "NONE"

\* The event the callback raises in state s after the values became v,
\* or "NONE".
Observed(s, v) ==
  CASE s = "UNKNOWN" -> IF IsStowed(v) THEN "STOWED" ELSE "DEPLOYED"
    [] s = "STOWED" -> IF IsStowed(v) THEN "NONE" ELSE "DEPLOYED"
    [] s = "DEPLOYED" -> IF IsStowed(v) THEN "STOWED" ELSE "NONE"
    [] s = "INITIALIZING" -> "READY"
    [] s = "CALIBRATING" ->
         IF Equal("GRIPPER", v, K_GRIPPER_CAL) THEN "NONE" ELSE "CALIBRATE_COMPLETE"
    [] OTHER ->
         IF Equal(Awaited[s], v, goal[Awaited[s]])
           THEN Completes[Awaited[s]] ELSE "NONE"

\* Mutant of JointStateCallback: timer_goal_ is stopped on every batch in
\* an action state, not only on the completion of the sub-action.
JointStateCallbackEagerStop(S) ==
  LET v == [j \in Joints |-> IF j \in S THEN ToHuman(j, pos[j]) ELSE val[j]]
      e == Observed(state, v)
  IN  /\ pending = "NONE"
      /\ watchdog' = TRUE
      /\ UNCHANGED <<pos, tol, pending>>
      /\ \/ /\ e = "NONE"
            /\ val' = v
            /\ goalTimer' = (goalTimer /\ state \notin ActiveStates)
            /\ UNCHANGED <<state, goal, cmd, srv>>
         \/ /\ e # "NONE"
            /\ Update(e, [Here EXCEPT !.val = v,
                                      !.timer = goalTimer /\ state \notin ActiveStates])

\* A batch carrying the joints in S (unknown names are skipped; a batch with
\* no known joint returns before touching anything, so S is not empty).
\* The values are converted, the watchdog restarted, and the event of the
\* state is raised; a completion stops timer_goal_ first.
JointStateCallback(S) ==
  LET v == [j \in Joints |-> IF j \in S THEN ToHuman(j, pos[j]) ELSE val[j]]
      e == Observed(state, v)
  IN  /\ pending = "NONE"
      /\ watchdog' = TRUE
      /\ UNCHANGED <<pos, tol, pending>>
      /\ \/ /\ e = "NONE"
            /\ val' = v
            /\ UNCHANGED <<state, goal, cmd, goalTimer, srv>>
         \/ /\ e # "NONE"
            /\ Update(e, [Here EXCEPT !.val = v,
                                      !.timer = goalTimer /\ state \notin ActiveStates])

-----------------------------------------------------------------------------
(* GoalArbiter: GoalCallback, CancelCallback and PreemptCallback.          *)
(* A goal sent while none is active goes straight to GoalCallback.  A goal *)
(* sent while one is active is delivered by the action server as          *)
(* PreemptCallback followed by GoalCallback, with nothing in between       *)
(* (pending holds the new goal between the two).                          *)

\* Start the action: the handler's goals, then fsm_.Update(e).
Accept(e, g) == Update(e, [Here EXCEPT !.goal = g, !.srv = "ACTIVE"])

\* Result(response, true) with its return value dropped: the goals snap to
\* the values and the caller gets an aborted result; the state stays.
Reject ==
  /\ Result(TRUE, [Here EXCEPT !.srv = "ACTIVE"])
  /\ state' = state

Resting == {"STOWED", "DEPLOYED"}

\* ARM_STOP: hold every joint where it is, then raise GOAL_CANCEL.
GoalStop ==
  Accept("GOAL_CANCEL", val)

\* ARM_DEPLOY: only from STOWED, with the deploy goals.
GoalDeploy ==
  \/ /\ state = "STOWED"
     /\ Accept("GOAL_DEPLOY", [PAN |-> K_PAN_DEPLOY, TILT |-> K_TILT_DEPLOY,
                               GRIPPER |-> K_GRIPPER_DEPLOY])
  \/ state # "STOWED" /\ Reject                            \* NOT_ALLOWED

\* ARM_STOW: only from DEPLOYED, with the stow goals.
GoalStow ==
  \/ /\ state = "DEPLOYED"
     /\ Accept("GOAL_STOW", [PAN |-> K_PAN_STOW, TILT |-> K_TILT_STOW,
                             GRIPPER |-> K_GRIPPER_STOW])
  \/ state # "DEPLOYED" /\ Reject                          \* NOT_ALLOWED

\* Mutant of MoveValid: the tilt range check is left out.
MoveValidNoTilt(np, nt) ==
  /\ K_PAN_MIN <= np /\ np <= K_PAN_MAX
  /\ ~Collision(np, nt)

\* The checks of ARM_PAN/TILT/MOVE on the proposed pan np and tilt nt.
MoveValid(np, nt) ==
  /\ K_TILT_MIN <= nt /\ nt <= K_TILT_MAX     \* else BAD_TILT_VALUE
  /\ K_PAN_MIN <= np /\ np <= K_PAN_MAX       \* else BAD_PAN_VALUE
  /\ ~Collision(np, nt)                       \* else COLLISION_AVOIDED

\* ARM_PAN, ARM_TILT, ARM_MOVE: from STOWED or DEPLOYED; an axis the command
\* does not name keeps its current goal.
GoalMove(c, p, t) ==
  LET np == IF c \in {"ARM_MOVE", "ARM_PAN"} THEN p ELSE goal["PAN"]
      nt == IF c \in {"ARM_MOVE", "ARM_TILT"} THEN t ELSE goal["TILT"]
  IN  \/ /\ state \in Resting
         /\ MoveValid(np, nt)
         /\ Accept("GOAL_MOVE", [goal EXCEPT !["PAN"] = np, !["TILT"] = nt])
      \/ state \in Resting /\ ~MoveValid(np, nt) /\ Reject
      \/ state \notin Resting /\ Reject                     \* NOT_ALLOWED

\* GRIPPER_CALIBRATE: only from DEPLOYED; writes K_GRIPPER_CAL into the
\* TILT goal, as the code does.
GoalCalibrate ==
  \/ /\ state = "DEPLOYED"
     /\ Accept("GOAL_CALIBRATE", [goal EXCEPT !["TILT"] = K_GRIPPER_CAL])
  \/ state # "DEPLOYED" /\ Reject                          \* NOT_ALLOWED

\* GRIPPER_SET (opening x), GRIPPER_OPEN, GRIPPER_CLOSE: refused while the
\* gripper reads negative (uncalibrated), then only from DEPLOYED.  Only
\* GRIPPER_SET range-checks its target; the other two targets are in range.
GoalGripper(c, x) ==
  LET target == CASE c = "GRIPPER_SET" -> x
                  [] c = "GRIPPER_OPEN" -> K_GRIPPER_OPEN
                  [] c = "GRIPPER_CLOSE" -> K_GRIPPER_CLOSE
      inRange == K_GRIPPER_CLOSE <= target /\ target <= K_GRIPPER_OPEN
  IN  \/ val["GRIPPER"] < 0 /\ Reject                     \* NEED_TO_CALIBRATE
      \/ val["GRIPPER"] >= 0 /\ state # "DEPLOYED" /\ Reject  \* NOT_ALLOWED
      \/ val["GRIPPER"] >= 0 /\ state = "DEPLOYED" /\ ~inRange /\ Reject
      \/ /\ val["GRIPPER"] >= 0 /\ state = "DEPLOYED" /\ inRange
         /\ Accept("GOAL_SET", [goal EXCEPT !["GRIPPER"] = target])

\* GoalCallback for command c (with its arguments): a goal sent while none
\* is active, or the goal the server delivers after PreemptCallback.
GoalCallback(c) ==
  /\ \/ srv = "IDLE" /\ pending = "NONE"
     \/ pending = c
  /\ c \in Commands
  /\ pending' = "NONE"
  /\ UNCHANGED <<pos, watchdog, tol>>
  /\ CASE c = "ARM_STOP" -> GoalStop
       [] c = "ARM_DEPLOY" -> GoalDeploy
       [] c = "ARM_STOW" -> GoalStow
       [] c \in {"ARM_PAN", "ARM_TILT", "ARM_MOVE"} ->
            \E p \in PanRequests, t \in TiltRequests : GoalMove(c, p, t)
       [] c = "GRIPPER_CALIBRATE" -> GoalCalibrate
       [] c \in {"GRIPPER_SET", "GRIPPER_OPEN", "GRIPPER_CLOSE"} ->
            \E x \in GripperRequests : GoalGripper(c, x)
       [] OTHER -> Reject                                  \* INVALID_COMMAND

\* The caller cancels the active goal: GOAL_CANCEL.
CancelCallback ==
  /\ srv = "ACTIVE" /\ pending = "NONE"
  /\ Update("GOAL_CANCEL", Here)
  /\ UNCHANGED <<pos, watchdog, tol, pending>>

\* Mutant of PreemptCallback: the preemption raises nothing.
PreemptIgnored(c) ==
  /\ srv = "ACTIVE" /\ pending = "NONE"
  /\ c \in Commands
  /\ pending' = c
  /\ UNCHANGED <<state, val, goal, cmd, goalTimer, srv, pos, watchdog, tol>>

\* The caller sends goal c while a goal is active: the server first runs
\* PreemptCallback, which raises GOAL_CANCEL, then delivers c.
PreemptCallback(c) ==
  /\ srv = "ACTIVE" /\ pending = "NONE"
  /\ c \in Commands
  /\ pending' = c
  /\ Update("GOAL_CANCEL", Here)
  /\ UNCHANGED <<pos, watchdog, tol>>

\* The server delivers the goal it holds after a preemption.
Deliver == GoalCallback(pending)

-----------------------------------------------------------------------------
(* Timers and the manual override.                                         *)

\* timer_goal_ expires: TIMEOUT.
TimeoutCallback ==
  /\ goalTimer /\ pending = "NONE"
  /\ Update("TIMEOUT", [Here EXCEPT !.timer = FALSE])
  /\ UNCHANGED <<pos, watchdog, tol, pending>>

\* timer_watchdog_ expires (no known joint reported for its period):
\* fsm_.SetState(Result(COMMUNICATION_ERROR)).
WatchdogCallback ==
  /\ watchdog /\ pending = "NONE"
  /\ watchdog' = FALSE
  /\ Result(FALSE, Here)
  /\ state' = Resolved("COMMUNICATION_ERROR", val)
  /\ UNCHANGED <<pos, tol, pending>>

\* SetState service: force the state, nothing else.
SetStateCallback(s) ==
  /\ s \in ManualStates /\ pending = "NONE"
  /\ state' = s
  /\ UNCHANGED <<val, goal, cmd, goalTimer, srv, pos, watchdog, tol, pending>>

\* Dynamic reconfiguration: in a resting or unknown state the tolerances
\* take the newly configured values; in any other state the request is
\* refused.  Nothing is re-evaluated against the new tolerances.
ReconfigureCallback(t) ==
  /\ state \in {"DEPLOYED", "STOWED", "UNKNOWN"} /\ pending = "NONE"
  /\ t \in TolChoices
  /\ tol' = t
  /\ UNCHANGED <<state, val, goal, cmd, goalTimer, srv, pos, watchdog, pending>>

-----------------------------------------------------------------------------
(* Environment: the joint driver and the people around the arm.            *)

\* The driver brings joint j to the last position commanded.
DriverMove(j) ==
  /\ pos[j] # cmd[j] /\ pending = "NONE"
  /\ pos' = [pos EXCEPT ![j] = cmd[j]]
  /\ UNCHANGED <<state, val, goal, cmd, goalTimer, srv, watchdog, tol, pending>>

\* Someone moves joint j by hand to p (never into the arm itself).
ManualMove(j, p) ==
  /\ Disturb /\ pending = "NONE"
  /\ p \in HwPositions[j] \ {pos[j]}
  /\ ~InCollision([pos EXCEPT ![j] = p])
  /\ pos' = [pos EXCEPT ![j] = p]
  /\ UNCHANGED <<state, val, goal, cmd, goalTimer, srv, watchdog, tol, pending>>

\* A batch of joint states from the driver (any non-empty set of joints).
Telemetry == \E S \in SUBSET Joints \ {{}} : JointStateCallback(S)

Next ==
  \/ Telemetry
  \/ \E c \in AllCommands : GoalCallback(c)
  \/ CancelCallback
  \/ \E c \in AllCommands : PreemptCallback(c)
  \/ TimeoutCallback
  \/ WatchdogCallback
  \/ \E s \in States : SetStateCallback(s)
  \/ \E t \in TolChoices : ReconfigureCallback(t)
  \/ \E j \in Joints : DriverMove(j)
  \/ \E j \in Joints : \E p \in HwPositions[j] : ManualMove(j, p)

\* A running one-shot ROS timer fires once its period has passed, and the
\* driver keeps publishing joint states: a reading that would change the
\* nodelet's state is eventually delivered.  Both are strong: the nodelet's
\* callback queue is served in order, so a caller that keeps preempting
\* (which disables them while the new goal is pending) cannot starve a
\* timer event or a message already queued.  The action server delivers a
\* goal right after the preemption it caused.  The driver itself may stall
\* (no fairness on DriverMove), and the callers may do nothing.
Spec ==
  /\ Init /\ [][Next]_vars
  /\ SF_vars(TimeoutCallback)
  /\ SF_vars(Telemetry)
  /\ WF_vars(Deliver)

-----------------------------------------------------------------------------
(* Properties.                                                             *)

\* An action is only ever carried out on behalf of a caller: whenever the
\* machine is in an action state, the action server has a goal awaiting the
\* result Result will send (spec 6: one outcome per accepted command, sent
\* when the action ends; GoalCallback, PreemptCallback, Result, SetState).
NoOrphanAction == state \in ActiveStates => srv = "ACTIVE"

\* The deploy states: the only action states without a TIMEOUT or
\* GOAL_CANCEL row.
DeployStates == {"DEPLOYING_PANNING", "DEPLOYING_TILTING"}

\* Every action that can be cancelled has a caller: in an action state
\* other than a deploy, the action server holds the goal that Result will
\* answer.  A goal that arrives during such an action is handled only
\* after PreemptCallback has ended it (GoalCallback, PreemptCallback,
\* Result).
NoOrphanCancellable == state \in ActiveStates \ DeployStates => srv = "ACTIVE"

\* Every action that can time out is watched: in an action state other
\* than a deploy, timer_goal_ is running.  JointStateCallback stops it on
\* a completion and the next row's Arm restarts it; a row that ends the
\* action leaves the action states (JointStateCallback, Arm, Result).
TimerWatchesAction == state \in ActiveStates \ DeployStates => goalTimer

\* Every goal the server holds is being worked on: a goal awaiting its
\* result implies an action state, from which Result will answer it
\* (spec 6: exactly one outcome per accepted command; ARM_STOP).
NoForgottenGoal == srv = "ACTIVE" => state \in ActiveStates

\* The resting state agrees with the last observed pose: STOWED only when
\* pan and tilt read as stowed, DEPLOYED only when they do not.  Deploy and
\* stow requests are gated on this state (JointStateCallback, Result).
RestingMatchesPose ==
  /\ state = "STOWED" => IsStowed(val)
  /\ state = "DEPLOYED" => ~IsStowed(val)

\* A resting state that no longer agrees with the pose (the arm was moved,
\* or ReconfigureCallback changed the tolerances that IsStowed reads) is
\* corrected: the next telemetry batch raises STOWED or DEPLOYED
\* (JointStateCallback on the current values, ReconfigureCallback).
RestingResync == ~RestingMatchesPose ~> RestingMatchesPose

\* The driver is never commanded outside the pan and tilt limits: every
\* goal written by the handlers (deploy, stow, move, calibrate, the snaps
\* of Result) that Arm sends is within [K_*_MIN, K_*_MAX].
CommandsInBounds ==
  /\ ToHuman("PAN", cmd["PAN"]) \in K_PAN_MIN .. K_PAN_MAX
  /\ ToHuman("TILT", cmd["TILT"]) \in K_TILT_MIN .. K_TILT_MAX

\* The arm is never driven into itself: the physical pose never has tilt
\* above K_TILT_SAFE with pan away from stow (the rule GoalCallback
\* enforces on the target of a move).
NoSelfCollision == ~InCollision(pos)

\* When an action ends (success, failure, cancel, link loss), the driver's
\* target for every joint is the goal the nodelet now holds, so nothing
\* keeps moving (spec 7: every resolution re-issues a hold command).
Holds(c, g) == \A j \in Joints : c[j] = ToDriver(j, g[j])

HeldAfterResolve ==
  [][(state \in ActiveStates /\ state' \notin ActiveStates) => Holds(cmd', goal')]_vars

\* Every action ends, whether or not the arm reaches its goal: the goal
\* timer bounds each sub-action (spec 7, timeout failures).
ActionTerminates == state \in ActiveStates ~> state \notin ActiveStates

\* Every action other than a deploy ends, whether or not the arm reaches
\* its goal: each of their sub-actions has a TIMEOUT row.
NonDeployActionTerminates ==
  state \in ActiveStates \ DeployStates ~> state \notin ActiveStates
=============================================================================
