-------------------------- MODULE ArmNodeletProofs --------------------------
(***************************************************************************)
(* Proofs about ArmNodelet for every value of the constants: the type      *)
(* invariant, and that an action the caller can cancel or time out (every *)
(* action state but the two deploy states) always has a goal awaiting its *)
(* result (NoOrphanCancellable), preemptions included, as long as the     *)
(* SetState service never forces such a state.                            *)
(***************************************************************************)
EXTENDS ArmNodelet, TLAPS

\* The events only a goal handler raises, always with the goal accepted.
GoalEvents == {"GOAL_DEPLOY", "GOAL_STOW", "GOAL_MOVE", "GOAL_SET",
               "GOAL_CALIBRATE"}

\* The resting states Resolved returns.
ResolvedStates == {"INITIALIZING", "STOWED", "DEPLOYED"}

\* A handler's writes before fsm_.Update are well typed.
PreOK(pre) ==
  /\ pre.val \in [Joints -> Int]
  /\ pre.goal \in [Joints -> Int]
  /\ pre.timer \in BOOLEAN
  /\ pre.srv \in {"IDLE", "ACTIVE"}

\* The driver command Arm computes from an integer goal is an integer.
LEMMA ToDriverInt ==
  ASSUME NEW j \in Joints, NEW h \in Int
  PROVE  ToDriver(j, h) \in Int
BY DEF ToDriver, Offset, ScaleNum, ScaleDen, Joints, K_PAN_OFFSET,
       K_TILT_OFFSET, K_GRIPPER_CLOSE, K_GRIPPER_OPEN

\* The human value JointStateCallback computes from a raw reading is an
\* integer.
LEMMA ToHumanInt ==
  ASSUME NEW j \in Joints, NEW raw \in Int
  PROVE  ToHuman(j, raw) \in Int
BY DEF ToHuman, Offset, ScaleNum, ScaleDen, Joints, K_PAN_OFFSET,
       K_TILT_OFFSET, K_GRIPPER_CLOSE, K_GRIPPER_OPEN, K_GRIPPER_CAL

\* Every arm row leads from a state to a state and names a joint or none;
\* a row entering an action state from outside one is raised by a goal.
LEMMA ArmRowFacts ==
  ASSUME NEW v, NEW r \in ArmRows(v)
  PROVE  /\ r[4] \in States
         /\ r[3] \in Joints \cup {"NONE"}
         /\ r[4] \in ActiveStates /\ r[1] \notin ActiveStates => r[2] \in GoalEvents
<1>1. r \in ArmRows(v) \ {StowRow(v)} \/ r = StowRow(v)
  OBVIOUS
<1>2. CASE r = StowRow(v)
  BY <1>2 DEF StowRow, States, ActiveStates, GoalEvents, Joints
<1>3. CASE r \in ArmRows(v) \ {StowRow(v)}
  BY <1>3 DEF ArmRows, States, ActiveStates, GoalEvents, Joints
<1>. QED
  BY <1>1, <1>2, <1>3

\* Result always picks a resting state.
LEMMA ResolvedFacts ==
  ASSUME NEW response, NEW v
  PROVE  Resolved(response, v) \in ResolvedStates
BY DEF Resolved, ResolvedStates

\* The variables of ArmFSM are well typed after a step.
FsmOKNext ==
  /\ state' \in States
  /\ val' \in [Joints -> Int]
  /\ goal' \in [Joints -> Int]
  /\ cmd' \in [Joints -> Int]
  /\ goalTimer' \in BOOLEAN
  /\ srv' \in {"IDLE", "ACTIVE"}

\* fsm_.Update, whichever row matches, leaves the machine well typed.
LEMMA UpdateTyped ==
  ASSUME TypeOK, NEW e, NEW pre, PreOK(pre), Update(e, pre)
  PROVE  FsmOKNext
<1>. DEFINE arms == {r \in ArmRows(pre.val) : r[1] = state /\ r[2] = e}
            ends == {r \in ResultRows : r[1] = state /\ e \in r[2]}
<1>1. CASE \E r \in arms : /\ state' = r[4] /\ val' = pre.val
                           /\ goal' = pre.goal /\ srv' = pre.srv
                           /\ Arm(r[3], pre)
  <2>1. PICK r \in ArmRows(pre.val) : /\ state' = r[4] /\ val' = pre.val
                                      /\ goal' = pre.goal /\ srv' = pre.srv
                                      /\ Arm(r[3], pre)
    BY <1>1
  <2>2. r[4] \in States /\ r[3] \in Joints \cup {"NONE"}
    BY ArmRowFacts
  <2>3. cmd' \in [Joints -> Int] /\ goalTimer' \in BOOLEAN
    <3>1. CASE r[3] = "NONE"
      BY <2>1, <3>1 DEF Arm, TypeOK, PreOK
    <3>2. CASE r[3] \in Joints
      <4>1. ToDriver(r[3], pre.goal[r[3]]) \in Int
        BY <3>2, ToDriverInt DEF PreOK
      <4>. QED
        BY <2>1, <3>2, <4>1 DEF Arm, TypeOK, Joints
    <3>. QED
      BY <2>2, <3>1, <3>2
  <2>. QED
    BY <2>1, <2>2, <2>3 DEF FsmOKNext, PreOK
<1>2. CASE \E r \in ends : Result(FALSE, pre) /\ state' = Resolved(r[3], pre.val)
  BY <1>2, ResolvedFacts DEF Result, FsmOKNext, PreOK, TypeOK, ResolvedStates, States
<1>3. CASE /\ state' = state /\ val' = pre.val /\ goal' = pre.goal
           /\ cmd' = cmd /\ goalTimer' = pre.timer /\ srv' = pre.srv
  BY <1>3 DEF FsmOKNext, PreOK, TypeOK
<1>. QED
  BY <1>1, <1>2, <1>3 DEF Update

\* Starting an action with integer goals leaves the machine well typed.
LEMMA AcceptTyped ==
  ASSUME TypeOK, NEW e, NEW g \in [Joints -> Int], Accept(e, g)
  PROVE  FsmOKNext
<1>1. PreOK([Here EXCEPT !.goal = g, !.srv = "ACTIVE"])
  BY DEF PreOK, Here, TypeOK
<1>. QED
  BY <1>1, UpdateTyped DEF Accept

\* Refusing a goal leaves the machine well typed.
LEMMA RejectTyped ==
  ASSUME TypeOK, Reject
  PROVE  FsmOKNext
BY DEF Reject, Result, Here, FsmOKNext, TypeOK

\* A joint-state batch leaves every variable well typed.
LEMMA TelemetryTyped ==
  ASSUME TypeOK, NEW S \in SUBSET Joints, JointStateCallback(S)
  PROVE  TypeOK'
<1>. DEFINE v == [j \in Joints |-> IF j \in S THEN ToHuman(j, pos[j]) ELSE val[j]]
            e == Observed(state, v)
<1>1. v \in [Joints -> Int]
  BY ToHumanInt DEF TypeOK
<1>2. pos' = pos /\ watchdog' = TRUE /\ tol' = tol /\ pending' = pending
  BY DEF JointStateCallback
<1>3. CASE e = "NONE" /\ val' = v /\ UNCHANGED <<state, goal, cmd, goalTimer, srv>>
  BY <1>1, <1>2, <1>3 DEF TypeOK
<1>4. CASE Update(e, [Here EXCEPT !.val = v,
                                  !.timer = goalTimer /\ state \notin ActiveStates])
  <2>1. PreOK([Here EXCEPT !.val = v, !.timer = goalTimer /\ state \notin ActiveStates])
    BY <1>1 DEF PreOK, Here, TypeOK
  <2>. QED
    BY <1>2, <1>4, <2>1, UpdateTyped DEF FsmOKNext, TypeOK
<1>. QED
  BY <1>3, <1>4 DEF JointStateCallback

\* The goal handlers GoalCallback dispatches to.
LEMMA GoalDispatch ==
  ASSUME NEW c, GoalCallback(c)
  PROVE  /\ UNCHANGED <<pos, watchdog, tol>> /\ pending' = "NONE"
         /\ \/ GoalStop \/ GoalDeploy \/ GoalStow \/ GoalCalibrate \/ Reject
            \/ \E p \in PanRequests, t \in TiltRequests : GoalMove(c, p, t)
            \/ /\ c \in {"GRIPPER_SET", "GRIPPER_OPEN", "GRIPPER_CLOSE"}
               /\ \E x \in GripperRequests : GoalGripper(c, x)
BY DEF GoalCallback

\* Every goal handler leaves the machine well typed.
LEMMA GoalTyped ==
  ASSUME TypeOK, NEW c, GoalCallback(c)
  PROVE  TypeOK'
<1>. USE ConstantsAssumption
<1>. SUFFICES FsmOKNext
  BY GoalDispatch DEF FsmOKNext, TypeOK, AllCommands
<1>1. CASE GoalStop
  BY <1>1, AcceptTyped DEF GoalStop, TypeOK
<1>2. CASE GoalDeploy
  BY <1>2, AcceptTyped, RejectTyped DEF GoalDeploy, Joints, K_PAN_DEPLOY,
     K_TILT_DEPLOY, K_GRIPPER_DEPLOY
<1>3. CASE GoalStow
  BY <1>3, AcceptTyped, RejectTyped DEF GoalStow, Joints, K_PAN_STOW,
     K_TILT_STOW, K_GRIPPER_STOW
<1>4. CASE GoalCalibrate
  <2>1. [goal EXCEPT !["TILT"] = K_GRIPPER_CAL] \in [Joints -> Int]
    <3>1. K_GRIPPER_CAL \in Int
      BY DEF K_GRIPPER_CAL
    <3>. QED
      BY <3>1 DEF TypeOK
  <2>. QED
    BY <1>4, <2>1, AcceptTyped, RejectTyped DEF GoalCalibrate
<1>5. CASE Reject
  BY <1>5, RejectTyped
<1>6. ASSUME NEW p \in PanRequests, NEW t \in TiltRequests, GoalMove(c, p, t)
      PROVE  FsmOKNext
  <2>. DEFINE np == IF c \in {"ARM_MOVE", "ARM_PAN"} THEN p ELSE goal["PAN"]
              nt == IF c \in {"ARM_MOVE", "ARM_TILT"} THEN t ELSE goal["TILT"]
  <2>1. [goal EXCEPT !["PAN"] = np, !["TILT"] = nt] \in [Joints -> Int]
    BY DEF TypeOK, Joints
  <2>. QED
    BY <1>6, <2>1, AcceptTyped, RejectTyped DEF GoalMove
<1>7. ASSUME NEW x \in GripperRequests,
             c \in {"GRIPPER_SET", "GRIPPER_OPEN", "GRIPPER_CLOSE"},
             GoalGripper(c, x)
      PROVE  FsmOKNext
  <2>. DEFINE target == CASE c = "GRIPPER_SET" -> x
                          [] c = "GRIPPER_OPEN" -> K_GRIPPER_OPEN
                          [] c = "GRIPPER_CLOSE" -> K_GRIPPER_CLOSE
  <2>1. CASE \/ val["GRIPPER"] < 0 /\ Reject
             \/ val["GRIPPER"] >= 0 /\ state # "DEPLOYED" /\ Reject
             \/ /\ val["GRIPPER"] >= 0 /\ state = "DEPLOYED"
                /\ ~(K_GRIPPER_CLOSE <= target /\ target <= K_GRIPPER_OPEN)
                /\ Reject
    BY <2>1, RejectTyped
  <2>2. CASE /\ K_GRIPPER_CLOSE <= target /\ target <= K_GRIPPER_OPEN
             /\ Accept("GOAL_SET", [goal EXCEPT !["GRIPPER"] = target])
    <3>0. target \in Int
      <4>1. CASE c = "GRIPPER_SET"
        BY <4>1
      <4>2. CASE c = "GRIPPER_OPEN"
        BY <4>2 DEF K_GRIPPER_OPEN
      <4>3. CASE c = "GRIPPER_CLOSE"
        BY <4>3 DEF K_GRIPPER_CLOSE
      <4>. QED
        BY <1>7, <4>1, <4>2, <4>3
    <3>1. [goal EXCEPT !["GRIPPER"] = target] \in [Joints -> Int]
      BY <3>0 DEF TypeOK
    <3>. QED
      BY <2>2, <3>1, AcceptTyped
  <2>. QED
    BY <1>7, <2>1, <2>2 DEF GoalGripper
<1>. QED
  BY <1>1, <1>2, <1>3, <1>4, <1>5, <1>6, <1>7, GoalDispatch

\* The initial state is well typed.
LEMMA InitTyped == Init => TypeOK
<1>. USE ConstantsAssumption
<1>1. Poses \subseteq [Joints -> Int]
  <2>. SUFFICES ASSUME NEW r \in Poses PROVE r \in [Joints -> Int]
    OBVIOUS
  <2>1. r \in [Joints -> UNION {HwPositions[j] : j \in Joints}]
        /\ \A j \in Joints : r[j] \in HwPositions[j]
    BY DEF Poses
  <2>2. \A j \in Joints : r[j] \in Int
    BY <2>1, ConstantsAssumption
  <2>3. r = [j \in Joints |-> r[j]]
    BY <2>1
  <2>. QED
    BY <2>2, <2>3
<1>2. ASSUME Init PROVE TypeOK
  <2>1. state \in States /\ goalTimer \in BOOLEAN /\ srv \in {"IDLE", "ACTIVE"}
        /\ watchdog \in BOOLEAN
    BY <1>2 DEF Init, States
  <2>2. val \in [Joints -> Int] /\ goal \in [Joints -> Int]
    BY <1>2 DEF Init
  <2>3. pos \in [Joints -> Int] /\ cmd \in [Joints -> Int]
    BY <1>1, <1>2 DEF Init
  <2>4. tol \in [Joints -> Nat] /\ pending \in AllCommands \cup {"NONE"}
    BY <1>2 DEF Init
  <2>. QED
    BY <2>1, <2>2, <2>3, <2>4 DEF TypeOK
<1>. QED
  BY <1>2

\* Every step keeps every variable well typed.
LEMMA NextTyped == TypeOK /\ [Next]_vars => TypeOK'
<1>. USE ConstantsAssumption
<1>. SUFFICES ASSUME TypeOK, [Next]_vars PROVE TypeOK'
  OBVIOUS
<1>1. CASE Telemetry
  BY <1>1, TelemetryTyped DEF Telemetry
<1>2. ASSUME NEW c \in AllCommands, GoalCallback(c) PROVE TypeOK'
  BY <1>2, GoalTyped
<1>3. CASE CancelCallback
  <2>1. PreOK(Here)
    BY DEF PreOK, Here, TypeOK
  <2>. QED
    BY <1>3, <2>1, UpdateTyped DEF CancelCallback, FsmOKNext, TypeOK
<1>4. CASE TimeoutCallback
  <2>1. PreOK([Here EXCEPT !.timer = FALSE])
    BY DEF PreOK, Here, TypeOK
  <2>. QED
    BY <1>4, <2>1, UpdateTyped DEF TimeoutCallback, FsmOKNext, TypeOK
<1>5. CASE WatchdogCallback
  BY <1>5, ResolvedFacts DEF WatchdogCallback, Result, Here, TypeOK,
     ResolvedStates, States
<1>6. ASSUME NEW s \in States, SetStateCallback(s) PROVE TypeOK'
  BY <1>6 DEF SetStateCallback, TypeOK
<1>7. ASSUME NEW j \in Joints, DriverMove(j) PROVE TypeOK'
  BY <1>7 DEF DriverMove, TypeOK
<1>8. ASSUME NEW j \in Joints, NEW p \in HwPositions[j], ManualMove(j, p)
      PROVE TypeOK'
  BY <1>8 DEF ManualMove, TypeOK
<1>9. CASE UNCHANGED vars
  BY <1>9 DEF vars, TypeOK
<1>10. ASSUME NEW t \in TolChoices, ReconfigureCallback(t) PROVE TypeOK'
  BY <1>10 DEF ReconfigureCallback, TypeOK
<1>11. ASSUME NEW c \in AllCommands, PreemptCallback(c) PROVE TypeOK'
  <2>1. PreOK(Here)
    BY DEF PreOK, Here, TypeOK
  <2>. QED
    BY <1>11, <2>1, UpdateTyped DEF PreemptCallback, FsmOKNext, TypeOK
<1>. QED
  BY <1>1, <1>2, <1>3, <1>4, <1>5, <1>6, <1>7, <1>8, <1>9, <1>10, <1>11
  DEF Next

\* Type correctness of the whole nodelet: every callback, timer and move of
\* the arm keeps every variable within its type (TypeOK, run core).
THEOREM TypeCorrect == Spec => []TypeOK
BY InitTyped, NextTyped, PTL DEF Spec

-----------------------------------------------------------------------------
(* Goal handlers and telemetry events.                                     *)

\* Every goal handler either starts the action through fsm_.Update or
\* refuses the goal.
LEMMA GoalAcceptOrReject ==
  ASSUME NEW c, GoalCallback(c)
  PROVE  (\E e, g : Accept(e, g)) \/ Reject
<1>1. CASE GoalStop \/ GoalDeploy \/ GoalStow \/ GoalCalibrate \/ Reject
  BY <1>1 DEF GoalStop, GoalDeploy, GoalStow, GoalCalibrate
<1>2. CASE \E p \in PanRequests, t \in TiltRequests : GoalMove(c, p, t)
  BY <1>2 DEF GoalMove
<1>3. CASE \E x \in GripperRequests : GoalGripper(c, x)
  BY <1>3 DEF GoalGripper
<1>. QED
  BY <1>1, <1>2, <1>3, GoalDispatch

\* No state's telemetry raises a goal event.
LEMMA ObservedNeverGoal ==
  ASSUME NEW s \in States, NEW v
  PROVE  Observed(s, v) \notin GoalEvents
<1>1. CASE s \in {"UNKNOWN", "STOWED", "DEPLOYED", "INITIALIZING", "CALIBRATING"}
  BY <1>1 DEF Observed, GoalEvents
<1>2. CASE s \notin {"UNKNOWN", "STOWED", "DEPLOYED", "INITIALIZING", "CALIBRATING"}
  <2>1. Awaited[s] \in Joints
    BY <1>2 DEF Awaited, States, Joints
  <2>2. Completes[Awaited[s]] \notin GoalEvents
    BY <2>1 DEF Completes, Joints, GoalEvents
  <2>3. Observed(s, v) = IF Equal(Awaited[s], v, goal[Awaited[s]])
                          THEN Completes[Awaited[s]] ELSE "NONE"
    BY <1>2 DEF Observed
  <2>. QED
    BY <2>2, <2>3 DEF GoalEvents
<1>. QED
  BY <1>1, <1>2

-----------------------------------------------------------------------------
(* NoOrphanCancellable.                                                    *)

\* The action states GOAL_CANCEL and TIMEOUT end (every one but the two
\* deploy states).
Cancellable == ActiveStates \ DeployStates

\* Between PreemptCallback and the GoalCallback that follows it, the
\* machine is not in a cancellable action state: the preemption's
\* GOAL_CANCEL has ended it.
PreemptSafe == pending # "NONE" => state \notin Cancellable

\* The inductive invariant behind NoOrphanCancellable.
CancellableInv == TypeOK /\ NoOrphanCancellable /\ PreemptSafe

\* No arm row is raised by GOAL_CANCEL, and a row from a deploy state leads
\* to the other deploy state.
LEMMA ArmRowCancellable ==
  ASSUME NEW v, NEW r \in ArmRows(v)
  PROVE  /\ r[2] # "GOAL_CANCEL"
         /\ r[1] \in DeployStates => r[4] \in DeployStates
<1>1. r \in ArmRows(v) \ {StowRow(v)} \/ r = StowRow(v)
  OBVIOUS
<1>2. CASE r = StowRow(v)
  BY <1>2 DEF StowRow, DeployStates
<1>3. CASE r \in ArmRows(v) \ {StowRow(v)}
  BY <1>3 DEF ArmRows, DeployStates
<1>. QED
  BY <1>1, <1>2, <1>3

\* Every cancellable state has a TIMEOUT | GOAL_CANCEL row calling Result.
LEMMA CancellableHasFailRow ==
  ASSUME NEW s \in Cancellable
  PROVE  \E r \in ResultRows : r[1] = s /\ r[2] = Fail
BY DEF Cancellable, ActiveStates, DeployStates, States, ResultRows, Fail

\* fsm_.Update enters a cancellable state only on behalf of an active goal:
\* it keeps NoOrphanCancellable when the handler has accepted a goal, or
\* when it leaves the goal bookkeeping alone and raises no goal event.
LEMMA UpdateCancellable ==
  ASSUME NoOrphanCancellable, NEW e, NEW pre, Update(e, pre),
         \/ pre.srv = "ACTIVE"
         \/ pre.srv = srv /\ e \notin GoalEvents
  PROVE  NoOrphanCancellable'
<1>1. CASE \E r \in {r \in ArmRows(pre.val) : r[1] = state /\ r[2] = e} :
             /\ state' = r[4] /\ val' = pre.val
             /\ goal' = pre.goal /\ srv' = pre.srv
             /\ Arm(r[3], pre)
  <2>1. PICK r \in ArmRows(pre.val) : /\ r[1] = state /\ r[2] = e
                                      /\ state' = r[4] /\ srv' = pre.srv
    BY <1>1
  <2>2. r[4] \in ActiveStates /\ r[1] \notin ActiveStates => r[2] \in GoalEvents
    BY ArmRowFacts
  <2>3. r[1] \in DeployStates => r[4] \in DeployStates
    BY ArmRowCancellable
  <2>. QED
    BY <2>1, <2>2, <2>3 DEF NoOrphanCancellable
<1>2. CASE \E r \in {r \in ResultRows : r[1] = state /\ e \in r[2]} :
             Result(FALSE, pre) /\ state' = Resolved(r[3], pre.val)
  BY <1>2, ResolvedFacts DEF NoOrphanCancellable, ResolvedStates, ActiveStates,
     States
<1>3. CASE state' = state /\ srv' = pre.srv
  BY <1>3 DEF NoOrphanCancellable
<1>. QED
  BY <1>1, <1>2, <1>3 DEF Update

\* GOAL_CANCEL leaves no cancellable state standing: the state it leaves
\* the machine in is not cancellable.
LEMMA CancelLeaves ==
  ASSUME NEW pre, Update("GOAL_CANCEL", pre)
  PROVE  state' \notin Cancellable
<1>1. ~\E r \in ArmRows(pre.val) : r[1] = state /\ r[2] = "GOAL_CANCEL"
  BY ArmRowCancellable
<1>2. CASE \E r \in {r \in ResultRows : r[1] = state /\ "GOAL_CANCEL" \in r[2]} :
             Result(FALSE, pre) /\ state' = Resolved(r[3], pre.val)
  BY <1>2, ResolvedFacts DEF ResolvedStates, Cancellable, ActiveStates
<1>3. CASE /\ {r \in ResultRows : r[1] = state /\ "GOAL_CANCEL" \in r[2]} = {}
           /\ state' = state
  <2>1. state \notin Cancellable
    BY <1>3, CancellableHasFailRow DEF Fail
  <2>. QED
    BY <1>3, <2>1
<1>. QED
  BY <1>1, <1>2, <1>3 DEF Update

\* A step that raises no goal event through fsm_.Update and leaves the
\* goal bookkeeping and the preemption alone keeps CancellableInv.
LEMMA PlainUpdateKeeps ==
  ASSUME CancellableInv, TypeOK', NEW e, NEW pre, Update(e, pre),
         pre.srv = srv, e \notin GoalEvents, pending' = pending,
         pending = "NONE"
  PROVE  CancellableInv'
BY UpdateCancellable DEF CancellableInv, PreemptSafe

\* An action the caller can end always has a caller (NoOrphanCancellable,
\* run core): whenever the machine is in an action state other than the
\* two deploy states, the action server holds a goal that Result will
\* answer.  A goal that arrives while another is active is delivered as
\* PreemptCallback then GoalCallback; the preemption's GOAL_CANCEL has
\* already ended every cancellable action, so GoalCallback's refusal (its
\* srv' = IDLE) never leaves one without its goal.  It holds as long as
\* the SetState service never forces a cancellable state.
THEOREM NoOrphanCancellableHolds ==
  ASSUME ManualStates \cap Cancellable = {}
  PROVE  Spec => []NoOrphanCancellable
<1>1. Init => CancellableInv
  BY InitTyped DEF Init, CancellableInv, NoOrphanCancellable, PreemptSafe,
     ActiveStates, States
<1>2. CancellableInv /\ [Next]_vars => CancellableInv'
  <2>. SUFFICES ASSUME CancellableInv, [Next]_vars
                PROVE  CancellableInv'
    OBVIOUS
  <2>0. TypeOK'
    BY NextTyped DEF CancellableInv
  <2>1. CASE Telemetry
    <3>1. PICK S \in SUBSET Joints \ {{}} : JointStateCallback(S)
      BY <2>1 DEF Telemetry
    <3>. DEFINE v == [j \in Joints |-> IF j \in S THEN ToHuman(j, pos[j]) ELSE val[j]]
                e == Observed(state, v)
                pre == [Here EXCEPT !.val = v,
                                    !.timer = goalTimer /\ state \notin ActiveStates]
    <3>2. pending = "NONE" /\ pending' = pending
      BY <3>1 DEF JointStateCallback
    <3>3. CASE e = "NONE" /\ val' = v /\ UNCHANGED <<state, goal, cmd, goalTimer, srv>>
      BY <2>0, <3>2, <3>3 DEF CancellableInv, NoOrphanCancellable, PreemptSafe
    <3>4. CASE Update(e, pre)
      <4>1. pre.srv = srv
        BY DEF Here
      <4>2. e \notin GoalEvents
        BY ObservedNeverGoal DEF CancellableInv, TypeOK
      <4>. QED
        BY <2>0, <3>2, <3>4, <4>1, <4>2, PlainUpdateKeeps
    <3>. QED
      BY <3>1, <3>3, <3>4 DEF JointStateCallback
  <2>2. ASSUME NEW c \in AllCommands, GoalCallback(c) PROVE CancellableInv'
    <3>1. pending' = "NONE"
      BY <2>2, GoalDispatch
    \* The guard: no goal is active (so no cancellable action runs), or this
    \* is the goal delivered after a preemption (PreemptSafe).
    <3>2. state \notin Cancellable
      <4>1. (srv = "IDLE" /\ pending = "NONE") \/ (pending = c /\ c # "NONE")
        BY <2>2 DEF GoalCallback, AllCommands
      <4>. QED
        BY <4>1 DEF CancellableInv, NoOrphanCancellable, PreemptSafe, Cancellable
    <3>3. CASE \E e, g : Accept(e, g)
      <4>1. PICK e, g : Accept(e, g)
        BY <3>3
      <4>2. [Here EXCEPT !.goal = g, !.srv = "ACTIVE"].srv = "ACTIVE"
        BY DEF Here
      <4>3. NoOrphanCancellable'
        BY <4>1, <4>2, UpdateCancellable DEF Accept, CancellableInv
      <4>. QED
        BY <2>0, <3>1, <4>3 DEF CancellableInv, PreemptSafe
    <3>4. CASE Reject
      <4>1. state' = state /\ srv' = "IDLE"
        BY <3>4 DEF Reject, Result
      <4>. QED
        BY <2>0, <3>1, <3>2, <4>1 DEF CancellableInv, NoOrphanCancellable,
           PreemptSafe, Cancellable
    <3>. QED
      BY <2>2, <3>3, <3>4, GoalAcceptOrReject
  <2>3. ASSUME NEW c \in AllCommands, PreemptCallback(c) PROVE CancellableInv'
    <3>1. state' \notin Cancellable
      BY <2>3, CancelLeaves DEF PreemptCallback
    <3>. QED
      BY <2>0, <3>1 DEF CancellableInv, NoOrphanCancellable, PreemptSafe,
         Cancellable
  <2>4. CASE CancelCallback
    <3>1. Here.srv = srv /\ "GOAL_CANCEL" \notin GoalEvents
      BY DEF Here, GoalEvents
    <3>. QED
      BY <2>0, <2>4, <3>1, PlainUpdateKeeps DEF CancelCallback
  <2>5. CASE TimeoutCallback
    <3>1. [Here EXCEPT !.timer = FALSE].srv = srv /\ "TIMEOUT" \notin GoalEvents
      BY DEF Here, GoalEvents
    <3>. QED
      BY <2>0, <2>5, <3>1, PlainUpdateKeeps DEF TimeoutCallback
  <2>6. CASE WatchdogCallback
    BY <2>0, <2>6 DEF WatchdogCallback, Resolved, CancellableInv,
       NoOrphanCancellable, PreemptSafe, Cancellable, ActiveStates, States
  <2>7. ASSUME NEW s \in States, SetStateCallback(s) PROVE CancellableInv'
    BY <2>0, <2>7 DEF SetStateCallback, CancellableInv, NoOrphanCancellable,
       PreemptSafe, Cancellable
  <2>8. ASSUME NEW j \in Joints, DriverMove(j) PROVE CancellableInv'
    BY <2>0, <2>8 DEF DriverMove, CancellableInv, NoOrphanCancellable, PreemptSafe
  <2>9. ASSUME NEW j \in Joints, NEW p \in HwPositions[j], ManualMove(j, p)
        PROVE CancellableInv'
    BY <2>0, <2>9 DEF ManualMove, CancellableInv, NoOrphanCancellable, PreemptSafe
  <2>10. ASSUME NEW t \in TolChoices, ReconfigureCallback(t) PROVE CancellableInv'
    BY <2>0, <2>10 DEF ReconfigureCallback, CancellableInv, NoOrphanCancellable,
       PreemptSafe
  <2>11. CASE UNCHANGED vars
    BY <2>0, <2>11 DEF vars, CancellableInv, NoOrphanCancellable, PreemptSafe
  <2>. QED
    BY <2>1, <2>2, <2>3, <2>4, <2>5, <2>6, <2>7, <2>8, <2>9, <2>10, <2>11
    DEF Next
<1>3. CancellableInv => NoOrphanCancellable
  BY DEF CancellableInv
<1>. QED
  BY <1>1, <1>2, <1>3, PTL DEF Spec
=============================================================================
