--------------------------- MODULE ArmTimerProofs ---------------------------
(***************************************************************************)
(* Proof that timer_goal_ watches every action the caller can cancel       *)
(* (TimerWatchesAction).  JointStateCallback stops the timer before it     *)
(* raises a completion; the argument is that, in a cancellable state,      *)
(* every completion it raises matches a row of the table, and a row either *)
(* leaves the action states (Result) or calls Arm on a joint, which        *)
(* restarts the timer.                                                     *)
(***************************************************************************)
EXTENDS ArmNodeletProofs, TLAPS

\* fsm_.Update(e) finds a row for event e in the current state.
Handled(e, v) ==
  \/ \E r \in ArmRows(v) : r[1] = state /\ r[2] = e
  \/ \E r \in ResultRows : r[1] = state /\ e \in r[2]

\* The inductive invariant behind TimerWatchesAction.
TimerInv == TypeOK /\ TimerWatchesAction

\* A row entering an action state commands a joint.
LEMMA ArmRowTimed ==
  ASSUME NEW v, NEW r \in ArmRows(v), r[4] \in ActiveStates
  PROVE  r[3] \in Joints
<1>1. r \in ArmRows(v) \ {StowRow(v)} \/ r = StowRow(v)
  OBVIOUS
<1>2. CASE r = StowRow(v)
  BY <1>2 DEF StowRow, Joints
<1>3. CASE r \in ArmRows(v) \ {StowRow(v)}
  BY <1>3 DEF ArmRows, ActiveStates, States, Joints
<1>. QED
  BY <1>1, <1>2, <1>3

\* In a cancellable state, every event JointStateCallback raises (the
\* completion of the joint the state waits on, or of the calibration) has
\* a row.
LEMMA ObservedHandled ==
  ASSUME NEW v, state \in Cancellable, Observed(state, v) # "NONE"
  PROVE  Handled(Observed(state, v), v)
<1>1. CASE state = "CALIBRATING"
  <2>1. Observed(state, v) = "CALIBRATE_COMPLETE"
    BY <1>1 DEF Observed
  <2>. QED
    BY <1>1, <2>1 DEF Handled, ResultRows
<1>2. CASE state # "CALIBRATING"
  <2>1. Observed(state, v) = Completes[Awaited[state]]
    BY <1>2 DEF Observed, Cancellable, ActiveStates, DeployStates, States
  <2>2. Handled(Completes[Awaited[state]], v)
    BY <1>2 DEF Handled, ArmRows, ResultRows, Completes, Awaited, Cancellable,
       ActiveStates, DeployStates, States
  <2>. QED
    BY <2>1, <2>2
<1>. QED
  BY <1>1, <1>2

\* fsm_.Update keeps the timer running in a cancellable state when the
\* handler hands it the running timer, or when the event has a row.
LEMMA UpdateTimer ==
  ASSUME TimerWatchesAction, NEW e, NEW pre, Update(e, pre),
         state \in Cancellable => pre.timer \/ Handled(e, pre.val)
  PROVE  TimerWatchesAction'
<1>1. CASE \E r \in {r \in ArmRows(pre.val) : r[1] = state /\ r[2] = e} :
             state' = r[4] /\ Arm(r[3], pre)
  <2>1. PICK r \in ArmRows(pre.val) : state' = r[4] /\ Arm(r[3], pre)
    BY <1>1
  <2>2. r[4] \in ActiveStates => r[3] \in Joints
    BY ArmRowTimed
  <2>. QED
    BY <2>1, <2>2 DEF Arm, Joints, TimerWatchesAction
<1>2. CASE \E r \in {r \in ResultRows : r[1] = state /\ e \in r[2]} :
             state' = Resolved(r[3], pre.val)
  BY <1>2, ResolvedFacts DEF ResolvedStates, TimerWatchesAction, ActiveStates,
     States
<1>3. CASE /\ ~Handled(e, pre.val)
           /\ state' = state /\ goalTimer' = pre.timer
  BY <1>3 DEF TimerWatchesAction, Cancellable
<1>. QED
  BY <1>1, <1>2, <1>3 DEF Update, Handled

\* Every action that can time out is watched (TimerWatchesAction, run
\* core): in every action state but the two deploy states, timer_goal_ is
\* running, so a stalled pan, tilt or gripper ends in TIMEOUT.  A batch of
\* joint states stops the timer on a completion; the row the completion
\* matches restarts it (Arm) or ends the action (Result).  A cancel, a
\* preemption or a timeout ends any cancellable action.  It holds as long
\* as the SetState service never forces a cancellable state.
THEOREM TimerWatchesActionHolds ==
  ASSUME ManualStates \cap Cancellable = {}
  PROVE  Spec => []TimerWatchesAction
<1>1. Init => TimerInv
  BY InitTyped DEF Init, TimerInv, TimerWatchesAction, ActiveStates, States
<1>2. TimerInv /\ [Next]_vars => TimerInv'
  <2>. SUFFICES ASSUME TimerInv, [Next]_vars
                PROVE  TimerWatchesAction'
    BY NextTyped DEF TimerInv
  <2>0. TimerWatchesAction /\ TypeOK
    BY DEF TimerInv
  <2>1. CASE Telemetry
    <3>1. PICK S \in SUBSET Joints \ {{}} : JointStateCallback(S)
      BY <2>1 DEF Telemetry
    <3>. DEFINE v == [j \in Joints |-> IF j \in S THEN ToHuman(j, pos[j]) ELSE val[j]]
                e == Observed(state, v)
                pre == [Here EXCEPT !.val = v,
                                    !.timer = goalTimer /\ state \notin ActiveStates]
    <3>2. CASE e = "NONE" /\ val' = v /\ UNCHANGED <<state, goal, cmd, goalTimer, srv>>
      BY <2>0, <3>2 DEF TimerWatchesAction
    <3>3. CASE e # "NONE" /\ Update(e, pre)
      <4>1. pre.val = v /\ pre.timer = (goalTimer /\ state \notin ActiveStates)
        BY DEF Here
      <4>2. state \in Cancellable => Handled(e, v)
        BY <3>3, ObservedHandled
      <4>. QED
        BY <2>0, <3>3, <4>1, <4>2, UpdateTimer
    <3>. QED
      BY <3>1, <3>2, <3>3 DEF JointStateCallback
  <2>2. ASSUME NEW c \in AllCommands, GoalCallback(c) PROVE TimerWatchesAction'
    <3>1. CASE \E e, g : Accept(e, g)
      <4>1. PICK e, g : Accept(e, g)
        BY <3>1
      <4>2. [Here EXCEPT !.goal = g, !.srv = "ACTIVE"].timer = goalTimer
        BY DEF Here
      <4>. QED
        BY <2>0, <4>1, <4>2, UpdateTimer DEF Accept, TimerWatchesAction,
           Cancellable
    <3>2. CASE Reject
      BY <2>0, <3>2 DEF Reject, Result, Here, TimerWatchesAction
    <3>. QED
      BY <2>2, <3>1, <3>2, GoalAcceptOrReject
  <2>3. ASSUME NEW c \in AllCommands, PreemptCallback(c) PROVE TimerWatchesAction'
    BY <2>3, CancelLeaves DEF PreemptCallback, TimerWatchesAction, Cancellable
  <2>4. CASE CancelCallback
    BY <2>4, CancelLeaves DEF CancelCallback, TimerWatchesAction, Cancellable
  <2>5. CASE TimeoutCallback
    <3>1. state \in Cancellable => Handled("TIMEOUT", val)
      BY CancellableHasFailRow DEF Handled, Fail
    <3>2. [Here EXCEPT !.timer = FALSE].val = val
      BY DEF Here
    <3>. QED
      BY <2>0, <2>5, <3>1, <3>2, UpdateTimer DEF TimeoutCallback
  <2>6. CASE WatchdogCallback
    BY <2>6 DEF WatchdogCallback, Resolved, TimerWatchesAction, ActiveStates,
       States
  <2>7. ASSUME NEW s \in States, SetStateCallback(s) PROVE TimerWatchesAction'
    BY <2>0, <2>7 DEF SetStateCallback, TimerWatchesAction, Cancellable
  <2>8. CASE \/ \E j \in Joints : DriverMove(j)
             \/ \E j \in Joints : \E p \in HwPositions[j] : ManualMove(j, p)
             \/ \E t \in TolChoices : ReconfigureCallback(t)
             \/ UNCHANGED vars
    BY <2>0, <2>8 DEF DriverMove, ManualMove, ReconfigureCallback, vars,
       TimerWatchesAction
  <2>. QED
    BY <2>1, <2>2, <2>3, <2>4, <2>5, <2>6, <2>7, <2>8 DEF Next
<1>3. TimerInv => TimerWatchesAction
  BY DEF TimerInv
<1>. QED
  BY <1>1, <1>2, <1>3, PTL DEF Spec
=============================================================================
