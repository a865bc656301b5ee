-------------------------- MODULE ArmRestingProofs --------------------------
(***************************************************************************)
(* Proof that the resting state agrees with the last observed pose        *)
(* (RestingMatchesPose) for every value of the constants, as long as the  *)
(* configuration holds one tolerance vector and SetState never forces     *)
(* STOWED or DEPLOYED.  Both conditions are needed: run resync shows that *)
(* a reconfiguration to wider tolerances breaks the agreement until the   *)
(* next telemetry batch, and SetState writes the state without looking at *)
(* the pose.                                                              *)
(*                                                                         *)
(* The invariant is not inductive on its own: a reconfiguration step      *)
(* keeps it only if the tolerance it writes is the one IsStowed read.     *)
(* RestInv adds that the tolerances are the configured ones.             *)
(***************************************************************************)
EXTENDS ArmNodeletProofs, TLAPS

\* The inductive strengthening of RestingMatchesPose.
RestInv ==
  /\ tol \in TolChoices
  /\ RestingMatchesPose

\* Only the background rows enter a resting state, on the event of the
\* same name (UNKNOWN, STOWED and DEPLOYED on STOWED or DEPLOYED).
LEMMA ArmRowResting ==
  ASSUME NEW v, NEW r \in ArmRows(v)
  PROVE  /\ r[4] = "STOWED" => r[2] = "STOWED"
         /\ r[4] = "DEPLOYED" => r[2] = "DEPLOYED"
<1>1. r \in ArmRows(v) \ {StowRow(v)} \/ r = StowRow(v)
  OBVIOUS
<1>2. CASE r = StowRow(v)
  BY <1>2 DEF StowRow
<1>3. CASE r \in ArmRows(v) \ {StowRow(v)}
  BY <1>3 DEF ArmRows
<1>. QED
  BY <1>1, <1>2, <1>3

\* JointStateCallback raises STOWED only on a stowed pose and DEPLOYED only
\* on a pose that is not; in STOWED it raises DEPLOYED unless the pose is
\* stowed, and in DEPLOYED it raises STOWED if the pose is stowed.
LEMMA ObservedResting ==
  ASSUME NEW s \in States, NEW v
  PROVE  /\ Observed(s, v) = "STOWED" => IsStowed(v)
         /\ Observed(s, v) = "DEPLOYED" => ~IsStowed(v)
         /\ s = "STOWED" /\ Observed(s, v) # "DEPLOYED" => IsStowed(v)
         /\ s = "DEPLOYED" /\ Observed(s, v) # "STOWED" => ~IsStowed(v)
<1>1. CASE s \in {"UNKNOWN", "STOWED", "DEPLOYED", "INITIALIZING", "CALIBRATING"}
  BY <1>1 DEF Observed
<1>2. CASE s \notin {"UNKNOWN", "STOWED", "DEPLOYED", "INITIALIZING", "CALIBRATING"}
  <2>1. Awaited[s] \in Joints
    BY <1>2 DEF Awaited, States, Joints
  <2>2. Completes[Awaited[s]] \notin {"STOWED", "DEPLOYED"}
    BY <2>1 DEF Completes, Joints
  <2>3. Observed(s, v) = IF Equal(Awaited[s], v, goal[Awaited[s]])
                          THEN Completes[Awaited[s]] ELSE "NONE"
    BY <1>2 DEF Observed
  <2>. QED
    BY <1>2, <2>2, <2>3
<1>. QED
  BY <1>1, <1>2

\* fsm_.Update keeps the resting state in agreement with the pose when the
\* tolerances stay, a STOWED or DEPLOYED event comes with a pose that is
\* stowed or not, and a resting state agrees with the handler's values
\* unless the event is the one that leaves it.
LEMMA UpdateResting ==
  ASSUME NEW e, NEW pre, Update(e, pre), tol' = tol,
         e = "STOWED" => IsStowed(pre.val),
         e = "DEPLOYED" => ~IsStowed(pre.val),
         state = "STOWED" /\ e # "DEPLOYED" => IsStowed(pre.val),
         state = "DEPLOYED" /\ e # "STOWED" => ~IsStowed(pre.val)
  PROVE  RestingMatchesPose'
<1>1. val' = pre.val => (IsStowed(val)' <=> IsStowed(pre.val))
  BY DEF IsStowed, Equal, WithinTol
<1>2. CASE \E r \in {r \in ArmRows(pre.val) : r[1] = state /\ r[2] = e} :
             /\ state' = r[4] /\ val' = pre.val
             /\ goal' = pre.goal /\ srv' = pre.srv
             /\ Arm(r[3], pre)
  <2>1. PICK r \in ArmRows(pre.val) : /\ r[1] = state /\ r[2] = e
                                      /\ state' = r[4] /\ val' = pre.val
    BY <1>2
  <2>2. /\ r[4] = "STOWED" => r[2] = "STOWED"
        /\ r[4] = "DEPLOYED" => r[2] = "DEPLOYED"
    BY ArmRowResting
  <2>. QED
    BY <1>1, <2>1, <2>2 DEF RestingMatchesPose
<1>3. CASE \E r \in {r \in ResultRows : r[1] = state /\ e \in r[2]} :
             Result(FALSE, pre) /\ state' = Resolved(r[3], pre.val)
  <2>1. PICK r \in ResultRows : Result(FALSE, pre) /\ state' = Resolved(r[3], pre.val)
    BY <1>3
  <2>2. val' = pre.val
    BY <2>1 DEF Result
  <2>. QED
    BY <1>1, <2>1, <2>2 DEF Resolved, RestingMatchesPose
<1>4. CASE /\ {r \in ArmRows(pre.val) : r[1] = state /\ r[2] = e} = {}
           /\ state' = state /\ val' = pre.val
  <2>1. state = "STOWED" => e # "DEPLOYED"
    <3>1. <<"STOWED", "DEPLOYED", "NONE", "DEPLOYED">> \in ArmRows(pre.val)
      BY DEF ArmRows
    <3>. QED
      BY <1>4, <3>1
  <2>2. state = "DEPLOYED" => e # "STOWED"
    <3>1. <<"DEPLOYED", "STOWED", "NONE", "STOWED">> \in ArmRows(pre.val)
      BY DEF ArmRows
    <3>. QED
      BY <1>4, <3>1
  <2>. QED
    BY <1>1, <1>4, <2>1, <2>2 DEF RestingMatchesPose
<1>. QED
  BY <1>2, <1>3, <1>4 DEF Update

\* Every goal handler either starts the action with a goal event or
\* GOAL_CANCEL (ARM_STOP), or refuses the goal; none raises STOWED or
\* DEPLOYED.
LEMMA GoalAcceptEvent ==
  ASSUME NEW c, GoalCallback(c)
  PROVE  \/ \E e \in GoalEvents \cup {"GOAL_CANCEL"} : \E g : Accept(e, g)
         \/ Reject
<1>1. CASE GoalStop \/ GoalDeploy \/ GoalStow \/ GoalCalibrate \/ Reject
  BY <1>1 DEF GoalStop, GoalDeploy, GoalStow, GoalCalibrate, GoalEvents
<1>2. CASE \E p \in PanRequests, t \in TiltRequests : GoalMove(c, p, t)
  BY <1>2 DEF GoalMove, GoalEvents
<1>3. CASE \E x \in GripperRequests : GoalGripper(c, x)
  BY <1>3 DEF GoalGripper, GoalEvents
<1>. QED
  BY <1>1, <1>2, <1>3, GoalDispatch

\* The resting state agrees with the pose (RestingMatchesPose, run core):
\* JointStateCallback enters STOWED or DEPLOYED, or stays there, only on a
\* pose that is stowed or not; Result picks the resting state from the
\* pose it leaves in val; the goal handlers and the timers either leave
\* the state or keep val.  It holds as long as the configuration holds one
\* tolerance vector (ReconfigureCallback then writes the tolerances that
\* IsStowed already read) and SetState never forces a resting state.
THEOREM RestingMatchesPoseHolds ==
  ASSUME \E t0 : TolChoices = {t0},
         ManualStates \cap Resting = {}
  PROVE  Spec => []RestingMatchesPose
<1>1. Init => RestInv
  BY DEF Init, RestInv, RestingMatchesPose
<1>2. TypeOK /\ RestInv /\ [Next]_vars => RestInv'
  <2>. SUFFICES ASSUME TypeOK, RestInv, [Next]_vars
                PROVE  tol' \in TolChoices /\ RestingMatchesPose'
    BY DEF RestInv
  <2>. tol' \in TolChoices
    <3>1. CASE \E t \in TolChoices : ReconfigureCallback(t)
      BY <3>1 DEF ReconfigureCallback
    <3>2. CASE \E c \in AllCommands : GoalCallback(c)
      BY <3>2, GoalDispatch DEF RestInv
    <3>3. CASE ~(\E t \in TolChoices : ReconfigureCallback(t))
               /\ ~(\E c \in AllCommands : GoalCallback(c))
      BY <3>3 DEF Next, Telemetry, JointStateCallback, CancelCallback,
         TimeoutCallback, WatchdogCallback, SetStateCallback, DriverMove,
         ManualMove, PreemptCallback, vars, RestInv
    <3>. QED
      BY <3>1, <3>2, <3>3
  <2>0. RestingMatchesPose
    BY DEF RestInv
  <2>1. CASE Telemetry
    <3>1. PICK S \in SUBSET Joints \ {{}} : JointStateCallback(S)
      BY <2>1 DEF Telemetry
    <3>. DEFINE v == [j \in Joints |-> IF j \in S THEN ToHuman(j, pos[j]) ELSE val[j]]
                e == Observed(state, v)
                pre == [Here EXCEPT !.val = v,
                                    !.timer = goalTimer /\ state \notin ActiveStates]
    <3>2. /\ e = "STOWED" => IsStowed(v)
          /\ e = "DEPLOYED" => ~IsStowed(v)
          /\ state = "STOWED" /\ e # "DEPLOYED" => IsStowed(v)
          /\ state = "DEPLOYED" /\ e # "STOWED" => ~IsStowed(v)
      BY ObservedResting DEF TypeOK
    <3>3. tol' = tol
      BY <3>1 DEF JointStateCallback
    <3>4. CASE e = "NONE" /\ val' = v /\ UNCHANGED <<state, goal, cmd, goalTimer, srv>>
      <4>1. IsStowed(val)' <=> IsStowed(v)
        BY <3>3, <3>4 DEF IsStowed, Equal, WithinTol
      <4>. QED
        BY <3>2, <3>4, <4>1 DEF RestingMatchesPose
    <3>5. CASE Update(e, pre)
      <4>1. pre.val = v
        BY DEF Here
      <4>. QED
        BY <3>2, <3>3, <3>5, <4>1, UpdateResting
    <3>. QED
      BY <3>1, <3>4, <3>5 DEF JointStateCallback
  <2>2. ASSUME NEW c \in AllCommands, GoalCallback(c) PROVE RestingMatchesPose'
    <3>1. tol' = tol
      BY <2>2 DEF GoalCallback
    <3>2. CASE \E e \in GoalEvents \cup {"GOAL_CANCEL"} : \E g : Accept(e, g)
      <4>1. PICK e \in GoalEvents \cup {"GOAL_CANCEL"} : \E g : Accept(e, g)
        BY <3>2
      <4>2. PICK g : Accept(e, g)
        BY <4>1
      <4>3. [Here EXCEPT !.goal = g, !.srv = "ACTIVE"].val = val
        BY DEF Here
      <4>. QED
        BY <2>0, <3>1, <4>1, <4>2, <4>3, UpdateResting DEF Accept, GoalEvents,
           RestingMatchesPose
    <3>3. CASE Reject
      BY <2>0, <3>1, <3>3 DEF Reject, Result, Here, RestingMatchesPose,
         IsStowed, Equal
    <3>. QED
      BY <2>2, <3>2, <3>3, GoalAcceptEvent
  <2>3. CASE CancelCallback
    BY <2>0, <2>3, UpdateResting DEF CancelCallback, Here, RestingMatchesPose
  <2>4. CASE TimeoutCallback
    <3>1. [Here EXCEPT !.timer = FALSE].val = val
      BY DEF Here
    <3>. QED
      BY <2>0, <2>4, <3>1, UpdateResting DEF TimeoutCallback,
         RestingMatchesPose
  <2>5. CASE WatchdogCallback
    BY <2>5 DEF WatchdogCallback, Resolved, RestingMatchesPose
  <2>6. ASSUME NEW s \in States, SetStateCallback(s) PROVE RestingMatchesPose'
    BY <2>6 DEF SetStateCallback, Resting, RestingMatchesPose
  <2>7. ASSUME NEW j \in Joints, DriverMove(j) PROVE RestingMatchesPose'
    BY <2>0, <2>7 DEF DriverMove, RestingMatchesPose, IsStowed, Equal
  <2>8. ASSUME NEW j \in Joints, NEW p \in HwPositions[j], ManualMove(j, p)
        PROVE RestingMatchesPose'
    BY <2>0, <2>8 DEF ManualMove, RestingMatchesPose, IsStowed, Equal
  <2>9. CASE UNCHANGED vars
    BY <2>0, <2>9 DEF vars, RestingMatchesPose, IsStowed, Equal
  <2>10. ASSUME NEW t \in TolChoices, ReconfigureCallback(t) PROVE RestingMatchesPose'
    <3>1. t = tol
      BY DEF RestInv
    <3>. QED
      BY <2>0, <2>10, <3>1 DEF ReconfigureCallback, RestingMatchesPose,
         IsStowed, Equal
  <2>11. ASSUME NEW c \in AllCommands, PreemptCallback(c) PROVE RestingMatchesPose'
    BY <2>0, <2>11, UpdateResting DEF PreemptCallback, Here, RestingMatchesPose
  <2>. QED
    BY <2>1, <2>2, <2>3, <2>4, <2>5, <2>6, <2>7, <2>8, <2>9, <2>10, <2>11
    DEF Next
<1>3. RestInv => RestingMatchesPose
  BY DEF RestInv
<1>. QED
  BY <1>1, <1>2, <1>3, TypeCorrect, PTL DEF Spec
=============================================================================
