# TLA+ models of the arm behaviour (`src/behaviors/arm/src/arm_nodelet.cc`)

The arm nodelet turns arm goals from one caller into single-joint commands for
a pan/tilt/gripper driver. It watches joint telemetry to decide when each
sub-action is done, and it answers the caller with exactly one result per goal.
It is a single ROS nodelet, and every callback runs to completion on one
callback queue. So each callback is one atomic step of the models.

## The system and its parts

| Part (spec name) | Code | Module |
|---|---|---|
| JointRegistry: joints, constants, conversions, `Equal`, `IsStowed`, `RequiresClosing`, the collision rule | `JointInfo`, `Initialize`, `Equal`, `IsStowed`, `RequiresClosing`, lines 813-816, `K_*` | `ArmJoints` |
| ActuationGateway: one joint command plus a restarted goal timer | `Arm` | `ArmFSM` |
| ArmStateMachine: the 26 rows of the table, `Result`, the `fsm_.Update` lookup | constructor, `Result` | `ArmFSM` |
| TelemetryIngestor: conversion, watchdog restart, completion events | `JointStateCallback` | `ArmNodelet` |
| GoalArbiter: goal validation, cancel, preempt | `GoalCallback`, `CancelCallback`, `PreemptCallback` | `ArmNodelet` |
| Timers | `TimeoutCallback`, `WatchdogCallback` | `ArmNodelet` |
| Manual override | `SetStateCallback` | `ArmNodelet` |
| Reconfiguration of the tolerances | `ReconfigureCallback`, the tolerance reads of `Initialize` | `ArmNodelet` (`tol` declared in `ArmJoints`) |
| Joint driver and people near the arm (not in this repository) | (spec) | `ArmNodelet` (`DriverMove`, `ManualMove`) |

How the parts interact:

1. A goal arrives at `GoalCallback`, which checks it and writes joint goals.
2. `GoalCallback` raises an event; `fsm_.Update` runs the row for the current state.
3. An `Arm` row publishes one joint command and restarts the goal timer.
4. The driver moves the joint; telemetry updates the values.
5. `JointStateCallback` raises `*_COMPLETE` once the awaited joint is `Equal` to its goal.
6. The next row either commands the next joint or calls `Result`. `Result` snaps every goal to its value, answers the caller if the state it leaves is an action state, and returns STOWED or DEPLOYED. A link loss returns INITIALIZING instead.

A `TIMEOUT` (from the goal timer) or a `GOAL_CANCEL` (from cancel, preempt or
`ARM_STOP`) fails the sub-action. The deploy states have no such row. The
watchdog fires when telemetry stops, whatever the state.

A goal sent while another is active reaches the nodelet as two callbacks:
`PreemptCallback` (line 886, `GOAL_CANCEL`), then `GoalCallback` with the new
goal. The action server (`ff_util`) is not in this repository. This delivery
order is taken from the spec (section 108: a new command first preempts the
one in flight).

### Modules

- **`ArmJoints`** (definitions, and the variable `tol`: the per-joint tolerances `joints_[j].tol`).
  - Numbers are integers. Pan and tilt use 1 driver unit = 1 degree, because the code's `K_RADS_TO_DEGS` is irrational. The offsets are kept, so tilt still converts with +90.
  - The gripper keeps its exact scale 25/100. `\div` stands in for the floating-point division.
  - `ToHuman` keeps the -100 sentinel of an uncalibrated gripper.
  - `WithinTol` is the code's `180 - ||a-b| - 180| < tol`.
- **`ArmFSM`** (variables `state`, `val`, `goal`, `cmd`, `goalTimer`, `srv`).
  - Rows that call `Arm` are tuples `<<from, event, joint, to>>` (`ArmRows`). The stow row depends on `RequiresClosing`.
  - Rows that return `Result(code)` are `<<from, events, code>>` (`ResultRows`).
  - `Update(e, pre)` is the lookup. `pre` carries what the handler wrote before calling `fsm_.Update`: values, goals, timer, action-server status. `Update` fixes every variable of the module.
  - `Arm` and `Result` are the two side effects. Result's commented-out `Arm` calls are left out, as in the code.
  - `srv` is the action server: `"ACTIVE"` while a goal awaits its result.
- **`ArmNodelet`** (adds `pos`, the physical joint positions, `watchdog`, and `pending`, the goal the action server holds between a preemption and its delivery).
  - It has one action per callback:
    - `JointStateCallback(S)` for a batch carrying the joints `S`;
    - `GoalCallback(c)`, which dispatches to `GoalStop`, `GoalDeploy`, `GoalStow`, `GoalMove`, `GoalCalibrate`, `GoalGripper`, or `Reject`;
    - `CancelCallback`, and `PreemptCallback(c)`: the same `GOAL_CANCEL`, caused by goal `c`, which is then `pending`;
    - `Deliver`: `GoalCallback(pending)`. While a goal is pending nothing else runs, because the server calls the two callbacks back to back;
    - `TimeoutCallback`, `WatchdogCallback` and `SetStateCallback(s)`;
    - `ReconfigureCallback(t)`: in DEPLOYED, STOWED or UNKNOWN the tolerances become the vector `t` of the constant set `TolChoices`. A failed reconfiguration re-reads the old values, which is the choice `t = tol`. Nothing is re-evaluated against the new tolerances.
  - `Init` picks the tolerances Initialize reads from `TolChoices`.
  - The environment has two actions:
    - `DriverMove(j)`: the driver brings joint `j` to its last command. It has no fairness, so the driver may stall.
    - `ManualMove(j, p)`: only when `Disturb` holds; never into a self-collision.
  - `GoalCallback(c)` runs either for a goal sent while none is active (`srv = "IDLE"`), or as the delivery of the pending goal. In the second case it may refuse the goal (`Reject`, `srv' = "IDLE"`) whatever the preemption left behind.
- **`EqualCheck`**: `Equal` for every joint against the reference circular distance `CircDist`.
- **`MC_ArmNodelet`, `MC_EqualCheck`**: the constants for TLC.
- **`ArmNodeletProofs`, `ArmTimerProofs`, `ArmBoundsProofs`, `ArmRestingProofs`, `EqualCheckProofs`**: the TLAPS proofs.

## Runs

The safety runs of `MC_ArmNodelet` (core, manual and the violation runs) use
these inputs:

- tolerance 1 for every joint, and it never changes (`TolChoices` is the singleton `MC_TolFixed`, so `ReconfigureCallback` rewrites the same values);
- raw start/manual positions pan {0, 45}, tilt {-90, 90} (human 0 and 180), gripper {-100, 0, 100} (uncalibrated, 20, 45). Core drops gripper 0 (`MC_HwCore`): 100 still gives a pose with `RequiresClosing` and -100 one without;
- pan requests {0, 45, 100}, tilt requests {0, 180, 200}, gripper requests {45, 50};
- every command, both as a goal and as a preemption. Core and manual take one command per branch of `GoalCallback` plus `INVALID` (`MC_CoreCommands`): `ARM_PAN` and `ARM_TILT` run `ARM_MOVE`'s code, and `GRIPPER_OPEN` and `GRIPPER_CLOSE` run `GRIPPER_SET`'s.

Nobody moves the arm by hand in core. The manual run lets people move any joint
between any two callbacks, among the poses with a calibrated gripper
(`MC_HwCalibrated`). Both together would exceed the time a run may take; the
uncalibrated gripper is core's.

These bounds make every guard go both ways:

- an in-range and an out-of-range pan, tilt and gripper request;
- a tilt above `K_TILT_SAFE` with pan at and away from stow;
- the stowed pose and a deployed pose;
- an uncalibrated and a calibrated gripper, with and without `RequiresClosing`;
- a preemption in every action state, the deploy states included.

Batches may carry any non-empty subset of the joints.

The liveness runs cost more per state, so they take smaller inputs:

- **live** takes one command per branch of `GoalCallback` (`ARM_PAN` and `ARM_TILT` run `ARM_MOVE`'s code, and `GRIPPER_OPEN` and `GRIPPER_CLOSE` run `GRIPPER_SET`'s), without `ARM_DEPLOY`, whose hang is the deployhang run. It uses in-range requests: pan 45, tilt {0, 180}, gripper 45. Pan 45 with tilt 180 is the refused collision, and pan 45 makes the pan really travel. The arm starts deployed with the gripper open. Nobody moves it by hand, so that is only the initial pose.
- **resync** asks a question about tolerances. It takes two tolerance vectors (1 and 10 degrees for pan and tilt), raw positions pan {0}, tilt {-90, 85} (human 0 and 175), gripper {0}, and one request per axis. A tilt of 175 counts as stowed under the wide tolerance only; without this the tolerance change would never matter. Its commands are those that write pan or tilt goals, plus `ARM_STOP`. `SetState` may force INITIALIZING or UNKNOWN, which is how an operator resynchronises.

| Run | cfg | Expect | Shows |
|---|---|---|---|
| core | `MC_core.cfg` | pass (1,419,273 states) | `TypeOK`, `NoOrphanCancellable`, `TimerWatchesAction`, `RestingMatchesPose` and `CommandsInBounds` hold with every callback, every preemption and a stalling driver. |
| manual | `MC_manual.cfg` | pass (819,637 states) | `RestingMatchesPose` and `CommandsInBounds` still hold when people move the arm by hand between callbacks. |
| live | `MC_live.cfg` | pass (337,366 states) | `NonDeployActionTerminates`: every action other than a deploy ends, even when the driver stalls and callers keep preempting. |
| resync | `MC_resync.cfg` | pass (160,350 states) | `RestingResync`: a resting state that disagrees with the pose is corrected by later telemetry. The disagreement happens: with `RestingMatchesPose` as an invariant, this configuration is violated in four steps by `ReconfigureCallback` widening the tolerance in DEPLOYED. |
| equal | `MC_equal.cfg` | pass (1,875 states) | `EqualIsCircular`: `Equal`, for every joint, is the circular distance for values within one turn (-180..180, step 15, tolerances 1, 10, 20). |
| collision | `MC_collision.cfg` | violation | `NoSelfCollision` (see "Findings" below). |
| stop | `MC_stop.cfg` | violation | `NoForgottenGoal` (see "Findings" below). |
| hold | `MC_hold.cfg` | violation | `HeldAfterResolve` (see "Findings" below). |
| calibtilt | `MC_calibtilt.cfg` | violation | `CommandsInBounds` once `SetState` may force action states. |
| deployhang | `MC_deployhang.cfg` | violation | `ActionTerminates` (see "Findings" below). |
| orphan | `MC_orphan.cfg` | violation | `NoOrphanAction`: an action state without an active goal (see "Findings" below). |

Each property of a passing run has a mutant in `PROJECT.json`: an operator
defined just before the mutated definition, breaking it the way a plausible
bug would. Each mutant makes TLC report the property violated. Two examples:

- `PreemptIgnored`, a preemption that raises nothing, breaks `NoOrphanCancellable`;
- `JointStateCallbackEagerStop`, which stops the goal timer on every batch in an action state, breaks `TimerWatchesAction`.

### Fairness

`Spec` assumes strong fairness on `TimeoutCallback` and on `Telemetry`, weak
fairness on `Deliver`, and nothing else:

- ROS one-shot timers fire once their period has passed.
- The driver publishes joint states continuously, so a batch that would change the nodelet's state is eventually delivered.
- Fairness on these two must be strong. A caller that keeps preempting disables both while each new goal is pending. With weak fairness, TLC finds such a caller starving telemetry in the resync run. The code rules this out: the nodelet's callbacks are served in order from one queue, so a timer event or a message already queued runs before goals sent after it.
- The server calls `GoalCallback` right after the `PreemptCallback` it caused.
- There is no fairness on `DriverMove`: the arm may be blocked.
- There is none on the watchdog either: fairness there would force link loss while telemetry flows.
- There is none on the callers: they may do nothing.
- There is none on `ReconfigureCallback`, `SetStateCallback` or `ManualMove`: these come from people.

`RestingResync` rests on the fairness of `Telemetry`. A resting state that disagrees with the values stays enabled for a batch that raises STOWED or DEPLOYED, until something else repairs it. That is what a driver publishing continuously guarantees.

## Findings

1. **Pan before tilt (code bug).**
   - The cause: `GoalCallback` checks only the target pose for collision (line 813), while row 15 pans first (line 237).
   - The trace: from a pose with tilt 180, `ARM_MOVE(45, 0)` is accepted and the arm pans to 45 with tilt still at 180.
   - The shortest trace also shows a second cause. A batch that does not carry pan and tilt classifies the arm from zero-initialised values, as DEPLOYED.
2. **`ARM_STOP` is never answered** (line 765). Resting states have no `GOAL_CANCEL` row, so the nodelet never sends the goal a result. It stays active until the caller cancels it or a later goal preempts it. This contradicts spec section 6.
3. **No hold command on resolution** (line 528). The `Arm` calls in `Result` are commented out, so after a cancel or timeout the driver keeps its last target. This contradicts spec section 7.
4. **Calibrate writes the tilt goal** (line 828). Spec section 9 flags it. The -100 reaches the driver once `SetState` moves the machine to PANNING.
5. **Deploys cannot time out or be cancelled** (lines 146-160). With a stalled driver the deploy never ends. This contradicts spec section 7.
6. **A preempted deploy outlives its goal** (line 881). The trace:
   - A caller starts ARM_DEPLOY and then sends any goal while the deploy runs.
   - `PreemptCallback` raises `GOAL_CANCEL`. DEPLOYING_PANNING has no row for it, so nothing happens.
   - `GoalCallback` then refuses the new goal (`NOT_ALLOWED`, since the state is not a resting one), and `Result(..., true)` releases the server.
   - The arm keeps deploying, and no goal remains to answer or cancel it.
   - This contradicts spec section 108 (a new command first preempts the one in flight). It is why `NoOrphanAction` fails and only `NoOrphanCancellable` (every action state but the deploys) holds.

## Proofs (checked by `tlapm`)

### `ArmNodeletProofs`

- **`TypeCorrect`: `Spec => []TypeOK`**
  - It holds for all constants satisfying `ConstantsAssumption`.
  - TypeOK is inductive: `InitTyped` covers the initial states and `NextTyped` covers each step. The proof has one step per action and rests on these lemmas:
    - `ToDriverInt` and `ToHumanInt`: the conversions stay in `Int`;
    - `ArmRowFacts`: every row leads to a state and names a joint or none;
    - `ResolvedFacts`: `Result` picks a resting state;
    - `UpdateTyped`: all three branches of the lookup;
    - `AcceptTyped` and `RejectTyped`;
    - `TelemetryTyped` and `GoalTyped`;
    - `GoalDispatch`: the command dispatch.
- **`NoOrphanCancellableHolds`**
  - Statement: assuming `ManualStates \cap Cancellable = {}`, `Spec => []NoOrphanCancellable`. `Cancellable` is every action state but DEPLOYING_PANNING and DEPLOYING_TILTING.
  - `NoOrphanCancellable` is not inductive on its own. A delivered goal that `GoalCallback` refuses sets `srv` to IDLE in whatever state the preemption left. The inductive invariant `CancellableInv` therefore adds `PreemptSafe`: while a goal is pending, the state is not cancellable. TLC checked `CancellableInv` as an invariant on the core instance before the proof.
  - The argument:
    - An arm row enters an action state from outside one only on a goal event (`ArmRowFacts`). Only an accepting goal handler raises one, and it sets `srv` to `"ACTIVE"` (`GoalAcceptOrReject`, `UpdateCancellable`).
    - A row from a deploy state stays in the deploy states, so no row leads from a goal-less deploy into a cancellable state (`ArmRowCancellable`).
    - Telemetry raises no goal event in any state (`ObservedNeverGoal`).
    - Every `Result` row leaves the action states.
    - `GOAL_CANCEL` has no arm row, and every cancellable state has a `TIMEOUT | GOAL_CANCEL` Result row. So a preemption leaves no cancellable state (`CancelLeaves`), which is `PreemptSafe`.
    - `Reject` runs with no goal active, or right after a preemption; in both cases the state is not cancellable.
  - The assumption is needed: the calibtilt run shows what `SetState` into an action state does.
  - The deploy states are excluded because the statement is false there (finding 6).

### `ArmTimerProofs`

- **`TimerWatchesActionHolds`**
  - Statement: assuming `ManualStates \cap Cancellable = {}`, `Spec => []TimerWatchesAction`.
  - The inductive invariant is `TypeOK /\ TimerWatchesAction`.
  - The subtle step is telemetry. `JointStateCallback` stops the timer before it raises a completion, so the row that completion matches must restart the timer or end the action. The lemmas:
    - `ObservedHandled`: in a cancellable state, every event telemetry raises has a row.
    - `ArmRowTimed`: a row into an action state calls `Arm` on a joint, and `Arm` restarts the timer.
    - `UpdateTimer` lifts these to the lookup.
  - A timeout, cancel or preemption in a cancellable state always matches a Result row (`CancellableHasFailRow`, `CancelLeaves`).

### `ArmBoundsProofs`

- **`CommandsInBoundsHolds`**
  - Statement: assuming `ManualStates \cap ActiveStates = {}`, `Spec => []CommandsInBounds`.
  - Constant assumptions: `ConstantsAssumption` and `HwWithinLimits`. The second says every position in `HwPositions` converts to an angle within the limits: the hardware cannot be placed outside them.
  - `CommandsInBounds` alone is not inductive. `Arm` sends the goal of the state its row runs in, and `Result` and ARM_STOP copy the observed values into the goals. The inductive invariant `BoundsInv` therefore adds three facts:
    - the human pose of `pos` is within limits;
    - the pan and tilt values `val` are within limits;
    - in the states whose rows command pan or tilt (`PanTiltStates`), the goals are within limits.
  - The argument:
    - `RoundTrip`: the human value of `ToDriver(h)` is `h` for pan and tilt.
    - `ArmRowBounds`: a row that commands pan or tilt, or enters a `PanTiltStates` state, runs in such a state or is raised by a goal. GOAL_SET and GOAL_CALIBRATE command only the gripper. This is why the out-of-range tilt goal that calibrate writes never reaches the driver.
    - `UpdateBounds`, `AcceptBounds`, `RejectBounds` and `GoalBounds`: deploy and stow goals are constants within limits, and moves pass `MoveValid`.
  - The assumption on `SetState` is needed: calibtilt is the counterexample.

### `ArmRestingProofs`

- **`RestingMatchesPoseHolds`**
  - Statement: assuming that `TolChoices` is a singleton and that `ManualStates \cap Resting = {}`, `Spec => []RestingMatchesPose`.
  - Both assumptions are needed:
    - With two tolerance vectors, the resync run breaks the invariant in four steps: `ReconfigureCallback` widens the tolerance while the arm is in DEPLOYED.
    - `SetState` writes the state without looking at the pose.
  - The core run satisfies both assumptions.
  - `RestingMatchesPose` alone is not inductive. A reconfiguration step preserves it only when it writes the tolerances `IsStowed` already read. The inductive invariant `RestInv` therefore adds `tol \in TolChoices`. TLC checked `RestInv` as an invariant before the proof, on the core instance and on the near-stow instance with tolerance 10.
  - The argument:
    - `ObservedResting`: telemetry raises STOWED only on a stowed pose and DEPLOYED only on one that is not. In STOWED it stays put only on a stowed pose, and likewise in DEPLOYED.
    - `ArmRowResting`: only the background rows enter a resting state, on the event of the same name.
    - `Result` picks the resting state from the values it leaves in `val`.
    - `GoalAcceptEvent`: goal handlers raise goal events or GOAL_CANCEL, never STOWED or DEPLOYED, and they keep `val`.
    - `UpdateResting`: the lookup combines these.

### `EqualCheckProofs`

- **`EqualIsCircularHolds`: `EqSpec => []EqualIsCircular`**
  - It holds for every `Angles \subseteq -180..180` and `Tols \subseteq Nat` (`EqualCheckAssumption`), not only for the 15-degree grid of the equal run.
  - The lemma `WithinTolCircular` holds for any two integers at most 360 apart:
    - below 180 apart, both the formula and `CircDist` give `|x - y|`;
    - above 180, both give `360 - |x - y|`;
    - at 360, both give 0.
  - Beyond one turn the formula would be wrong. The lemma's hypothesis `Abs(x - y) <= 360` marks exactly where. Readings and goals of one joint are never that far apart.

### What only TLC checks

These are out of this prover's reach:

- The liveness properties (`NonDeployActionTerminates`, `RestingResync`): proving them needs fairness and reasoning about ENABLED, and TLAPS 1.4.5 cannot handle either.
- The violation runs: a counterexample is a finding, not a theorem.
- `RestingMatchesPose` with reconfiguration to other tolerances: it is false there (run resync), and only `RestingResync` holds.

## Not modelled

- **Configuration loading.** `Initialize` fails fatally on a missing joint. The model keeps only the tolerances it reads.
- **Status publishing.** `UpdateCallback`, joint samples and feedback are output only.
- **Real-number arithmetic.** The irrational pan/tilt scale and floating-point noise are replaced by integers.
- **Stale ROS events.** A timer event queued before `stop()` and delivered afterwards is not modelled, because roscpp discards the pending callbacks of a stopped timer. Each timer firing is atomic with the state it reads.
- **The action server.** Only the behaviour the nodelet sees is modelled: one goal at a time (`srv`), and a goal sent during another delivered as preemption then goal (`pending`).

## Plan for later work

- Give the driver an abstract specification (a position controller) and refine it.
- State what the caller sees as an abstract goal lifecycle (each accepted goal gets one result) and show the nodelet refines it. With preemption this takes an abstract step for an action that outlives its goal (finding 6).
