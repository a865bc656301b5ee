---------------------------- MODULE MC_ArmNodelet ----------------------------
(***************************************************************************)
(* Small instances of ArmNodelet for TLC.  Raw positions: pan 0 and 45     *)
(* degrees; tilt raw -90 and 90 (human 0 = deployed, 180 = stowed); the    *)
(* gripper raw 0 and 100 (20 % closed, 45 % open) and the uncalibrated     *)
(* sentinel -100.  Requests include one out-of-range value per axis and    *)
(* pan 45 with tilt 180, the pair the collision rule refuses.              *)
(***************************************************************************)
EXTENDS ArmNodelet

MC_Tol == [PAN |-> 1, TILT |-> 1, GRIPPER |-> 1]
MC_TolFixed == {MC_Tol}
MC_HwPositions == [PAN |-> {0, 45}, TILT |-> {-90, 90}, GRIPPER |-> {-100, 0, 100}]
\* The gripper uncalibrated or open only: still one pose with and one
\* without RequiresClosing.
MC_HwCore == [PAN |-> {0, 45}, TILT |-> {-90, 90}, GRIPPER |-> {-100, 100}]
\* The arm starts deployed with the gripper open (the liveness run: no one
\* moves the arm by hand, so this is only the initial pose; an uncalibrated
\* gripper adds only refusals, which end at once).
MC_HwDeployed == [PAN |-> {0}, TILT |-> {-90}, GRIPPER |-> {100}]
\* Hand moves among calibrated gripper poses only (the manual run; the
\* uncalibrated gripper is the core run's).
MC_HwCalibrated == [PAN |-> {0, 45}, TILT |-> {-90, 90}, GRIPPER |-> {100}]
\* Tolerances 1 and 10 degrees, and a tilt of raw 85 (human 175) that is
\* stowed under the wide tolerance only.
MC_TolChoices == {MC_Tol, [PAN |-> 10, TILT |-> 10, GRIPPER |-> 1]}
MC_HwNearStow == [PAN |-> {0}, TILT |-> {-90, 85}, GRIPPER |-> {0}]
MC_OnePan == {0}
MC_OneTilt == {180}
MC_OneGripper == {45}
MC_PanRequests == {0, 45, 100}
MC_TiltRequests == {0, 180, 200}
MC_GripperRequests == {45, 50}
\* In-range requests only, one of them refused for collision (pan 45 with
\* tilt 180): out-of-range requests are refused without moving anything.
\* The pan target differs from the stowed pan, so the pan really travels.
MC_LivePan == {45}
MC_LiveTilt == {0, 180}
MC_AllCommands == AllCommands
\* One command per GoalCallback branch (ARM_PAN and ARM_TILT share ARM_MOVE's
\* code, GRIPPER_OPEN and GRIPPER_CLOSE share GRIPPER_SET's), for the
\* liveness runs.
MC_BranchCommands == {"ARM_STOP", "ARM_DEPLOY", "ARM_STOW", "ARM_MOVE",
                      "GRIPPER_CALIBRATE", "GRIPPER_SET"}
\* The same and an unknown command (the INVALID_COMMAND branch), for core.
MC_CoreCommands == MC_BranchCommands \cup {"INVALID"}
\* The same without ARM_DEPLOY, whose hang the deployhang run shows: the
\* arm can start deployed, so every other action is still reached.
MC_NonDeployCommands == MC_BranchCommands \ {"ARM_DEPLOY"}
\* The commands that write pan and tilt goals (the joints IsStowed reads;
\* GRIPPER_CALIBRATE writes the tilt goal) and the stop, for the resync run.
MC_ArmCommands == {"ARM_STOP", "ARM_DEPLOY", "ARM_STOW", "ARM_MOVE",
                   "GRIPPER_CALIBRATE"}
\* An operator resynchronises by forcing INITIALIZING or UNKNOWN.
MC_ResyncStates == {"INITIALIZING", "UNKNOWN"}
\* An operator forcing any action state.
MC_ActionStates == ActiveStates
MC_NoStates == {}
=============================================================================
