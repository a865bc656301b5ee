CONSTANTS
  TolChoices <- MC_TolFixed
  HwPositions <- MC_HwDeployed
  PanRequests <- MC_LivePan
  TiltRequests <- MC_LiveTilt
  GripperRequests <- MC_OneGripper
  Commands <- MC_NonDeployCommands
  ManualStates <- MC_NoStates
  Disturb = FALSE
SPECIFICATION Spec
PROPERTY NonDeployActionTerminates
