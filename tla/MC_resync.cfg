CONSTANTS
  TolChoices <- MC_TolChoices
  HwPositions <- MC_HwNearStow
  PanRequests <- MC_OnePan
  TiltRequests <- MC_OneTilt
  GripperRequests <- MC_OneGripper
  Commands <- MC_ArmCommands
  ManualStates <- MC_ResyncStates
  Disturb = TRUE
SPECIFICATION Spec
PROPERTY RestingResync
