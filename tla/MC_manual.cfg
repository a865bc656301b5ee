CONSTANTS
  TolChoices <- MC_TolFixed
  HwPositions <- MC_HwCalibrated
  PanRequests <- MC_PanRequests
  TiltRequests <- MC_TiltRequests
  GripperRequests <- MC_GripperRequests
  Commands <- MC_CoreCommands
  ManualStates <- MC_NoStates
  Disturb = TRUE
SPECIFICATION Spec
INVARIANT RestingMatchesPose
INVARIANT CommandsInBounds
