CONSTANTS
  TolChoices <- MC_TolFixed
  HwPositions <- MC_HwPositions
  PanRequests <- MC_PanRequests
  TiltRequests <- MC_TiltRequests
  GripperRequests <- MC_GripperRequests
  Commands <- MC_AllCommands
  ManualStates <- MC_NoStates
  Disturb = FALSE
SPECIFICATION Spec
PROPERTY ActionTerminates
