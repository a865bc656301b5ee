CONSTANTS
  TolChoices <- MC_TolFixed
  HwPositions <- MC_HwCore
  PanRequests <- MC_PanRequests
  TiltRequests <- MC_TiltRequests
  GripperRequests <- MC_GripperRequests
  Commands <- MC_CoreCommands
  ManualStates <- MC_NoStates
  Disturb = FALSE
SPECIFICATION Spec
INVARIANT TypeOK
INVARIANT NoOrphanCancellable
INVARIANT TimerWatchesAction
INVARIANT RestingMatchesPose
 
