CONSTANTS
  Angles <- MC_Angles
  Tols <- MC_Tols
SPECIFICATION EqSpec
INVARIANT EqualIsCircular
