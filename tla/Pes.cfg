SPECIFICATION Spec
CONSTANTS
  Frames <- MCFrames
  MaxLength = 24
INVARIANTS
  ReadsBack
  DamageRefused
  PcrSurvives
CHECK_DEADLOCK FALSE
