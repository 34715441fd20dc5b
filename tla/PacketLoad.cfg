SPECIFICATION Spec
CONSTANTS
  PacketSize = 188
  Frames <- MCFrames
  Tails = {0, 187}
  MaxFrames = 3
  MaxBlind = 2
INVARIANTS
  SoundPrefixLoads
  FailsForCause
  NothingBehindBadField
CHECK_DEADLOCK FALSE
