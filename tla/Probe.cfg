\* The known device, and up to two answers or documents that differ.
SPECIFICATION Spec
CONSTANTS
  Numeral   <- MCNumeral
  Lowercase <- MCLowercase
  Split     <- MCSplit
  ReadEvent <- ParsePushEvent
  Ordinary  <- MCOrdinary
  Odd       <- MCOdd
  Bodies    <- MCBodies
  TooLong   <- MCTooLong
  Slots     <- MCSlots
  MaxOdd    = 2
INVARIANTS TypeOK CameraShowsEnabled NoPhantoms DoorsHaveLocks PushIsTruthful HostIsRecognised
           ReadsWhatIsThere
CHECK_DEADLOCK FALSE
