SPECIFICATION FairSpec
CONSTANTS
  Backends = {"pulseaudio", "portaudio"}
  Moves = 2
CHECK_DEADLOCK FALSE
INVARIANT TypeOK
INVARIANT ReportsOnce
INVARIANT AllOrNothing
PROPERTY ImplementsAudioStream
PROPERTY CrashesOnlyInTeardown
PROPERTY NameDanglesOnlyWhileMoving
PROPERTY CallsReturn
