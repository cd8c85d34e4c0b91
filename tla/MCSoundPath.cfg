SPECIFICATION FairSpec
CONSTANTS
  Capacity = 16
  Modes = {"raw", "opus", "loopback"}
  FrameSize = 2
  BufferFrames = 3
  MaxBufferFrames = 7
  DeviceFrames = {1, 2, 4}
  Window = 1
CHECK_DEADLOCK FALSE
INVARIANT TypeOK
INVARIANT PlaysWholeFrames
INVARIANT RoomStays
PROPERTY SoundFlows
PROPERTY NeverHeldUp
