SPECIFICATION FairSpec
CONSTANTS
  Frames <- MCFrames
  Size <- MCSize
  HeadSize = 1
  Requests <- MCRequests
  Backlog = 2
  Modes = {"opus", "raw", "mixed"}
INVARIANT TypeOK
INVARIANT ReadIsExact
INVARIANT FramesWhole
PROPERTY ImplementsFrameQueue
PROPERTY ClosedPeerEnds
