SPECIFICATION Spec
CONSTANTS
  c1 = c1
  NoClient = NoClient
  Clients = {c1}
  ClientTypes = {0, 1, 2, 3}
  ServerTypes = {0, 1, 2, 3}
  Codecs = {FALSE, TRUE}
  MAX_RETRY = 1
  Window = 2
  Faults = {"bind", "accept", "start", "codec", "crash", "signalClient", "signalServer"}
CHECK_DEADLOCK FALSE
INVARIANT TypeOK
INVARIANT PeersAgree
INVARIANT ReadsAreFrames
INVARIANT EndsForAReason
INVARIANT NothingLeftRunning
INVARIANT TasksOwnTheirHalf
PROPERTY ImplementsAudioLinks
