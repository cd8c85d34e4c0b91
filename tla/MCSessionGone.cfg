SPECIFICATION FairSpec
CONSTANTS
  c1 = c1
  NoClient = NoClient
  Clients = {c1}
  ClientTypes = {3}
  ServerTypes = {3}
  Codecs = {FALSE}
  MAX_RETRY = 0
  Window = 1
  Faults = {"crash", "device", "stop", "signalServer"}
CHECK_DEADLOCK FALSE
PROPERTY SignalledServerExits
PROPERTY GoneClientFreesServer
PROPERTY GoneServerFreesClients
PROPERTY SoundArrives
