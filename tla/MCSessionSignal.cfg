SPECIFICATION FairSpec
CONSTANTS
  c1 = c1
  NoClient = NoClient
  Clients = {c1}
  ClientTypes = {3}
  ServerTypes = {3}
  Codecs = {FALSE, TRUE}
  MAX_RETRY = 0
  Window = 1
  Faults = {"codec", "device", "signalClient"}
CHECK_DEADLOCK FALSE
PROPERTY SignalledClientExits
