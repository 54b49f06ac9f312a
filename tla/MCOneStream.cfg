SPECIFICATION FairSpec
CONSTANTS
  NumStreams = 1
  MAX_CLIENTS = 2
  MAX_SOCKETS = 1
  Capabilities <- OneOrNone
  Configured = {1}
  RtspTransports = {"unicast", "multicast", "tcp", "none"}
  GetTransports = {"multicast", "badMulticast", "none"}
  MaxSessions = 2
  MaxPeers = 2
INVARIANTS
  FreeStreamIsIdle
  NoStuckPause
PROPERTIES
  TornDownWhole
  DisabledIsFreed
  SilentSessionEnds
