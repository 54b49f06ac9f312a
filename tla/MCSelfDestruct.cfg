SPECIFICATION FairSpec
CONSTANTS
  NumStreams = 1
  MAX_CLIENTS = 2
  MAX_SOCKETS = 1
  Capabilities <- AllCapable
  Configured = {1}
  RtspTransports = {"unicast", "multicast", "tcp", "none"}
  GetTransports = {"multicast", "badMulticast", "none"}
  MaxSessions = 2
  MaxPeers = 2
PROPERTIES
  SelfDestructStops
