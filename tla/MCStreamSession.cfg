SPECIFICATION Spec
CONSTANTS
  NumStreams = 2
  MAX_CLIENTS = 2
  MAX_SOCKETS = 1
  Capabilities <- MixedCapable
  Configured = {}
  RtspTransports = {"unicast"}
  GetTransports = {"multicast", "none"}
  MaxSessions = 2
  MaxPeers = 2
INVARIANTS
  NoOrphan
PROPERTIES
  PoolSpec
