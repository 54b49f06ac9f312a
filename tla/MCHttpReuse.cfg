SPECIFICATION Spec
CONSTANTS
  NumStreams = 2
  MAX_CLIENTS = 1
  MAX_SOCKETS = 1
  Capabilities <- AllCapable
  Configured = {}
  RtspTransports = {"unicast"}
  GetTransports = {"multicast", "badMulticast", "none"}
  MaxSessions = 2
  MaxPeers = 2
INVARIANT
  HttpDataToRequester
