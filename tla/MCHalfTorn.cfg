SPECIFICATION Spec
CONSTANTS
  NumStreams = 1
  MAX_CLIENTS = 2
  MAX_SOCKETS = 1
  Capabilities <- AllCapable
  Configured = {1}
  RtspTransports = {"unicast"}
  GetTransports = {"none"}
  MaxSessions = 1
  MaxPeers = 2
PROPERTY
  UpdateStreams
