SPECIFICATION Spec
CONSTANTS
  AllPids = 2
  LastLow = 0
  UserPids <- Pid0
  OscamPids <- Pid1
  Requests <- AllRequests
  DeviceFails = FALSE
INVARIANT
  RequestOpens
