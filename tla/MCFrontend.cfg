SPECIFICATION MCSpec
CONSTANTS
  AllPids = 2
  LastLow = 0
  UserPids <- Pid0
  OscamPids <- Pid1
  Requests <- AllRequests
  DeviceFails = TRUE
  Signals <- MCSignals
  Scales = {"decibel", "none"}
  MaxStored = 2
INVARIANTS
  NoStrayFilter
  WantedIsFiltered
  SignalIsMeasured
