SPECIFICATION MCSpec
CONSTANTS
  N = 3
  K = 2
  B = 2
  Contents <- MCContents
  MaxRead = 4
  MaxRestarts = 1
  TsPackets = 7
  P = 2
  Word = 61
  MaxCuts = 2
INVARIANTS
  NoOrphan
  FilterReaches
  Resyncs
PROPERTIES
  SentDecrypted
  QueueSpec
CHECK_DEADLOCK FALSE
