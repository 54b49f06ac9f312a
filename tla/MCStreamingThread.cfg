SPECIFICATION FairSpec
CONSTANTS
  Helpers <- RtpHelpers
  CreateFails = TRUE
  MaxStarts = 1
INVARIANTS
  UpdateIsQuiet
PROPERTIES
  DestroyEnds
  ReadsAgain
