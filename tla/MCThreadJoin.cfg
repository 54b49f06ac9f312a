SPECIFICATION Spec
CONSTANTS
  Helpers <- HttpHelpers
  CreateFails = FALSE
  MaxStarts = 1
INVARIANT
  JoinWaits
