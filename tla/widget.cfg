SPECIFICATION Spec
SYMMETRY Users
CONSTANTS
  None = None
  TokenUrls = {ann, bob}
  MaxTurns = 2
  MaxFetches = 2
  MaxCalls = 4
INVARIANTS
  RepliesInPlace
  HistoryIsSpoken
  NothingWaitsAlone
  LeftoversAreLate
  OneRenewal
CHECK_DEADLOCK FALSE
