SPECIFICATION FairSpec
CONSTANTS
  Players = {0, 1}
  MaxPending = 3
INVARIANTS
  OwnLogin
  ConnectedKnown
  LoggedInOrAsking
PROPERTIES
  LoginKeptAcrossLevels
  LogoutHasReason
  LoginArrives
