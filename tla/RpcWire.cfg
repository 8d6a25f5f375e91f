SPECIFICATION FairSpec
CONSTANTS
  Servers = {s1}
  Conns = {k1}
  Addresses = {a1}
  Methods = {"Printf", "Register", "Unknown"}
  MaxCalls = 4
INVARIANTS
  NilIsOwnAnswer
  ServedInOrder
  ClientFraming
PROPERTIES
  CallReturns
  SessionsEnd
