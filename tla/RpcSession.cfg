SPECIFICATION Spec
CONSTANTS
  Servers = {s1, s2}
  Conns = {k1, k2}
  Addresses = {a1, a2}
  Methods = {"Register", "Command"}
  MaxCalls = 2
INVARIANTS
  SessionIsOwn
  CommandIsRegistered
