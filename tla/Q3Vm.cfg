SPECIFICATION Spec
CONSTANTS
  Code <- GameCode
  DataWords = 56
  StackWords = 0
  Params = 12
  WordBits = 16
  Commands = {0, 1}
  Arguments = {0, 2}
  TrapValues = {1, 4}
  Contents = {7}
  Written <- GameWritten
  Shared = {0}
  MaxDepth = 2
INVARIANTS TypeOK CodeKeepsConvention ArgumentsKept ResultIsOwn
PROPERTIES RegistersRestored
