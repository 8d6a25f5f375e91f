SPECIFICATION FairSpec
CONSTANTS
  Callers = {c1, c2}
  MaxItems = 3
INVARIANTS
  NeverSleepsOnWork
PROPERTIES
  ImplementsAsyncCalls
  EveryItemStarts
CHECK_DEADLOCK FALSE
