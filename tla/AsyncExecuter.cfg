SPECIFICATION FairSpec
CONSTANT MaxCalls = 4
INVARIANTS
  InOrderExactlyOnce
  RepliedBeforeCallback
  MainQueueDrained
PROPERTIES
  ImplementsAsyncCalls
  CallsReturn
  SignalDrains
  RepliesDelivered
CHECK_DEADLOCK FALSE
