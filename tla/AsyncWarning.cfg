SPECIFICATION Spec
CONSTANT MaxCalls = 2
INVARIANT WorkerQueueDrained
CHECK_DEADLOCK FALSE
