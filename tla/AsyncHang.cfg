SPECIFICATION FairSpec
CONSTANT MaxCalls = 1
PROPERTY DestructorReturns
CHECK_DEADLOCK FALSE
