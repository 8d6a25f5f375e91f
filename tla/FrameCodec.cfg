SPECIFICATION FairSpec
CONSTANTS
  DigitBits = 2
  WordBits = 5
  ShiftBits = 4
  FramesToSend <- SomeFrames
  Capacity = 5
  MaxFrames = 3
INVARIANTS
  FramesWhole
  ShiftDefined
PROPERTIES
  ImplementsFrameChannel
  FrameArrives
CHECK_DEADLOCK FALSE
