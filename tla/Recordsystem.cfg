SPECIFICATION FairSpec
CONSTANTS
  LinesPerFrame = 2
  ReplyLines = {1, 3}
  MaxCalls = 3
  MaxLines = 3
INVARIANTS
  MisuseHasCause
  PrintedInOrder
PROPERTIES
  PlaysOnLiveObjects
  ReplyShown
