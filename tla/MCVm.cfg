SPECIFICATION FairSpec
CONSTANTS
  StringOrder <- MCStringOrder
  MaxNumeral = 9
  Packets <- MCPackets
  MaxIterDepth = 2
  MaxTag = 1
  StdlibResults = {"error", "a"}
INVARIANT TypeOK
INVARIANT FramesNested
PROPERTY LibraryAnswers
PROPERTY Terminates
CHECK_DEADLOCK FALSE
