SPECIFICATION Spec
CONSTANTS
  EndJumpCapacity = 64
  Stdlib <- MCStdlib
  Deps <- MCDeps
  Programs <- MCPrograms1
  SourceFiles <- MCSourceFiles
  Written <- MCWritten
  CutSizes = {0, 87, 88, 130}
INVARIANTS CheckedCompiles BodyChecked FormatKeepsProgram ReadsInStep LoadedAsWritten OnlyCompleteLoads
CHECK_DEADLOCK FALSE
