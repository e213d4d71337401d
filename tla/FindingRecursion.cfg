SPECIFICATION Spec
CONSTANTS
  Names <- MCNames
  Folders <- MCFolders
  Main = "main"
  CheckerLibrary <- MCCheckerLibrary
  ToolLibrary <- MCCompilerLibrary
  CompilerLibrary <- MCCompilerLibrary
  MaxDeps = 3
  MaxNesting = 6
INVARIANT NoRecursion
CHECK_DEADLOCK FALSE
