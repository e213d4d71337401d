SPECIFICATION Spec
CONSTANTS
  Names <- MCNames
  Folders <- MCFolders
  Main = "main"
  CheckerLibrary <- MCCheckerLibrary
  ToolLibrary <- MCCompilerLibrary
  CompilerLibrary <- MCCompilerLibrary
  MaxDeps = 3
  MaxNesting = 6
INVARIANTS DependenciesComplete CheckedCallsResolve
PROPERTY AcyclicCompiles
CHECK_DEADLOCK FALSE
