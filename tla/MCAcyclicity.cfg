SPECIFICATION Spec
CONSTANTS
  Names <- MCNames
  Graphs <- MCGraphs
INVARIANTS TypeOK CleanIsAcyclic CycleIsReal PathFits
PROPERTY SearchEnds
CHECK_DEADLOCK FALSE
