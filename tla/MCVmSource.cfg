SPECIFICATION Spec
CONSTANTS
  Sources = {1, 2, 3, 4, 5}
  Config <- MCConfig
  Paths = {"people"}
  Contents <- MCContents
  Keys <- MCKeys
  MaxLookups = 3
INVARIANTS OneReading NothingOlder
