SPECIFICATION Spec
CONSTANTS
  Null = Null
  Names = {"a", "b"}
  Numbered <- McNumbered
  Backends = {"Athens"}
  Programs <- McPrograms
  Trees <- McTrees
  Depth = 4
INVARIANTS
  ArgumentsAreRecorded
CHECK_DEADLOCK FALSE
