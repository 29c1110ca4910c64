SPECIFICATION Spec
CONSTANTS
  Null = Null
  Names = {"a", "b"}
  Numbered <- McNumbered
  Backends = {"Athens", "Berlin", "Cairo"}
  Programs <- McPrograms
  Trees <- McTrees
  Depth = 4
INVARIANTS
  TypeOK
  PhisMatchBranches
  EveryBlockEndsOnce
  ScopesAreLexical
  RejectsOnlyUnbound
CHECK_DEADLOCK FALSE
