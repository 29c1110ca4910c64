CONSTANTS
  Functions = {"f", "g"}
  Operators = {"+", "@", "|"}
  Names = {"x", "y", "z"}
  Native = {"+"}
  Process = {"g"}
  Standard <- McStandard
  Runtime <- McRuntime
  Items <- McItems
  MaxItems = 3
  None = None
SPECIFICATION Spec
CHECK_DEADLOCK FALSE
INVARIANT BinaryOperatorFound
