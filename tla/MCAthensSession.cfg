CONSTANTS
  Functions = {"f", "g"}
  Operators = {"+", "@", "|"}
  Names = {"x", "y", "z"}
  Native = {"+"}
  Process = {"g"}
  Standard <- McStandard
  Runtime <- McRuntime
  Items <- McItems
  MaxItems = 4
  None = None
SPECIFICATION Spec
CHECK_DEADLOCK FALSE
INVARIANTS
  TypeOK
  ModuleHoldsNoBody
  CallableHasCode
  ActiveOperatorHasFunction
  OperatorLostOnlyByFailure
  CallsMatchDefinitions
PROPERTY RunnableStaysRunnable
