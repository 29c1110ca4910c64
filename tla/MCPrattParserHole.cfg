SPECIFICATION Spec
CONSTANTS
  Null = Null
  Names = {"a"}
  Numbers = {"1"}
  Operators = {"=", "-", "*", "@", "<="}
  TwoChar = {"<="}
  Precedence <- McPrecedence
  Inputs <- McInputs
  MaxLength = 5
INVARIANTS
  NullInitializerIsAbsent
CHECK_DEADLOCK FALSE
