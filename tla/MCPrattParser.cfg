SPECIFICATION FairSpec
CONSTANTS
  Null = Null
  Names = {"a"}
  Numbers = {"1"}
  Operators = {"=", "-", "*", "@", "<="}
  TwoChar = {"<="}
  Precedence <- McPrecedence
  Inputs <- McInputs
  MaxLength = 6
INVARIANTS
  TypeOK
  RecursionConsumes
  AcceptsExpressions
  TakesLongestExpression
PROPERTY
  Terminates
CHECK_DEADLOCK FALSE
