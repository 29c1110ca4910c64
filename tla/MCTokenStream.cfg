CONSTANTS
  MaxLength = 4
  MaxLookahead = 1
  MaxTaken = 3
  NoAnswer = NoAnswer
  NoOperation = NoOperation
  Char <- McAlphabet
  Inputs <- McInputs
  Newline = "LF"
  NUL = "NUL"
  Blank = {" "}
  Digit = {}
  Dot = "."
  Alnum = {"i"}
  DigitValue = 0
  MaxInteger = 0
  IdentStart = {"_"}
  IdentContinue = {"_", "i"}
  Keywords = {}
  Punctuators <- McPunctuators
  Comments <- McComments
  Expected <- McExpected
SPECIFICATION FairStreamSpec
CHECK_DEADLOCK FALSE
INVARIANTS
  StreamTypeOK
  Window
PROPERTIES
  ImplementsSource
  CallsReturn
