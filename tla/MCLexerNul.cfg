CONSTANTS
  MaxLength = 3
  Char <- NulAlphabet
  Inputs <- NulInputs
  Newline = "LF"
  NUL = "NUL"
  Blank = {" ", "HT"}
  Digit <- McDigits
  Dot = "."
  Alnum <- AthensAlnum
  DigitValue <- McDigitValue
  MaxInteger <- McMaxInteger
  IdentStart <- AthensIdentStart
  IdentContinue <- AthensIdentContinue
  Keywords <- AthensKeywords
  Punctuators <- AthensPunctuators
  Comments <- AthensComments
CHECK_DEADLOCK FALSE
SPECIFICATION Spec
INVARIANT NextConsumes
