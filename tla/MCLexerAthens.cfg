CONSTANTS
  MaxLength = 4
  Char <- AthensAlphabet
  Inputs <- AthensInputs
  Newline = "LF"
  NUL = "NUL"
  Blank = {" ", "HT"}
  Digit <- McDigits
  Dot = "."
  Alnum <- AthensAlnum
  DigitValue <- McDigitValue
  MaxInteger <- McMaxInteger
  IdentStart <- AthensIdentStart
  IdentContinue <- AthensIdentContinue
  Keywords <- AthensKeywords
  Punctuators <- AthensPunctuators
  Comments <- AthensComments
CHECK_DEADLOCK FALSE
SPECIFICATION FairSpec
INVARIANTS
  TypeOK
  Lossless
  LocationsAgree
  NextConsumes
  AgreesWithGrammar
PROPERTY ReachesEof
