SPECIFICATION FairSpec
CONSTANTS
  Null = Null
  NoTree = NoTree
  Rejected = Rejected
  Undefined = Undefined
  Cut = Cut
  TypeWidth <- McTypeWidth
  Files <- McFiles
  Modes = {"verify", "--emit-smt", "--emit-smt2"}
  Emit <- McEmit
  Translatable <- McTranslatable
  Models <- McModels
  Inputs <- McInputs
  Meets <- McMeets
INVARIANTS
  TypeOK
  VerdictIsExact
  NothingLeftBehind
  AcceptsItsText
  QueriesAreFaithful
  OnlySubtractionIsRefused
PROPERTIES
  ImplementsVerdict
  Terminates
CHECK_DEADLOCK FALSE
