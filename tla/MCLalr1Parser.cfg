SPECIFICATION LiveSpec
CONSTANTS
  Grammars <- MCGrammars
  TokenTypes <- MCTokenTypes
  Newlines <- MCNewlines
  Inputs <- MCInputs
  NextInputs <- MCNextInputs
  StaticSize = 8
  StringReader = FALSE
INVARIANTS
  TypeOK
  StackSpellsInput
  AcceptedIsParse
  ErrorAtFirstBadToken
  RuleReadsItsText
  ScanErrorOnlyForLongText
PROPERTIES
  ErrorLineShown
  ParseEnds
CHECK_DEADLOCK FALSE
