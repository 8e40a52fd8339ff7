SPECIFICATION Spec
CONSTANTS
  Grammars <- MCSchemaGrammar
  TokenTypes <- MCTokenTypes
  Newlines <- MCNewlines
  Inputs <- MCInputs
  NextInputs <- MCNextInputs
  StaticSize = 8
  StringReader = TRUE
INVARIANT
  StackSpellsInput
CHECK_DEADLOCK FALSE
