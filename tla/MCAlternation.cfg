SPECIFICATION Spec
CONSTANTS
  UnicodeMax = 4
  Newline = 0
  StartOfFile = 4
  Delims = {0, 2, 4}
  RuleSets <- MCAlternation
  MaxText = 5
  MaxAttempts = 2
INVARIANT RecognisesRules
