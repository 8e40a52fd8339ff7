SPECIFICATION Spec
CONSTANTS
  UnicodeMax = 4
  Newline = 0
  StartOfFile = 4
  Delims = {0, 2, 4}
  RuleSets <- MCRuleSets
  MaxText = 6
  MaxAttempts = 2
INVARIANTS TypeOK RecognisesRules LongestMatch CapturesAreParse StatesDiffer LogtypeNamesLeaves
