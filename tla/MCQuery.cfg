SPECIFICATION Spec
CONSTANTS
  Queries <- MCQueries
  Characters <- MCCharacters
  Delimiters <- MCDelimiters
  Texts <- MCTexts
  Lexer <- MCLexer
INVARIANTS
  TypeOK
  InterpretationsSpellQuery
  EveryMatchIsFound
  IntersectIsExact
CHECK_DEADLOCK FALSE
