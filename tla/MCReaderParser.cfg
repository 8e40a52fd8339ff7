SPECIFICATION LiveSpec
CONSTANTS
  Chars <- MCChars
  Newline = "nl"
  Delims = {"nl", "sp"}
  DfaStates <- MCStates
  Root = "root"
  StartOfFile = "sof"
  Transition <- MCTransition
  TypeIds <- MCTypeIds
  Logs <- MCLogs
  NextLogs <- MCNextLogs
  Small = 5
  Medium = 7
  Large = 10
  StaticSize = 6
  MaxSize = 24
  ReaderFails = TRUE
INVARIANTS
  TypeOK
  EventIsReference
  VariablesFound
  CopyIsEvent
  MultilineIsReference
PROPERTY
  CallsReturn
CHECK_DEADLOCK FALSE
