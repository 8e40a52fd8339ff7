SPECIFICATION LiveSpec
CONSTANTS
  Chars <- MCChars
  Newline = "nl"
  Delims = {"nl", "sp"}
  DfaStates <- MCStates
  Root = "root"
  StartOfFile = "sof"
  Transition <- MCTransition
  TypeIds <- MCTypeIds
  Logs <- MCLogs
  NextLogs <- MCNextLogs
  Small = 5
  Medium = 7
  StaticSize = 6
  FirstCap = 2
INVARIANTS
  TypeOK
  EventIsReference
  OffsetAtPartialEvent
  EventIsNextText
PROPERTY
  EveryLogFinishes
