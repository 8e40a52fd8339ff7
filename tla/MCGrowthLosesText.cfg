SPECIFICATION Spec
CONSTANTS
  Chars <- MCChars
  Newline = "nl"
  Delims = {"nl", "sp"}
  DfaStates <- MCStates
  Root = "root"
  StartOfFile = "sof"
  Transition <- MCTransition
  TypeIds <- MCTypeIds
  Logs <- MCLogs
  NextLogs = {}
  Small = 5
  Medium = 0
  Large = 0
  StaticSize = 6
  MaxSize = 24
  ReaderFails = FALSE
INVARIANT
  EventIsRawText
CHECK_DEADLOCK FALSE
