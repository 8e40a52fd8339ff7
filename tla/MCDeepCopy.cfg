SPECIFICATION Spec
CONSTANTS
  Chars <- MCChars
  Newline = "nl"
  Delims = {"nl", "sp"}
  DfaStates <- MCStates
  Root = "root"
  StartOfFile = "sof"
  Transition <- MCTransition
  TypeIds <- MCTypeIds
  Logs <- MCLogs
  NextLogs = {}
  Small = 5
  Medium = 0
  Large = 0
  StaticSize = 6
  MaxSize = 6
  ReaderFails = FALSE
INVARIANT
  CopyIsRawText
CHECK_DEADLOCK FALSE
