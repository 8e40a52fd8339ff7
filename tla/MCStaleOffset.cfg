SPECIFICATION Spec
CONSTANTS
  Chars <- MCChars
  Newline = "nl"
  Delims = {"nl", "sp"}
  DfaStates <- MCStates
  Root = "root"
  StartOfFile = "sof"
  Transition <- MCTransition
  TypeIds <- MCTypeIds
  Logs <- MCLogs
  NextLogs <- MCNextLogs
  Small = 4
  Medium = 0
  StaticSize = 6
  FirstCap = 2
INVARIANT
  OffsetAtNextEvent
