--------------------------- MODULE MCBufferParser ---------------------------
(***************************************************************************)
(* Instances of BufferParser for TLC, with the schema of MCReaderParser: a *)
(* header h and a variable v+.                                             *)
(***************************************************************************)
EXTENDS BufferParser

CONSTANTS Small, Medium  \* bounds on the length of logs

MCChars == {"nl", "sp", "h", "v"}

MCStates == {"root", "nl", "sp", "sof", "header", "var"}

MCTransition ==
  [s \in MCStates |-> [c \in MCChars |->
     CASE s = "root" /\ c \in {"nl", "sp"}                -> c
       [] s \in {"nl", "sof"} /\ c = "h"                  -> "header"
       [] s \in {"nl", "sp", "sof", "var"} /\ c = "v"     -> "var"
       [] OTHER                                           -> Null]]

MCTypeIds ==
  [s \in MCStates |->
     CASE s = "nl"     -> TokenNewline
       [] s = "header" -> TokenHeader
       [] s = "var"    -> "Var"
       [] OTHER        -> NoType]

\* All short logs, and longer ones of fewer different characters.
LogsOver(chars, max) == UNION {[1 .. n -> chars] : n \in 0 .. max}
MCLogs == LogsOver(MCChars, Small) \cup LogsOver({"nl", "h", "v"}, Medium)
MCNextLogs == {<<"h", "v", "nl", "h">>, <<"v", "h">>}
=============================================================================
