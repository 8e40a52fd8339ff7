--------------------------- MODULE MCReaderParser ---------------------------
(***************************************************************************)
(* Instances of ReaderParser for TLC.  The schema has a header h and a     *)
(* variable v+; its automaton is what LogParser::add_rules and             *)
(* Lexer::generate make of them:                                           *)
(*                                                                         *)
(*   newLine: nl      header: (start of file | nl) h      var: delimiter v+ *)
(***************************************************************************)
EXTENDS ReaderParser

CONSTANT Small, Medium, Large  \* bounds on the length of logs

MCChars == {"nl", "sp", "h", "v"}

MCStates == {"root", "nl", "sp", "sof", "header", "var"}

MCTransition ==
  [s \in MCStates |-> [c \in MCChars |->
     CASE s = "root" /\ c \in {"nl", "sp"}                -> c
       [] s \in {"nl", "sof"} /\ c = "h"                  -> "header"
       [] s \in {"nl", "sp", "sof", "var"} /\ c = "v"     -> "var"
       [] OTHER                                           -> Null]]

MCTypeIds ==
  [s \in MCStates |->
     CASE s = "nl"     -> TokenNewline
       [] s = "header" -> TokenHeader
       [] s = "var"    -> "Var"
       [] OTHER        -> NoType]

\* All short logs, and longer ones of fewer different characters.
LogsOver(chars, max) == UNION {[1 .. n -> chars] : n \in 0 .. max}
MCLogs ==
  LogsOver(MCChars, Small) \cup LogsOver({"nl", "h", "v"}, Medium)
                          \cup LogsOver({"nl", "v"}, Large)
MCNextLogs == {<<"h", "v", "nl", "h">>, <<"v", "h">>}

\* The schema is one of those that EventsAreReference is about.  None of its rules goes on
\* behind a newline, so that LinesApart holds of every log.
ASSUME SchemaIsRegular == LineRules
=============================================================================
