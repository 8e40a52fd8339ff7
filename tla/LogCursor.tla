----------------------------- MODULE LogCursor -----------------------------
(***************************************************************************)
(* What ParserInputBuffer promises its caller, without storage, halves or  *)
(* growth: a cursor on a log of bytes 0 .. source_len-1.  The bytes come in *)
(* the order of the log, none is skipped or repeated unless the caller     *)
(* goes back, the caller may go back to any byte it has not declared       *)
(* consumed, and the end of the log is announced at its end only.          *)
(***************************************************************************)
EXTENDS Integers

VARIABLES
  source_len,  \* the number of bytes of the input
  cursor,      \* the offset of the next byte to deliver
  needed,      \* the offset of the first byte the caller still needs
  got          \* the answer to the last request

vars == <<source_len, cursor, needed, got>>

CONSTANT InputLens   \* the lengths an input may have

NoAnswer == -1
EndOfLog == -2
OutOfBounds == -3

\* A new input, from a reader or as an array whose first p bytes the caller
\* is not interested in.
NewInput ==
  /\ source_len' \in InputLens
  /\ cursor' \in 0 .. source_len'
  /\ needed' = cursor'
  /\ got' = NoAnswer

Init ==
  /\ source_len \in InputLens
  /\ cursor = 0
  /\ needed = 0
  /\ got = NoAnswer

Deliver ==
  /\ cursor < source_len
  /\ got' = cursor
  /\ cursor' = cursor + 1
  /\ UNCHANGED <<source_len, needed>>

AnnounceEnd ==
  /\ cursor = source_len
  /\ got' = EndOfLog
  /\ UNCHANGED <<source_len, cursor, needed>>

\* The byte is not in memory yet: the caller has to make room and ask again.
Postpone ==
  /\ got' = OutOfBounds
  /\ UNCHANGED <<source_len, cursor, needed>>

GoBack ==
  /\ cursor' \in needed .. cursor
  /\ got' = NoAnswer
  /\ UNCHANGED <<source_len, needed>>

Consume ==
  /\ needed' \in needed .. cursor
  /\ got' = NoAnswer
  /\ UNCHANGED <<source_len, cursor>>

\* Reading and growing are invisible except that the last answer is used up.
Housekeeping ==
  /\ got' = NoAnswer
  /\ UNCHANGED <<source_len, cursor, needed>>

Next ==
  \/ NewInput \/ Deliver \/ AnnounceEnd \/ Postpone
  \/ GoBack \/ Consume \/ Housekeeping

Spec == Init /\ [][Next]_vars
=============================================================================
