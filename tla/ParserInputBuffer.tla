------------------------- MODULE ParserInputBuffer -------------------------
(***************************************************************************)
(* ParserInputBuffer and a caller that uses it the way Lexer, LogParser    *)
(* and the two parsers do: it asks for characters, goes back to positions  *)
(* it has visited and not yet consumed, declares what it has consumed,     *)
(* reads when that is safe and grows the buffer when it has run into its   *)
(* end.  The positions the caller passes are always right here; whether    *)
(* the Lexer keeps its positions right is a question for module LogParser. *)
(***************************************************************************)
EXTENDS InputBufferOps

CONSTANTS
  StaticSize,  \* cStaticByteBuffSize
  MaxLogLen,   \* bound: the longest input considered
  MaxSize,     \* bound: the largest buffer increase_capacity may produce
  ShortReads   \* whether the reader may return fewer bytes than asked for
               \* before the end of its input

\* "Buffer size cannot be odd" (Constants.hpp); below four bytes the first
\* read would not be considered safe.
ASSUME StaticSizeAssumption ==
  StaticSize \in Nat /\ \E h \in 2 .. StaticSize : StaticSize = 2 * h
ASSUME BoundAssumption ==
  MaxLogLen \in Nat /\ MaxSize \in Nat /\ ShortReads \in BOOLEAN

VARIABLES
  buf,         \* the ParserInputBuffer
  owner,       \* "reader": internal storage; "user": after set_storage
  source_len,  \* the length of the input
  read_off,    \* how many of its bytes are in storage or were
  cursor,      \* the offset of the byte at buf.pos
  needed,      \* the offset of the first byte the caller still needs
  got          \* the last answer of get_next_character

vars == <<buf, owner, source_len, read_off, cursor, needed, got>>

NoAnswer == -1
EndOfLog == -2
OutOfBounds == -3

\* The position of the byte with offset a, for a caller that stands at
\* buf.pos and has come past it.
PosOf(a) ==
  IF cursor - a <= buf.pos THEN buf.pos - (cursor - a)
                           ELSE buf.pos - (cursor - a) + buf.size

\* Reader::read, asked for n bytes and not at the end: how many it returns.
ReaderReturns(n) ==
  LET left == source_len - read_off
      most == IF left < n THEN left ELSE n
  IN IF ShortReads THEN 1 .. most ELSE {most}

Init ==
  /\ buf = reset(StaticSize)
  /\ owner = "reader"
  /\ source_len \in 0 .. MaxLogLen
  /\ read_off = 0
  /\ cursor = 0
  /\ needed = 0
  /\ got = NoAnswer

\* LogParser::reset, before the next log of a ReaderParser.
Reset ==
  /\ buf' = reset(StaticSize)
  /\ owner' = "reader"
  /\ source_len' \in 0 .. MaxLogLen
  /\ read_off' = 0
  /\ cursor' = 0
  /\ needed' = 0
  /\ got' = NoAnswer

\* LogParser::set_input_buffer, at the start of BufferParser::parse_next_event.
SetStorage ==
  \E n \in 1 .. MaxLogLen, finished \in BOOLEAN :
    \E p \in 0 .. n :
      /\ buf' = set_storage(StaticSize, n, p, finished)
      /\ owner' = "user"
      /\ source_len' = n
      /\ read_off' = n
      /\ cursor' = p
      /\ needed' = p
      /\ got' = NoAnswer

\* read_if_safe, when the read is safe and the reader has bytes left.
ReadIfSafe ==
  /\ owner = "reader"
  /\ read_is_safe(buf)
  /\ read_off < source_len
  /\ \E n \in ReaderReturns(Half(buf)) :
       /\ buf' = read_success(buf, read_off, n)
       /\ read_off' = read_off + n
  /\ got' = NoAnswer
  /\ UNCHANGED <<owner, source_len, cursor, needed>>

\* read_if_safe, when the read is safe and the reader is at its end.
ReadEndOfFile ==
  /\ owner = "reader"
  /\ read_is_safe(buf)
  /\ read_off = source_len
  /\ buf' = read_eof(buf)
  /\ got' = NoAnswer
  /\ UNCHANGED <<owner, source_len, read_off, cursor, needed>>

\* increase_capacity: ReaderParser calls it on BufferOutOfBounds only.
IncreaseCapacity ==
  /\ owner = "reader"
  /\ got = OutOfBounds
  /\ 2 * buf.size <= MaxSize
  /\ buf' = increase_capacity(buf)
  /\ got' = NoAnswer
  /\ UNCHANGED <<owner, source_len, read_off, cursor, needed>>

\* The three answers of get_next_character.
GetEndOfLog ==
  /\ at_end_of_log(buf)
  /\ buf' = consume_log(buf)
  /\ got' = EndOfLog
  /\ UNCHANGED <<owner, source_len, read_off, cursor, needed>>

GetOutOfBounds ==
  /\ out_of_bounds(buf)
  /\ got' = OutOfBounds
  /\ UNCHANGED <<buf, owner, source_len, read_off, cursor, needed>>

GetCharacter ==
  /\ ~at_end_of_log(buf)
  /\ ~out_of_bounds(buf)
  /\ got' = curr_value(buf)
  /\ buf' = advance(buf)
  /\ cursor' = cursor + 1
  /\ UNCHANGED <<owner, source_len, read_off, needed>>

\* Lexer::scan returns to a match or to a delimiter it has passed.
GoBack ==
  /\ \E a \in needed .. cursor :
       /\ buf' = set_pos(set_log_fully_consumed(buf, FALSE), PosOf(a))
       /\ cursor' = a
  /\ got' = NoAnswer
  /\ UNCHANGED <<owner, source_len, read_off, needed>>

\* Lexer::scan puts back the character it has just taken, without touching
\* the end-of-log flag.
PutBack ==
  /\ got >= 0
  /\ needed < cursor
  /\ buf' = set_pos(buf, PosOf(cursor - 1))
  /\ cursor' = cursor - 1
  /\ got' = NoAnswer
  /\ UNCHANGED <<owner, source_len, read_off, needed>>

\* LogParser::parse passes the position after an event's last byte (a line
\* of a log without headers) or the position of that byte itself (the '\n'
\* before a header).  An event ends when the Lexer has seen the character
\* that follows, or the end of the log.
SetConsumedPos ==
  /\ \E a \in needed + 1 .. cursor :
       /\ a < read_off \/ buf.finished
       /\ \/ buf' = set_consumed_pos(buf, PosOf(a))
          \/ a - 1 >= needed /\ buf' = set_consumed_pos(buf, PosOf(a - 1))
       /\ needed' = a
  /\ got' = NoAnswer
  /\ UNCHANGED <<owner, source_len, read_off, cursor>>

Next ==
  \/ Reset
  \/ SetStorage
  \/ ReadIfSafe
  \/ ReadEndOfFile
  \/ IncreaseCapacity
  \/ GetEndOfLog
  \/ GetOutOfBounds
  \/ GetCharacter
  \/ GoBack
  \/ PutBack
  \/ SetConsumedPos

Spec == Init /\ [][Next]_vars

-----------------------------------------------------------------------------
\* The fields keep their types: positions stay inside the storage (last_read
\* may be one past it) and offsets inside the input.
TypeOK ==
  /\ IsBuffer(buf)
  /\ buf.size \in Nat
  /\ TwoHalves(buf)
  /\ buf.storage \in [0 .. buf.size - 1 -> Int]
  /\ buf.pos \in 0 .. buf.size - 1
  /\ buf.last_read \in 0 .. buf.size
  /\ buf.first_half \in BOOLEAN
  /\ buf.finished \in BOOLEAN
  /\ buf.fully_consumed \in BOOLEAN
  /\ buf.consumed_pos \in Nat
  /\ owner \in {"reader", "user"}
  /\ source_len \in Nat
  /\ read_off \in 0 .. source_len
  /\ needed \in Nat
  /\ cursor \in needed .. read_off
  /\ got \in Int

\* "A half is only read into if it has been fully consumed, such that no
\* unused data is overwritten": every byte from the first one the caller
\* still needs up to the last one read is in storage, and going on from the
\* current position (or back from it) leads through those bytes in order.
UnconsumedResident ==
  \A a \in needed .. read_off - 1 :
    LET p == IF a <= cursor THEN PosOf(a)
             ELSE IF buf.pos + (a - cursor) < buf.size
                  THEN buf.pos + (a - cursor)
                  ELSE buf.pos + (a - cursor) - buf.size
    IN buf.storage[p] = a

\* log_fully_consumed: "True when there is both no more input
\* (m_finished_reading_input is true) and the end of the buffer has been
\* reached".
FullyConsumedIsTruthful ==
  buf.fully_consumed => buf.finished /\ cursor = read_off

\* The buffer is grown for long events only: when it is out of bounds and a
\* read is not safe, the caller holds on to half a buffer, less one byte
\* (unless the consumed position is 0: then no half is safe to read into).
GrowthOnlyForLongEvents ==
  /\ got = OutOfBounds
  /\ owner = "reader"
  /\ ~buf.finished
  /\ ~read_is_safe(buf)
  /\ buf.consumed_pos # 0
  => cursor - needed >= Half(buf) - 1

\* The end of the log is announced to the caller at the end of the log.
EndAnnouncedAtEnd == got = EndOfLog => cursor = source_len

-----------------------------------------------------------------------------
(***************************************************************************)
(* The inductive invariant behind these properties: how the positions of   *)
(* the two halves correspond to offsets of the input.                      *)
(***************************************************************************)

\* The offset that position i stands for: the half read last ends with the
\* last byte read at position last_read, and the other half precedes it.
OffsetAt(i) ==
  IF buf.first_half /\ i >= Half(buf)
  THEN read_off - buf.last_read - buf.size + i
  ELSE read_off - buf.last_read + i

\* Positions that a read has filled, in this lap or in the one before.
Filled(i) == i < buf.last_read \/ (buf.first_half /\ i >= Half(buf))

LayoutInv ==
  \A i \in 0 .. buf.size - 1 :
    Filled(i) /\ OffsetAt(i) >= needed => buf.storage[i] = OffsetAt(i)

\* Where the last read ended.
EndInv ==
  /\ buf.first_half => 0 < buf.last_read /\ buf.last_read <= Half(buf)
  /\ ~buf.first_half /\ buf.last_read # 0 => Half(buf) < buf.last_read
  /\ buf.last_read = 0 => read_off = 0
  /\ ~buf.finished /\ buf.last_read # 0
       => buf.last_read = IF buf.first_half THEN Half(buf) ELSE buf.size

\* The first byte that is still needed is behind the first position of the
\* oldest half in storage.
OldestInv ==
  /\ buf.first_half => needed > read_off - buf.last_read - Half(buf)
  /\ ~buf.first_half /\ buf.last_read # 0 => needed > read_off - buf.last_read

\* When read_is_safe looks at consumed_pos, that position is one of the half
\* read last, and the first byte still needed is in that half, too.
ConsumedInv ==
  owner = "reader" =>
    /\ ~buf.first_half /\ buf.last_read # 0 /\ buf.consumed_pos > Half(buf)
         => needed > read_off - buf.last_read + Half(buf)
    /\ buf.first_half /\ 0 < buf.consumed_pos /\ buf.consumed_pos < Half(buf)
         => needed > read_off - buf.last_read

\* The position of the next byte and its offset; a wrapped position stands
\* for the end of the buffer.
CursorInv ==
  \/ /\ buf.pos <= buf.last_read
     /\ cursor = read_off - buf.last_read + buf.pos
  \/ /\ buf.first_half
     /\ buf.pos > Half(buf)
     /\ cursor = read_off - buf.last_read - buf.size + buf.pos
  \/ /\ ~buf.first_half
     /\ buf.pos = 0
     /\ buf.last_read = buf.size
     /\ cursor = read_off

\* What the flags and the last answer say about the rest of the state.
AnswerInv ==
  /\ got = OutOfBounds => out_of_bounds(buf)
  /\ got = EndOfLog => buf.finished /\ cursor = read_off
  /\ got >= 0 => ~buf.fully_consumed
  /\ owner = "user" => read_off = source_len
  /\ buf.finished /\ ~ShortReads => read_off = source_len

IInv ==
  /\ TypeOK
  /\ EndInv
  /\ OldestInv
  /\ ConsumedInv
  /\ CursorInv
  /\ LayoutInv
  /\ AnswerInv
  /\ FullyConsumedIsTruthful

\* While more may be read, a consumed position outside the part of the buffer
\* that makes a read safe is one of a byte at least half a buffer back.
HeldInv ==
  owner = "reader" =>
    /\ buf.size >= 4
    /\ buf.consumed_pos < buf.size
    /\ buf.last_read = 0 => buf.consumed_pos = buf.size - 1
    /\ ~buf.finished /\ buf.first_half /\ buf.consumed_pos >= Half(buf)
         => needed <= read_off - Half(buf)
    /\ ~buf.finished /\ ~buf.first_half /\ buf.last_read # 0
         /\ 0 < buf.consumed_pos /\ buf.consumed_pos <= Half(buf)
         => needed <= read_off - Half(buf) + 1

-----------------------------------------------------------------------------
Promise == INSTANCE LogCursor WITH InputLens <- 0 .. MaxLogLen

\* The buffer implements the cursor: reads, wraps, growth and reordering of
\* halves are invisible, the bytes come in the order of the log.
PromiseSpec == Promise!Spec
=============================================================================
