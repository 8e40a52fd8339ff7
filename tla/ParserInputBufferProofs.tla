---------------------- MODULE ParserInputBufferProofs ----------------------
(***************************************************************************)
(* Proofs that ParserInputBuffer keeps its promises for every even buffer  *)
(* size of at least four bytes, every input and every way of using it.     *)
(***************************************************************************)
EXTENDS ParserInputBuffer, TLAPS

-----------------------------------------------------------------------------
(***************************************************************************)
(* What the methods do to the fields.                                      *)
(***************************************************************************)

\* Half of an even size.
LEMMA HalfOfEven ==
  ASSUME NEW h \in Nat, NEW b, b.size = 2 * h
  PROVE  Half(b) = h
BY DEF Half

\* reset() yields the initial fields.
LEMMA ResetFields ==
  ASSUME NEW n, NEW c, c = reset(n)
  PROVE  /\ IsBuffer(c)
         /\ c.size = n
         /\ c.storage = [i \in 0 .. n - 1 |-> Unset]
         /\ c.pos = 0
         /\ c.last_read = 0
         /\ c.first_half = FALSE
         /\ c.finished = FALSE
         /\ c.fully_consumed = FALSE
         /\ c.consumed_pos = n - 1
BY DEF reset, IsBuffer

\* A successful read fills the other half and moves the end of the data.
LEMMA ReadFields ==
  ASSUME NEW b, IsBuffer(b), NEW o, NEW n, NEW c, c = read_success(b, o, n)
  PROVE  /\ IsBuffer(c)
         /\ c.size = b.size
         /\ c.storage = [i \in 0 .. b.size - 1 |->
                           IF read_offset(b) <= i /\ i < read_offset(b) + n
                           THEN o + (i - read_offset(b)) ELSE b.storage[i]]
         /\ c.pos = b.pos
         /\ c.last_read = IF b.last_read + n > b.size
                          THEN (b.last_read + n) - b.size
                          ELSE b.last_read + n
         /\ c.first_half = ~b.first_half
         /\ c.finished = (b.finished \/ n < Half(b))
         /\ c.fully_consumed = b.fully_consumed
         /\ c.consumed_pos = b.consumed_pos
BY DEF read_success, IsBuffer

\* Growing puts the old content, in log order, in front of a new half.
LEMMA IncreaseFields ==
  ASSUME NEW b, IsBuffer(b), NEW c, c = increase_capacity(b)
  PROVE  /\ IsBuffer(c)
         /\ c.size = 2 * b.size
         /\ c.storage = [i \in 0 .. 2 * b.size - 1 |->
                           IF i >= b.size THEN Unset
                           ELSE IF ~b.first_half THEN b.storage[i]
                           ELSE IF i < Half(b) THEN b.storage[i + Half(b)]
                           ELSE b.storage[i - Half(b)]]
         /\ c.pos = b.size
         /\ c.last_read = b.size
         /\ c.first_half = TRUE
         /\ c.finished = b.finished
         /\ c.fully_consumed = b.fully_consumed
         /\ c.consumed_pos = b.consumed_pos
BY DEF increase_capacity, flipped_static_buffer, IsBuffer

\* Two buffers with the same storage and the same data in it.
SameData(b, c) ==
  /\ IsBuffer(c)
  /\ c.size = b.size
  /\ c.storage = b.storage
  /\ c.last_read = b.last_read
  /\ c.first_half = b.first_half

\* advance() and set_pos() move the position only.
LEMMA MoveFields ==
  ASSUME NEW b, IsBuffer(b), NEW p, NEW c, c = set_pos(b, p)
  PROVE  /\ SameData(b, c)
         /\ c.pos = p
         /\ c.finished = b.finished
         /\ c.fully_consumed = b.fully_consumed
         /\ c.consumed_pos = b.consumed_pos
BY DEF set_pos, IsBuffer, SameData

\* A read at the end of the input sets one flag.
LEMMA EofFields ==
  ASSUME NEW b, IsBuffer(b), NEW c, c = read_eof(b)
  PROVE  /\ SameData(b, c)
         /\ c.pos = b.pos
         /\ c.finished = TRUE
         /\ c.fully_consumed = b.fully_consumed
         /\ c.consumed_pos = b.consumed_pos
BY DEF read_eof, IsBuffer, SameData

\* Announcing the end of the log sets one flag.
LEMMA EndOfLogFields ==
  ASSUME NEW b, IsBuffer(b), NEW c, c = consume_log(b)
  PROVE  /\ SameData(b, c)
         /\ c.pos = b.pos
         /\ c.finished = b.finished
         /\ c.fully_consumed = TRUE
         /\ c.consumed_pos = b.consumed_pos
BY DEF consume_log, IsBuffer, SameData

\* set_consumed_pos() sets one position.
LEMMA ConsumedFields ==
  ASSUME NEW b, IsBuffer(b), NEW p, NEW c, c = set_consumed_pos(b, p)
  PROVE  /\ SameData(b, c)
         /\ c.pos = b.pos
         /\ c.finished = b.finished
         /\ c.fully_consumed = b.fully_consumed
         /\ c.consumed_pos = p
BY DEF set_consumed_pos, IsBuffer, SameData

-----------------------------------------------------------------------------
(***************************************************************************)
(* The inductive invariant.                                                *)
(***************************************************************************)

\* A fresh buffer satisfies the invariant.
LEMMA FreshBuffer ==
  ASSUME buf = reset(StaticSize), owner = "reader",
         source_len \in 0 .. MaxLogLen,
         read_off = 0, cursor = 0, needed = 0, got = NoAnswer
  PROVE  IInv
<1>1. PICK h \in 2 .. StaticSize : StaticSize = 2 * h
  BY StaticSizeAssumption
<1>2. /\ IsBuffer(buf)
      /\ buf.size = StaticSize
      /\ buf.storage = [i \in 0 .. StaticSize - 1 |-> Unset]
      /\ buf.pos = 0
      /\ buf.last_read = 0
      /\ buf.first_half = FALSE
      /\ buf.finished = FALSE
      /\ buf.fully_consumed = FALSE
      /\ buf.consumed_pos = StaticSize - 1
  BY ResetFields, Zenon
<1>3. StaticSize \in Nat /\ MaxLogLen \in Nat
  BY StaticSizeAssumption, BoundAssumption
<1>4. Half(buf) = h
  BY <1>1, <1>2, HalfOfEven
<1>5. TypeOK
  <2>1. buf.storage \in [0 .. buf.size - 1 -> Int]
    BY <1>2 DEF Unset
  <2>2. TwoHalves(buf)
    <3>1. h \in 1 .. buf.size /\ buf.size = 2 * h
      BY <1>1, <1>2, <1>3
    <3>2. QED
      BY <3>1 DEF TwoHalves
  <2>3. /\ buf.first_half \in BOOLEAN
        /\ buf.finished \in BOOLEAN
        /\ buf.fully_consumed \in BOOLEAN
    BY <1>2, Zenon
  <2>4. /\ buf.size \in Nat
        /\ buf.pos \in 0 .. buf.size - 1
        /\ buf.last_read \in 0 .. buf.size
        /\ buf.consumed_pos \in Nat
    BY <1>1, <1>2, <1>3
  <2>5. /\ source_len \in Nat
        /\ read_off \in 0 .. source_len
        /\ needed \in Nat
        /\ cursor \in needed .. read_off
        /\ got \in Int
    BY <1>3 DEF NoAnswer
  <2>6. QED
    BY <1>2, <2>1, <2>2, <2>3, <2>4, <2>5, Zenon DEF TypeOK
<1>6. EndInv /\ OldestInv /\ ConsumedInv /\ CursorInv
  BY <1>1, <1>2, <1>3, <1>4 DEF EndInv, OldestInv, ConsumedInv, CursorInv
<1>7. LayoutInv
  BY <1>1, <1>2, <1>3, <1>4 DEF LayoutInv, Filled
<1>8. AnswerInv /\ FullyConsumedIsTruthful
  BY <1>2 DEF AnswerInv, FullyConsumedIsTruthful, NoAnswer, OutOfBounds, EndOfLog
<1>9. QED
  BY <1>5, <1>6, <1>7, <1>8 DEF IInv

\* The initial state satisfies the invariant.
LEMMA InitIInv == Init => IInv
BY FreshBuffer DEF Init

\* The types of the fields follow from the parts of TypeOK that a step can
\* disturb.
LEMMA SameDataTypes ==
  ASSUME TypeOK,
         SameData(buf, buf'),
         buf'.pos \in 0 .. buf.size - 1,
         buf'.finished \in BOOLEAN,
         buf'.fully_consumed \in BOOLEAN,
         buf'.consumed_pos \in Nat,
         UNCHANGED <<owner, source_len, read_off>>,
         needed' \in Nat,
         cursor' \in needed' .. read_off,
         got' \in Int
  PROVE  TypeOK'
<1>1. /\ IsBuffer(buf')
      /\ buf'.size = buf.size
      /\ buf'.storage = buf.storage
      /\ buf'.last_read = buf.last_read
      /\ buf'.first_half = buf.first_half
  BY DEF SameData
<1>2. TwoHalves(buf')
  BY <1>1 DEF TypeOK, TwoHalves
<1>3. QED
  BY <1>1, <1>2, Zenon DEF TypeOK

\* A step that leaves the data in place keeps the layout.
LEMMA SameDataLayout ==
  ASSUME IInv,
         SameData(buf, buf'),
         buf.finished => buf'.finished,
         read_off' = read_off,
         needed' \in Nat,
         needed' >= needed
  PROVE  EndInv' /\ OldestInv' /\ LayoutInv'
<1>1. /\ buf'.size = buf.size
      /\ buf'.storage = buf.storage
      /\ buf'.last_read = buf.last_read
      /\ buf'.first_half = buf.first_half
      /\ Half(buf') = Half(buf)
  BY DEF SameData, Half
<1>2. PICK h \in Nat : h >= 1 /\ buf.size = 2 * h /\ Half(buf) = h
  BY HalfOfEven DEF IInv, TypeOK, TwoHalves
<1>3. /\ read_off \in Nat /\ needed \in Nat
      /\ buf.last_read \in Nat /\ buf.size \in Nat
  BY DEF IInv, TypeOK
<1>4. EndInv'
  BY <1>1 DEF IInv, EndInv
<1>5. OldestInv'
  BY <1>1, <1>2, <1>3 DEF IInv, OldestInv
<1>6. LayoutInv'
  BY <1>1, <1>2, <1>3 DEF IInv, LayoutInv, Filled, OffsetAt
<1>7. QED
  BY <1>4, <1>5, <1>6

-----------------------------------------------------------------------------
(***************************************************************************)
(* One lemma per action: it preserves the invariant.                       *)
(***************************************************************************)

\* The numbers the invariant relates.
LEMMA Numbers ==
  ASSUME IInv
  PROVE  /\ IsBuffer(buf)
         /\ \E h \in Nat : h >= 1 /\ buf.size = 2 * h /\ Half(buf) = h
         /\ buf.pos \in 0 .. buf.size - 1
         /\ buf.last_read \in 0 .. buf.size
         /\ buf.consumed_pos \in Nat
         /\ source_len \in Nat
         /\ read_off \in 0 .. source_len
         /\ needed \in Nat
         /\ cursor \in needed .. read_off
         /\ got \in Int
<1>1. PICK h \in 1 .. buf.size : buf.size = 2 * h
  BY DEF IInv, TypeOK, TwoHalves
<1>2. h \in Nat /\ h >= 1 /\ Half(buf) = h
  BY <1>1, HalfOfEven DEF IInv, TypeOK
<1>3. \E k \in Nat : k >= 1 /\ buf.size = 2 * k /\ Half(buf) = k
  BY <1>1, <1>2
<1>4. QED
  BY <1>3, Zenon DEF IInv, TypeOK

\* get_next_character at the end of the log.
LEMMA GetEndOfLogStep == IInv /\ GetEndOfLog => IInv'
<1> SUFFICES ASSUME IInv, GetEndOfLog PROVE IInv'
  OBVIOUS
<1> USE DEF GetEndOfLog
<1>1. /\ SameData(buf, buf')
      /\ buf'.pos = buf.pos
      /\ buf'.finished = buf.finished
      /\ buf'.fully_consumed = TRUE
      /\ buf'.consumed_pos = buf.consumed_pos
  BY Numbers, EndOfLogFields
<1>2. EndInv' /\ OldestInv' /\ LayoutInv'
  BY <1>1, Numbers, SameDataLayout
<1>3. TypeOK'
  <2>1. buf'.finished \in BOOLEAN /\ buf'.fully_consumed \in BOOLEAN
    BY <1>1, Zenon DEF IInv, TypeOK
  <2>2. QED
    BY <1>1, <2>1, Numbers, SameDataTypes DEF IInv, EndOfLog
<1>4. cursor = read_off
  BY Numbers DEF IInv, CursorInv, EndInv, at_end_of_log
<1>5. /\ buf'.size = buf.size
      /\ buf'.last_read = buf.last_read
      /\ buf'.first_half = buf.first_half
      /\ Half(buf') = Half(buf)
  BY <1>1 DEF SameData, Half
<1>6. ConsumedInv' /\ CursorInv'
  BY <1>1, <1>5 DEF IInv, ConsumedInv, CursorInv
<1>7. AnswerInv' /\ FullyConsumedIsTruthful'
  BY <1>1, <1>4 DEF IInv, AnswerInv, FullyConsumedIsTruthful, EndOfLog,
                    OutOfBounds, at_end_of_log
<1>8. QED
  BY <1>2, <1>3, <1>6, <1>7 DEF IInv

\* get_next_character at the end of what was read changes the answer only.
LEMMA GetOutOfBoundsStep == IInv /\ GetOutOfBounds => IInv'
<1> SUFFICES ASSUME IInv, GetOutOfBounds PROVE IInv'
  OBVIOUS
<1> USE DEF GetOutOfBounds
<1>1. TypeOK'
  BY DEF IInv, TypeOK, OutOfBounds
<1>2. EndInv' /\ OldestInv' /\ LayoutInv' /\ ConsumedInv' /\ CursorInv'
  BY DEF IInv, EndInv, OldestInv, LayoutInv, ConsumedInv, CursorInv,
         Filled, OffsetAt
<1>3. AnswerInv' /\ FullyConsumedIsTruthful'
  BY DEF IInv, AnswerInv, FullyConsumedIsTruthful, OutOfBounds, EndOfLog
<1>4. QED
  BY <1>1, <1>2, <1>3 DEF IInv

\* A byte is delivered only when the cursor is behind the last byte read.
LEMMA CharacterLeft ==
  ASSUME IInv, ~at_end_of_log(buf), ~out_of_bounds(buf)
  PROVE  /\ cursor < read_off
         /\ \/ /\ buf.pos < buf.last_read
               /\ cursor = read_off - buf.last_read + buf.pos
            \/ /\ buf.first_half
               /\ buf.pos > Half(buf)
               /\ cursor = read_off - buf.last_read - buf.size + buf.pos
<1>1. PICK h \in Nat : h >= 1 /\ buf.size = 2 * h /\ Half(buf) = h
  BY Numbers
<1>2. QED
  BY <1>1, Numbers DEF IInv, CursorInv, EndInv, at_end_of_log, out_of_bounds

\* get_next_character when it delivers a byte.
LEMMA GetCharacterStep == IInv /\ GetCharacter => IInv'
<1> SUFFICES ASSUME IInv, GetCharacter PROVE IInv'
  OBVIOUS
<1> USE DEF GetCharacter
<1>0. PICK h \in Nat : h >= 1 /\ buf.size = 2 * h /\ Half(buf) = h
  BY Numbers
<1>1. /\ SameData(buf, buf')
      /\ buf'.pos = next_pos(buf, buf.pos)
      /\ buf'.finished = buf.finished
      /\ buf'.fully_consumed = buf.fully_consumed
      /\ buf'.consumed_pos = buf.consumed_pos
  BY Numbers, MoveFields DEF advance, set_pos
<1>2. EndInv' /\ OldestInv' /\ LayoutInv'
  BY <1>1, Numbers, SameDataLayout
<1>3. /\ cursor < read_off
      /\ \/ /\ buf.pos < buf.last_read
            /\ cursor = read_off - buf.last_read + buf.pos
         \/ /\ buf.first_half
            /\ buf.pos > Half(buf)
            /\ cursor = read_off - buf.last_read - buf.size + buf.pos
  BY CharacterLeft
<1>4. buf'.pos \in 0 .. buf.size - 1
  BY <1>0, <1>1, Numbers DEF next_pos
<1>5. got' \in Int
  BY Numbers DEF IInv, TypeOK, curr_value
<1>6. TypeOK'
  <2>1. buf'.finished \in BOOLEAN /\ buf'.fully_consumed \in BOOLEAN
    BY <1>1, Zenon DEF IInv, TypeOK
  <2>2. QED
    BY <1>1, <1>3, <1>4, <1>5, <2>1, Numbers, SameDataTypes DEF IInv
<1>7. /\ buf'.size = buf.size
      /\ buf'.last_read = buf.last_read
      /\ buf'.first_half = buf.first_half
      /\ Half(buf') = Half(buf)
  BY <1>1 DEF SameData, Half
<1>8. ConsumedInv'
  BY <1>1, <1>7 DEF IInv, ConsumedInv
<1>9. CursorInv'
  BY <1>0, <1>1, <1>3, <1>7, Numbers DEF IInv, CursorInv, EndInv, next_pos
<1>10. got' = cursor
  BY <1>0, <1>3, Numbers DEF IInv, LayoutInv, Filled, OffsetAt, EndInv, curr_value
<1>11. ~buf.fully_consumed
  BY <1>3, Numbers DEF IInv, FullyConsumedIsTruthful
<1>12. AnswerInv' /\ FullyConsumedIsTruthful'
  BY <1>1, <1>10, <1>11, Numbers
    DEF IInv, AnswerInv, FullyConsumedIsTruthful, OutOfBounds, EndOfLog
<1>13. QED
  BY <1>2, <1>6, <1>8, <1>9, <1>12 DEF IInv

\* Where the caller finds the bytes it has passed and still needs.
LEMMA PosOfPassed ==
  ASSUME IInv, NEW a \in needed .. cursor
  PROVE  /\ PosOf(a) \in 0 .. buf.size - 1
         /\ \/ /\ PosOf(a) <= buf.last_read
               /\ a = read_off - buf.last_read + PosOf(a)
            \/ /\ buf.first_half
               /\ PosOf(a) > Half(buf)
               /\ a = read_off - buf.last_read - buf.size + PosOf(a)
            \/ /\ ~buf.first_half
               /\ PosOf(a) = 0
               /\ buf.last_read = buf.size
               /\ a = read_off
<1>1. PICK h \in Nat : h >= 1 /\ buf.size = 2 * h /\ Half(buf) = h
  BY Numbers
<1>2. QED
  BY <1>1, Numbers DEF IInv, CursorInv, EndInv, OldestInv, PosOf

\* The position moves to the byte with offset a and nothing else changes,
\* except perhaps that the end-of-log flag is cleared.
LEMMA MoveKeeps ==
  ASSUME IInv, NEW a \in needed .. cursor,
         SameData(buf, buf'),
         buf'.pos = PosOf(a),
         buf'.finished = buf.finished,
         buf'.fully_consumed = FALSE,
         buf'.consumed_pos = buf.consumed_pos,
         cursor' = a,
         got' = NoAnswer,
         UNCHANGED <<owner, source_len, read_off, needed>>
  PROVE  IInv'
<1>1. EndInv' /\ OldestInv' /\ LayoutInv'
  BY Numbers, SameDataLayout
<1>2. TypeOK'
  <2>1. buf'.finished \in BOOLEAN /\ buf'.fully_consumed \in BOOLEAN
    BY Zenon DEF IInv, TypeOK
  <2>2. QED
    BY <2>1, PosOfPassed, Numbers, SameDataTypes DEF IInv, NoAnswer
<1>3. /\ buf'.size = buf.size
      /\ buf'.last_read = buf.last_read
      /\ buf'.first_half = buf.first_half
      /\ Half(buf') = Half(buf)
  BY DEF SameData, Half
<1>4. ConsumedInv'
  BY <1>3 DEF IInv, ConsumedInv
<1>5. CursorInv'
  BY <1>3, PosOfPassed DEF CursorInv
<1>6. AnswerInv' /\ FullyConsumedIsTruthful'
  BY DEF IInv, AnswerInv, FullyConsumedIsTruthful, OutOfBounds, EndOfLog, NoAnswer
<1>7. QED
  BY <1>1, <1>2, <1>4, <1>5, <1>6 DEF IInv

\* The Lexer returns to an earlier position.
LEMMA GoBackStep == IInv /\ GoBack => IInv'
<1> SUFFICES ASSUME IInv, GoBack PROVE IInv'
  OBVIOUS
<1>1. PICK a \in needed .. cursor :
        /\ buf' = set_pos(set_log_fully_consumed(buf, FALSE), PosOf(a))
        /\ cursor' = a
  BY DEF GoBack
<1>2. /\ SameData(buf, buf')
      /\ buf'.pos = PosOf(a)
      /\ buf'.finished = buf.finished
      /\ buf'.fully_consumed = FALSE
      /\ buf'.consumed_pos = buf.consumed_pos
  <2>1. IsBuffer(buf)
    BY Numbers
  <2>2. QED
    BY <1>1, <2>1
      DEF set_pos, set_log_fully_consumed, IsBuffer, SameData
<1>3. got' = NoAnswer /\ UNCHANGED <<owner, source_len, read_off, needed>>
  BY DEF GoBack
<1>4. QED
  BY <1>1, <1>2, <1>3, MoveKeeps

\* The Lexer puts back one character; it has not seen the end of the log.
LEMMA PutBackStep == IInv /\ PutBack => IInv'
<1> SUFFICES ASSUME IInv, PutBack PROVE IInv'
  OBVIOUS
<1> USE DEF PutBack
<1>1. buf.fully_consumed = FALSE
  <2>1. buf.fully_consumed \in BOOLEAN /\ ~buf.fully_consumed
    BY DEF IInv, AnswerInv, TypeOK
  <2>2. QED
    BY <2>1, Zenon
<1>2. cursor - 1 \in needed .. cursor
  BY Numbers
<1>3. /\ SameData(buf, buf')
      /\ buf'.pos = PosOf(cursor - 1)
      /\ buf'.finished = buf.finished
      /\ buf'.fully_consumed = FALSE
      /\ buf'.consumed_pos = buf.consumed_pos
  BY <1>1, Numbers, MoveFields
<1>4. QED
  BY <1>2, <1>3, MoveKeeps

\* The caller declares an event consumed.
LEMMA SetConsumedPosStep == IInv /\ SetConsumedPos => IInv'
<1> SUFFICES ASSUME IInv, SetConsumedPos PROVE IInv'
  OBVIOUS
<1> USE DEF SetConsumedPos
<1>0. PICK h \in Nat : h >= 1 /\ buf.size = 2 * h /\ Half(buf) = h
  BY Numbers
<1>1. PICK a \in needed + 1 .. cursor, c \in needed .. cursor :
        /\ c = a \/ c = a - 1
        /\ buf' = set_consumed_pos(buf, PosOf(c))
        /\ needed' = a
  BY Numbers
<1>2. /\ SameData(buf, buf')
      /\ buf'.pos = buf.pos
      /\ buf'.finished = buf.finished
      /\ buf'.fully_consumed = buf.fully_consumed
      /\ buf'.consumed_pos = PosOf(c)
  BY <1>1, Numbers, ConsumedFields
<1>3. EndInv' /\ OldestInv' /\ LayoutInv'
  BY <1>1, <1>2, Numbers, SameDataLayout
<1>4. TypeOK'
  <2>1. buf'.finished \in BOOLEAN /\ buf'.fully_consumed \in BOOLEAN
    BY <1>2, Zenon DEF IInv, TypeOK
  <2>2. PosOf(c) \in Nat
    BY PosOfPassed, Numbers
  <2>3. QED
    BY <1>1, <1>2, <2>1, <2>2, Numbers, SameDataTypes DEF IInv, NoAnswer
<1>5. /\ buf'.size = buf.size
      /\ buf'.last_read = buf.last_read
      /\ buf'.first_half = buf.first_half
      /\ Half(buf') = Half(buf)
  BY <1>2 DEF SameData, Half
<1>6. ConsumedInv'
  <2>1. \/ /\ PosOf(c) <= buf.last_read
           /\ c = read_off - buf.last_read + PosOf(c)
        \/ /\ buf.first_half
           /\ PosOf(c) > Half(buf)
           /\ c = read_off - buf.last_read - buf.size + PosOf(c)
        \/ /\ ~buf.first_half
           /\ PosOf(c) = 0
           /\ buf.last_read = buf.size
           /\ c = read_off
    BY PosOfPassed
  <2>2. PosOf(c) \in 0 .. buf.size - 1
    BY PosOfPassed
  <2>3. QED
    BY <1>0, <1>1, <1>2, <1>5, <2>1, <2>2, Numbers DEF IInv, ConsumedInv, EndInv
<1>7. CursorInv'
  BY <1>2, <1>5 DEF IInv, CursorInv
<1>8. AnswerInv' /\ FullyConsumedIsTruthful'
  BY <1>2 DEF IInv, AnswerInv, FullyConsumedIsTruthful, OutOfBounds, EndOfLog, NoAnswer
<1>9. QED
  BY <1>3, <1>4, <1>6, <1>7, <1>8 DEF IInv

\* A read at the end of the input.
LEMMA ReadEndOfFileStep == IInv /\ ReadEndOfFile => IInv'
<1> SUFFICES ASSUME IInv, ReadEndOfFile PROVE IInv'
  OBVIOUS
<1> USE DEF ReadEndOfFile
<1>1. /\ SameData(buf, buf')
      /\ buf'.pos = buf.pos
      /\ buf'.finished = TRUE
      /\ buf'.fully_consumed = buf.fully_consumed
      /\ buf'.consumed_pos = buf.consumed_pos
  BY Numbers, EofFields
<1>2. EndInv' /\ OldestInv' /\ LayoutInv'
  BY <1>1, Numbers, SameDataLayout
<1>3. TypeOK'
  <2>1. buf'.finished \in BOOLEAN /\ buf'.fully_consumed \in BOOLEAN
    BY <1>1, Zenon DEF IInv, TypeOK
  <2>2. QED
    BY <1>1, <2>1, Numbers, SameDataTypes DEF IInv, NoAnswer
<1>4. /\ buf'.size = buf.size
      /\ buf'.last_read = buf.last_read
      /\ buf'.first_half = buf.first_half
      /\ Half(buf') = Half(buf)
  BY <1>1 DEF SameData, Half
<1>5. ConsumedInv' /\ CursorInv'
  BY <1>1, <1>4 DEF IInv, ConsumedInv, CursorInv
<1>6. AnswerInv' /\ FullyConsumedIsTruthful'
  BY <1>1 DEF IInv, AnswerInv, FullyConsumedIsTruthful, OutOfBounds, EndOfLog, NoAnswer
<1>7. QED
  BY <1>2, <1>3, <1>5, <1>6 DEF IInv

\* A read that brings n bytes into the other half.  This is where the
\* consumed position decides that nothing needed is overwritten.
LEMMA ReadIfSafeStep == IInv /\ ReadIfSafe => IInv'
<1> SUFFICES ASSUME IInv, ReadIfSafe PROVE IInv'
  OBVIOUS
<1>0. PICK h \in Nat : h >= 1 /\ buf.size = 2 * h /\ Half(buf) = h
  BY Numbers
<1>1. PICK n \in ReaderReturns(Half(buf)) :
        /\ buf' = read_success(buf, read_off, n)
        /\ read_off' = read_off + n
  BY DEF ReadIfSafe
<1>2. /\ n \in Nat /\ 1 <= n /\ n <= h /\ read_off + n <= source_len
      /\ n < h /\ ~ShortReads => read_off + n = source_len
  BY <1>0, Numbers DEF ReaderReturns, ReadIfSafe
<1>3. /\ IsBuffer(buf')
      /\ buf'.size = buf.size
      /\ buf'.storage = [i \in 0 .. buf.size - 1 |->
                           IF read_offset(buf) <= i /\ i < read_offset(buf) + n
                           THEN read_off + (i - read_offset(buf))
                           ELSE buf.storage[i]]
      /\ buf'.pos = buf.pos
      /\ buf'.last_read = IF buf.last_read + n > buf.size
                          THEN (buf.last_read + n) - buf.size
                          ELSE buf.last_read + n
      /\ buf'.first_half = ~buf.first_half
      /\ buf'.finished = (buf.finished \/ n < Half(buf))
      /\ buf'.fully_consumed = buf.fully_consumed
      /\ buf'.consumed_pos = buf.consumed_pos
  BY <1>1, Numbers, ReadFields
<1>4. /\ Half(buf') = h
      /\ buf'.size = 2 * h
  BY <1>0, <1>3, HalfOfEven
<1>5. ~buf.finished
  BY DEF ReadIfSafe, read_is_safe
<1>6. /\ buf.first_half => ~buf'.first_half
      /\ ~buf.first_half => buf'.first_half
      /\ buf'.finished <=> n < h
  BY <1>0, <1>3, <1>5, Zenon
<1>7. /\ buf.pos \in 0 .. 2 * h - 1
      /\ buf.consumed_pos \in Nat
      /\ read_off \in Nat
      /\ needed \in Nat
      /\ cursor \in Nat /\ needed <= cursor /\ cursor <= read_off
      /\ source_len \in Nat
  BY <1>0, Numbers
<1>8. /\ buf.first_half => buf.last_read = h
      /\ ~buf.first_half => \/ buf.last_read = 0 /\ read_off = 0
                            \/ buf.last_read = 2 * h
  BY <1>0, <1>5 DEF IInv, EndInv
<1>9. /\ buf.first_half => buf'.last_read = h + n
      /\ ~buf.first_half => buf'.last_read = n
  BY <1>0, <1>2, <1>3, <1>8
<1>10. UNCHANGED <<owner, source_len, cursor, needed>> /\ got' = NoAnswer
  BY DEF ReadIfSafe
<1>11. /\ buf.first_half => 0 < buf.consumed_pos /\ buf.consumed_pos < h
       /\ ~buf.first_half => buf.consumed_pos > h
       /\ owner = "reader"
  BY <1>0, Zenon DEF ReadIfSafe, read_is_safe
<1>12. TypeOK'
  <2>1. /\ buf'.first_half \in BOOLEAN
        /\ buf'.finished \in BOOLEAN
        /\ buf'.fully_consumed \in BOOLEAN
    BY <1>3, Zenon DEF IInv, TypeOK
  <2>2. buf'.storage \in [0 .. buf'.size - 1 -> Int]
    <3>1. read_offset(buf) \in Int
      BY <1>0 DEF read_offset
    <3>2. \A i \in 0 .. buf.size - 1 : buf.storage[i] \in Int
      BY DEF IInv, TypeOK
    <3>3. QED
      BY <1>3, <1>7, <3>1, <3>2
  <2>3. TwoHalves(buf')
    BY <1>3 DEF IInv, TypeOK, TwoHalves
  <2>4. buf'.last_read \in 0 .. buf'.size /\ buf'.pos \in 0 .. buf'.size - 1
    BY <1>2, <1>3, <1>4, <1>7, <1>9
  <2>5. /\ source_len' \in Nat /\ read_off' \in 0 .. source_len'
        /\ needed' \in Nat /\ cursor' \in needed' .. read_off' /\ got' \in Int
    BY <1>1, <1>2, <1>7, <1>10 DEF NoAnswer
  <2>6. QED
    BY <1>3, <1>10, <2>1, <2>2, <2>3, <2>4, <2>5, Zenon DEF IInv, TypeOK
<1>13. EndInv'
  BY <1>0, <1>1, <1>2, <1>4, <1>6, <1>7, <1>9 DEF EndInv
<1>14. OldestInv'
  <2>1. CASE buf.first_half
    BY <1>0, <1>1, <1>2, <1>4, <1>6, <1>7, <1>8, <1>9, <1>10, <1>11, <2>1
      DEF IInv, OldestInv, ConsumedInv
  <2>2. CASE ~buf.first_half
    BY <1>0, <1>1, <1>2, <1>4, <1>6, <1>7, <1>8, <1>9, <1>10, <1>11, <2>2
      DEF IInv, OldestInv, ConsumedInv
  <2>3. QED
    BY <2>1, <2>2
<1>15. ConsumedInv'
  BY <1>3, <1>4, <1>6, <1>7, <1>11 DEF ConsumedInv
<1>16. CursorInv'
  <2>1. CASE buf.first_half
    <3>1. needed > read_off - h
      BY <1>0, <1>8, <1>11, <2>1 DEF IInv, ConsumedInv
    <3>2. buf.pos <= h /\ cursor = read_off - h + buf.pos
      BY <1>0, <1>7, <1>8, <2>1, <3>1 DEF IInv, CursorInv
    <3>3. QED
      BY <1>1, <1>2, <1>3, <1>7, <1>9, <1>10, <2>1, <3>2 DEF CursorInv
  <2>2. CASE ~buf.first_half
    BY <1>0, <1>1, <1>2, <1>3, <1>4, <1>6, <1>7, <1>8, <1>9, <1>10, <1>11, <2>2
      DEF IInv, CursorInv, ConsumedInv
  <2>3. QED
    BY <2>1, <2>2
<1>17. LayoutInv'
  <2> SUFFICES ASSUME NEW i \in 0 .. 2 * h - 1,
                      Filled(i)', OffsetAt(i)' >= needed
               PROVE  buf'.storage[i] = OffsetAt(i)'
    BY <1>4, <1>10 DEF LayoutInv
  <2>1. CASE buf.first_half
    <3>1. buf'.storage[i] = IF h <= i /\ i < h + n THEN read_off + (i - h)
                                                   ELSE buf.storage[i]
      BY <1>0, <1>3, <2>1 DEF read_offset
    <3>2. OffsetAt(i)' = read_off - h + i /\ i < h + n
      BY <1>1, <1>2, <1>6, <1>7, <1>9, <2>1 DEF OffsetAt, Filled
    <3>3. i < h => OffsetAt(i) = read_off - h + i /\ Filled(i)
      BY <1>0, <1>7, <1>8, <2>1 DEF OffsetAt, Filled
    <3>4. QED
      BY <1>0, <1>2, <1>7, <1>10, <3>1, <3>2, <3>3 DEF IInv, LayoutInv
  <2>2. CASE ~buf.first_half
    <3>1. buf'.storage[i] = IF i < n THEN read_off + i ELSE buf.storage[i]
      BY <1>0, <1>2, <1>3, <2>2 DEF read_offset
    <3>2. /\ i < n \/ i >= h
          /\ OffsetAt(i)' = IF i >= h THEN read_off - 2 * h + i ELSE read_off + i
      BY <1>1, <1>2, <1>4, <1>6, <1>7, <1>9, <2>2 DEF OffsetAt, Filled
    <3>3. i >= h /\ buf.last_read # 0
            => OffsetAt(i) = read_off - 2 * h + i /\ Filled(i)
      BY <1>0, <1>7, <1>8, <2>2 DEF OffsetAt, Filled
    <3>4. QED
      BY <1>0, <1>2, <1>7, <1>8, <1>10, <2>2, <3>1, <3>2, <3>3 DEF IInv, LayoutInv
  <2>3. QED
    BY <2>1, <2>2
<1>18. AnswerInv'
  BY <1>0, <1>1, <1>2, <1>6, <1>10, <1>11
    DEF AnswerInv, OutOfBounds, EndOfLog, NoAnswer
<1>19. FullyConsumedIsTruthful'
  BY <1>3, <1>5 DEF IInv, FullyConsumedIsTruthful
<1>20. QED
  BY <1>12, <1>13, <1>14, <1>15, <1>16, <1>17, <1>18, <1>19 DEF IInv

\* Growing the buffer at its end: the old bytes keep their offsets, in order.
LEMMA IncreaseCapacityStep == IInv /\ IncreaseCapacity => IInv'
<1> SUFFICES ASSUME IInv, IncreaseCapacity PROVE IInv'
  OBVIOUS
<1>0. PICK h \in Nat : h >= 1 /\ buf.size = 2 * h /\ Half(buf) = h
  BY Numbers
<1>1. /\ IsBuffer(buf')
      /\ buf'.size = 2 * buf.size
      /\ buf'.storage = [i \in 0 .. 2 * buf.size - 1 |->
                           IF i >= buf.size THEN Unset
                           ELSE IF ~buf.first_half THEN buf.storage[i]
                           ELSE IF i < Half(buf) THEN buf.storage[i + Half(buf)]
                           ELSE buf.storage[i - Half(buf)]]
      /\ buf'.pos = buf.size
      /\ buf'.last_read = buf.size
      /\ buf'.first_half = TRUE
      /\ buf'.finished = buf.finished
      /\ buf'.fully_consumed = buf.fully_consumed
      /\ buf'.consumed_pos = buf.consumed_pos
  BY Numbers, IncreaseFields DEF IncreaseCapacity
<1>2. buf'.size = 2 * (2 * h) /\ Half(buf') = 2 * h /\ buf'.first_half
  BY <1>0, <1>1, HalfOfEven
<1>3. /\ buf.pos \in 0 .. 2 * h - 1
      /\ buf.consumed_pos \in Nat
      /\ read_off \in Nat
      /\ needed \in Nat
      /\ cursor \in Nat /\ needed <= cursor /\ cursor <= read_off
  BY <1>0, Numbers
<1>4. /\ cursor = read_off
      /\ buf.first_half => buf.last_read = h
      /\ ~buf.first_half => \/ buf.last_read = 0 /\ read_off = 0
                            \/ buf.last_read = 2 * h
  BY <1>0, <1>3, Numbers
    DEF IInv, AnswerInv, CursorInv, EndInv, OldestInv,
        out_of_bounds, at_end_of_log, IncreaseCapacity
<1>5. needed > read_off - 2 * h
  BY <1>0, <1>3, <1>4 DEF IInv, OldestInv
<1>6. got' = NoAnswer /\ UNCHANGED <<owner, source_len, read_off, cursor, needed>>
  BY DEF IncreaseCapacity
<1>7. TypeOK'
  <2>1. /\ buf'.first_half \in BOOLEAN
        /\ buf'.finished \in BOOLEAN
        /\ buf'.fully_consumed \in BOOLEAN
    BY <1>1, Zenon DEF IInv, TypeOK
  <2>2. buf'.storage \in [0 .. buf'.size - 1 -> Int]
    <3>1. \A i \in 0 .. 2 * h - 1 : buf.storage[i] \in Int
      BY <1>0 DEF IInv, TypeOK
    <3>2. ASSUME NEW i \in 0 .. buf'.size - 1 PROVE buf'.storage[i] \in Int
      BY <1>0, <1>1, <1>2, <3>1 DEF Unset
    <3>3. QED
      BY <1>1, <3>2
  <2>3. TwoHalves(buf')
    <3>1. buf.size \in 1 .. buf'.size /\ buf'.size = 2 * buf.size
      BY <1>0, <1>1
    <3>2. QED
      BY <3>1 DEF TwoHalves
  <2>4. /\ buf'.size \in Nat
        /\ buf'.last_read \in 0 .. buf'.size
        /\ buf'.pos \in 0 .. buf'.size - 1
        /\ got' \in Int
    BY <1>0, <1>1, <1>6 DEF NoAnswer
  <2>5. QED
    BY <1>1, <1>6, <2>1, <2>2, <2>3, <2>4, Zenon DEF IInv, TypeOK
<1>8. EndInv'
  BY <1>0, <1>1, <1>2 DEF EndInv
<1>9. OldestInv' /\ ConsumedInv'
  BY <1>0, <1>1, <1>2, <1>3, <1>5, <1>6 DEF OldestInv, ConsumedInv
<1>10. CursorInv'
  BY <1>0, <1>1, <1>3, <1>4, <1>6 DEF CursorInv
<1>11. LayoutInv'
  <2> SUFFICES ASSUME NEW i \in 0 .. 2 * (2 * h) - 1,
                      Filled(i)', OffsetAt(i)' >= needed
               PROVE  buf'.storage[i] = OffsetAt(i)'
    BY <1>2, <1>6 DEF LayoutInv
  <2>1. i < 2 * h /\ OffsetAt(i)' = read_off - 2 * h + i
    BY <1>0, <1>1, <1>2, <1>3, <1>5, <1>6 DEF Filled, OffsetAt
  <2>2. CASE buf.first_half
    <3>1. CASE i < h
      <4>1. buf'.storage[i] = buf.storage[i + h]
        BY <1>0, <1>1, <2>1, <2>2, <3>1
      <4>2. Filled(i + h) /\ OffsetAt(i + h) = read_off - 2 * h + i
        BY <1>0, <1>3, <1>4, <2>2, <3>1 DEF Filled, OffsetAt
      <4>3. i + h \in 0 .. buf.size - 1
        BY <1>0, <3>1
      <4>4. QED
        BY <1>6, <2>1, <4>1, <4>2, <4>3 DEF IInv, LayoutInv
    <3>2. CASE i >= h
      <4>1. buf'.storage[i] = buf.storage[i - h]
        BY <1>0, <1>1, <2>1, <2>2, <3>2
      <4>2. Filled(i - h) /\ OffsetAt(i - h) = read_off - 2 * h + i
        BY <1>0, <1>3, <1>4, <2>1, <2>2, <3>2 DEF Filled, OffsetAt
      <4>3. i - h \in 0 .. buf.size - 1
        BY <1>0, <2>1, <3>2
      <4>4. QED
        BY <1>6, <2>1, <4>1, <4>2, <4>3 DEF IInv, LayoutInv
    <3>3. QED
      BY <3>1, <3>2
  <2>3. CASE ~buf.first_half
    <3>1. buf'.storage[i] = buf.storage[i]
      BY <1>0, <1>1, <2>1, <2>3
    <3>2. buf.last_read = 2 * h
      BY <1>3, <1>4, <2>1, <2>3
    <3>3. Filled(i) /\ OffsetAt(i) = read_off - 2 * h + i
      BY <1>0, <1>3, <2>1, <2>3, <3>2 DEF Filled, OffsetAt
    <3>4. i \in 0 .. buf.size - 1
      BY <1>0, <2>1
    <3>5. QED
      BY <1>6, <2>1, <3>1, <3>3, <3>4 DEF IInv, LayoutInv
  <2>4. QED
    BY <2>2, <2>3
<1>12. AnswerInv' /\ FullyConsumedIsTruthful'
  BY <1>1, <1>6 DEF IInv, AnswerInv, FullyConsumedIsTruthful,
                    OutOfBounds, EndOfLog, NoAnswer
<1>13. QED
  BY <1>7, <1>8, <1>9, <1>10, <1>11, <1>12 DEF IInv

\* The caller's own array takes the place of the storage.
LEMMA SetStorageStep == IInv /\ SetStorage => IInv'
<1> SUFFICES ASSUME SetStorage PROVE IInv'
  OBVIOUS
<1>0. PICK n \in 1 .. MaxLogLen, f \in BOOLEAN :
        \E p \in 0 .. n :
          /\ buf' = set_storage(StaticSize, n, p, f)
          /\ owner' = "user"
          /\ source_len' = n
          /\ read_off' = n
          /\ cursor' = p
          /\ needed' = p
          /\ got' = NoAnswer
  BY DEF SetStorage
<1>1. PICK p \in 0 .. n :
        /\ buf' = set_storage(StaticSize, n, p, f)
        /\ owner' = "user"
        /\ source_len' = n
        /\ read_off' = n
        /\ cursor' = p
        /\ needed' = p
        /\ got' = NoAnswer
  BY <1>0
<1>2. /\ IsBuffer(buf')
      /\ buf'.size = 2 * n
      /\ buf'.storage = [i \in 0 .. 2 * n - 1 |-> IF i < n THEN i ELSE Unset]
      /\ buf'.pos = p
      /\ buf'.last_read = n
      /\ buf'.first_half = TRUE
      /\ buf'.finished = f
      /\ buf'.fully_consumed = FALSE
      /\ buf'.consumed_pos = StaticSize - 1
  <2>1. buf' = set_storage(StaticSize, n, p, f)
    BY <1>1
  <2>2. QED
    BY <2>1 DEF set_storage, reset, IsBuffer
<1>3. n \in Nat /\ n >= 1 /\ Half(buf') = n
  BY <1>2, BoundAssumption, HalfOfEven
<1>4. TypeOK'
  <2>1. /\ buf'.first_half \in BOOLEAN
        /\ buf'.finished \in BOOLEAN
        /\ buf'.fully_consumed \in BOOLEAN
    BY <1>2, Zenon
  <2>2. buf'.storage \in [0 .. buf'.size - 1 -> Int]
    BY <1>2, <1>3 DEF Unset
  <2>3. TwoHalves(buf')
    <3>1. n \in 1 .. buf'.size
      BY <1>2, <1>3
    <3>2. QED
      BY <1>2, <3>1 DEF TwoHalves
  <2>4. /\ buf'.size \in Nat
        /\ buf'.last_read \in 0 .. buf'.size
        /\ buf'.pos \in 0 .. buf'.size - 1
        /\ buf'.consumed_pos \in Nat
        /\ got' \in Int
    BY <1>1, <1>2, <1>3, StaticSizeAssumption DEF NoAnswer
  <2>5. /\ source_len' \in Nat /\ read_off' \in 0 .. source_len'
        /\ needed' \in Nat /\ cursor' \in needed' .. read_off'
    BY <1>1, <1>3
  <2>6. QED
    BY <1>1, <1>2, <2>1, <2>2, <2>3, <2>4, <2>5, Zenon DEF TypeOK
<1>5. EndInv' /\ OldestInv' /\ ConsumedInv' /\ CursorInv'
  BY <1>1, <1>2, <1>3 DEF EndInv, OldestInv, ConsumedInv, CursorInv
<1>6. LayoutInv'
  <2> SUFFICES ASSUME NEW i \in 0 .. 2 * n - 1,
                      Filled(i)', OffsetAt(i)' >= p
               PROVE  buf'.storage[i] = OffsetAt(i)'
    BY <1>1, <1>2 DEF LayoutInv
  <2>1. i < n /\ OffsetAt(i)' = i
    BY <1>1, <1>2, <1>3 DEF Filled, OffsetAt
  <2>2. QED
    BY <1>2, <1>3, <2>1
<1>7. AnswerInv' /\ FullyConsumedIsTruthful'
  BY <1>1, <1>2 DEF AnswerInv, FullyConsumedIsTruthful,
                    OutOfBounds, EndOfLog, NoAnswer
<1>8. QED
  BY <1>4, <1>5, <1>6, <1>7 DEF IInv

\* Starting on a new log.
LEMMA ResetStep == IInv /\ Reset => IInv'
<1>1. Init' => IInv'
  BY InitIInv, PTL
<1>2. Reset => Init'
  BY DEF Reset, Init
<1>3. QED
  BY <1>1, <1>2

\* Every step preserves the invariant.
LEMMA NextIInv == IInv /\ [Next]_vars => IInv'
<1>1. IInv /\ UNCHANGED vars => IInv'
  BY DEF IInv, TypeOK, EndInv, OldestInv, ConsumedInv, CursorInv, LayoutInv,
         Filled, OffsetAt, AnswerInv, FullyConsumedIsTruthful, vars
<1>2. QED
  BY <1>1, ResetStep, SetStorageStep, ReadIfSafeStep, ReadEndOfFileStep,
     IncreaseCapacityStep, GetEndOfLogStep, GetOutOfBoundsStep,
     GetCharacterStep, GoBackStep, PutBackStep, SetConsumedPosStep DEF Next

\* The invariant holds in every reachable state.
THEOREM InductiveInvariant == Spec => []IInv
BY InitIInv, NextIInv, PTL DEF Spec

-----------------------------------------------------------------------------
(***************************************************************************)
(* What follows from it.                                                   *)
(***************************************************************************)

\* The fields of ParserInputBuffer keep their types: no position ever leaves
\* the storage, no read goes beyond it.
THEOREM TypeCorrect == Spec => []TypeOK
<1>1. IInv => TypeOK
  BY DEF IInv
<1>2. QED
  BY <1>1, InductiveInvariant, PTL

\* No byte that the caller still needs is overwritten by a read or lost when
\* the buffer wraps or grows.
THEOREM NothingNeededIsLost == Spec => []UnconsumedResident
<1>1. IInv => UnconsumedResident
  <2> SUFFICES ASSUME IInv, NEW a \in needed .. read_off - 1,
                      NEW p, p = IF a <= cursor THEN PosOf(a)
                                 ELSE IF buf.pos + (a - cursor) < buf.size
                                      THEN buf.pos + (a - cursor)
                                      ELSE buf.pos + (a - cursor) - buf.size
               PROVE  buf.storage[p] = a
    BY DEF UnconsumedResident
  <2>1. PICK h \in Nat : h >= 1 /\ buf.size = 2 * h /\ Half(buf) = h
    BY Numbers
  <2>2. p \in 0 .. buf.size - 1 /\ Filled(p) /\ OffsetAt(p) = a
    <3>1. CASE a <= cursor
      BY <2>1, <3>1, PosOfPassed, Numbers DEF IInv, EndInv, OldestInv, Filled, OffsetAt
    <3>2. CASE a > cursor
      BY <2>1, <3>2, Numbers DEF IInv, EndInv, OldestInv, CursorInv, Filled, OffsetAt
    <3>3. QED
      BY <3>1, <3>2, Numbers
  <2>3. QED
    BY <2>2, Numbers DEF IInv, LayoutInv
<1>2. QED
  BY <1>1, InductiveInvariant, PTL

\* log_fully_consumed() tells the truth.
THEOREM FullyConsumedTruth == Spec => []FullyConsumedIsTruthful
<1>1. IInv => FullyConsumedIsTruthful
  BY DEF IInv
<1>2. QED
  BY <1>1, InductiveInvariant, PTL

\* With a reader that returns all the bytes it is asked for until its input
\* ends, the end of the log is announced at the end of the log only.
THEOREM EndTruth == ~ShortReads => (Spec => []EndAnnouncedAtEnd)
<1> SUFFICES ASSUME ~ShortReads PROVE Spec => []EndAnnouncedAtEnd
  OBVIOUS
<1>1. IInv => EndAnnouncedAtEnd
  BY DEF IInv, AnswerInv, EndAnnouncedAtEnd
<1>2. QED
  BY <1>1, InductiveInvariant, PTL

\* get_next_character delivers the byte at the cursor.
LEMMA DeliversCursor ==
  ASSUME IInv, GetCharacter
  PROVE  got' = cursor /\ cursor < source_len
<1>0. PICK h \in Nat : h >= 1 /\ buf.size = 2 * h /\ Half(buf) = h
  BY Numbers
<1>1. /\ cursor < read_off
      /\ \/ /\ buf.pos < buf.last_read
            /\ cursor = read_off - buf.last_read + buf.pos
         \/ /\ buf.first_half
            /\ buf.pos > Half(buf)
            /\ cursor = read_off - buf.last_read - buf.size + buf.pos
  BY CharacterLeft DEF GetCharacter
<1>2. QED
  BY <1>0, <1>1, Numbers DEF IInv, LayoutInv, Filled, OffsetAt, EndInv,
                             curr_value, GetCharacter

\* A step of the buffer is a step of the cursor.
LEMMA PromiseStep ==
  ASSUME IInv, [Next]_vars, ~ShortReads
  PROVE  [Promise!Next]_(Promise!vars)
<1> USE DEF Promise!Next, Promise!vars, Promise!NoAnswer, NoAnswer
<1>1. CASE UNCHANGED vars
  BY <1>1 DEF vars
<1>2. CASE Reset
  <2>1. source_len' \in Nat
    BY <1>2, BoundAssumption DEF Reset
  <2>2. Promise!NewInput
    BY <1>2, <2>1 DEF Reset, Promise!NewInput
  <2>3. QED
    BY <2>2
<1>3. CASE SetStorage
  <2>1. PICK n \in 1 .. MaxLogLen :
          /\ source_len' = n
          /\ cursor' \in 0 .. n
          /\ needed' = cursor'
          /\ got' = NoAnswer
    BY <1>3 DEF SetStorage
  <2>2. Promise!NewInput
    BY <2>1, BoundAssumption DEF Promise!NewInput
  <2>3. QED
    BY <2>2
<1>4. CASE ReadIfSafe
  BY <1>4 DEF ReadIfSafe, Promise!Housekeeping
<1>5. CASE ReadEndOfFile
  BY <1>5 DEF ReadEndOfFile, Promise!Housekeeping
<1>6. CASE IncreaseCapacity
  BY <1>6 DEF IncreaseCapacity, Promise!Housekeeping
<1>7. CASE GetEndOfLog
  <2>1. cursor = source_len
    BY <1>7, Numbers DEF IInv, CursorInv, EndInv, AnswerInv, at_end_of_log,
                         GetEndOfLog
  <2>2. QED
    BY <1>7, <2>1 DEF GetEndOfLog, Promise!AnnounceEnd, Promise!EndOfLog, EndOfLog
<1>8. CASE GetOutOfBounds
  BY <1>8 DEF GetOutOfBounds, Promise!Postpone, Promise!OutOfBounds, OutOfBounds
<1>9. CASE GetCharacter
  <2>1. got' = cursor /\ cursor < source_len
    BY <1>9, DeliversCursor
  <2>2. QED
    BY <1>9, <2>1 DEF GetCharacter, Promise!Deliver
<1>10. CASE GoBack
  BY <1>10 DEF GoBack, Promise!GoBack
<1>11. CASE PutBack
  <2>1. cursor' \in needed .. cursor
    BY <1>11, Numbers DEF PutBack
  <2>2. QED
    BY <1>11, <2>1 DEF PutBack, Promise!GoBack
<1>12. CASE SetConsumedPos
  <2>1. needed' \in needed .. cursor
    BY <1>12, Numbers DEF SetConsumedPos
  <2>2. QED
    BY <1>12, <2>1 DEF SetConsumedPos, Promise!Consume
<1>13. QED
  BY <1>1, <1>2, <1>3, <1>4, <1>5, <1>6, <1>7, <1>8, <1>9, <1>10, <1>11, <1>12
    DEF Next

\* ParserInputBuffer implements LogCursor: through every read, wrap, growth
\* and reordering of halves the caller sees the bytes of the log in order.
THEOREM ImplementsCursor == ~ShortReads => (Spec => PromiseSpec)
<1> SUFFICES ASSUME ~ShortReads PROVE Spec => PromiseSpec
  OBVIOUS
<1>1. Init => Promise!Init
  BY DEF Init, Promise!Init, NoAnswer, Promise!NoAnswer
<1>2. IInv /\ [Next]_vars => [Promise!Next]_(Promise!vars)
  BY PromiseStep
<1>3. QED
  BY <1>1, <1>2, InductiveInvariant, PTL DEF Spec, PromiseSpec, Promise!Spec

-----------------------------------------------------------------------------
(***************************************************************************)
(* When the buffer grows.                                                  *)
(***************************************************************************)

\* A step that leaves the data, the consumed position and what the caller
\* needs alone keeps what the consumed position says.
LEMMA HeldKeeps ==
  ASSUME HeldInv,
         SameData(buf, buf'),
         buf.finished => buf'.finished,
         buf'.consumed_pos = buf.consumed_pos,
         UNCHANGED <<owner, read_off, needed>>
  PROVE  HeldInv'
BY DEF HeldInv, SameData, Half

\* A fresh buffer: nothing was read and the consumed position is the last one.
LEMMA HeldFresh ==
  ASSUME buf = reset(StaticSize)
  PROVE  HeldInv
<1>1. PICK h \in 2 .. StaticSize : StaticSize = 2 * h
  BY StaticSizeAssumption
<1>2. /\ buf.size = StaticSize
      /\ buf.last_read = 0
      /\ buf.first_half = FALSE
      /\ buf.consumed_pos = StaticSize - 1
  BY ResetFields, Zenon
<1>3. StaticSize \in Nat
  BY StaticSizeAssumption
<1>4. QED
  BY <1>1, <1>2, <1>3 DEF HeldInv

\* A full read: what is needed is in the half that the read did not touch.
LEMMA HeldRead == IInv /\ HeldInv /\ ReadIfSafe => HeldInv'
<1> SUFFICES ASSUME IInv, HeldInv, ReadIfSafe PROVE HeldInv'
  OBVIOUS
<1>0. PICK h \in Nat : h >= 1 /\ buf.size = 2 * h /\ Half(buf) = h
  BY Numbers
<1>1. PICK n \in ReaderReturns(Half(buf)) :
        /\ buf' = read_success(buf, read_off, n)
        /\ read_off' = read_off + n
  BY DEF ReadIfSafe
<1>2. n \in Nat /\ 1 <= n /\ n <= h
  BY <1>0, Numbers DEF ReaderReturns, ReadIfSafe
<1>3. /\ IsBuffer(buf')
      /\ buf'.size = buf.size
      /\ buf'.storage = [i \in 0 .. buf.size - 1 |->
                           IF read_offset(buf) <= i /\ i < read_offset(buf) + n
                           THEN read_off + (i - read_offset(buf))
                           ELSE buf.storage[i]]
      /\ buf'.pos = buf.pos
      /\ buf'.last_read = IF buf.last_read + n > buf.size
                          THEN (buf.last_read + n) - buf.size
                          ELSE buf.last_read + n
      /\ buf'.first_half = ~buf.first_half
      /\ buf'.finished = (buf.finished \/ n < Half(buf))
      /\ buf'.fully_consumed = buf.fully_consumed
      /\ buf'.consumed_pos = buf.consumed_pos
  BY <1>1, Numbers, ReadFields
<1>4. Half(buf') = h
  BY <1>0, <1>3, HalfOfEven
<1>5. n < h => buf'.finished
  BY <1>0, <1>3, Zenon
<1>6. /\ UNCHANGED <<owner, needed>>
      /\ owner = "reader"
  BY DEF ReadIfSafe
<1>7. buf'.last_read # 0
  BY <1>0, <1>2, <1>3, Numbers
<1>8. needed <= read_off
  BY Numbers
<1>9. QED
  BY <1>0, <1>1, <1>2, <1>3, <1>4, <1>5, <1>6, <1>7, <1>8, Numbers DEF HeldInv

\* After growth the consumed position is in the first half: a read is safe.
LEMMA HeldIncrease == IInv /\ HeldInv /\ IncreaseCapacity => HeldInv'
<1> SUFFICES ASSUME IInv, HeldInv, IncreaseCapacity PROVE HeldInv'
  OBVIOUS
<1>0. PICK h \in Nat : h >= 1 /\ buf.size = 2 * h /\ Half(buf) = h
  BY Numbers
<1>1. /\ buf'.size = 2 * buf.size
      /\ buf'.last_read = buf.size
      /\ buf'.first_half = TRUE
      /\ buf'.consumed_pos = buf.consumed_pos
  BY Numbers, IncreaseFields DEF IncreaseCapacity
<1>2. Half(buf') = 2 * h
  BY <1>0, <1>1, HalfOfEven
<1>3. owner = "reader" /\ owner' = "reader"
  BY DEF IncreaseCapacity
<1>4. QED
  BY <1>0, <1>1, <1>2, <1>3, Numbers DEF HeldInv

\* A consumed position that does not make a read safe is that of a byte at
\* least half a buffer back, for the byte after it has been read already.
LEMMA HeldConsumed == IInv /\ HeldInv /\ SetConsumedPos => HeldInv'
<1> SUFFICES ASSUME IInv, HeldInv, SetConsumedPos PROVE HeldInv'
  OBVIOUS
<1> USE DEF SetConsumedPos
<1>0. PICK h \in Nat : h >= 1 /\ buf.size = 2 * h /\ Half(buf) = h
  BY Numbers
<1>1. PICK a \in needed + 1 .. cursor, c \in needed .. cursor :
        /\ a < read_off \/ buf.finished
        /\ c = a \/ c = a - 1
        /\ buf' = set_consumed_pos(buf, PosOf(c))
        /\ needed' = a
  BY Numbers
<1>2. /\ SameData(buf, buf')
      /\ buf'.finished = buf.finished
      /\ buf'.consumed_pos = PosOf(c)
  BY <1>1, Numbers, ConsumedFields
<1>3. /\ buf'.size = buf.size
      /\ buf'.last_read = buf.last_read
      /\ buf'.first_half = buf.first_half
      /\ Half(buf') = Half(buf)
  BY <1>2 DEF SameData, Half
<1>4. /\ PosOf(c) \in 0 .. buf.size - 1
      /\ \/ /\ PosOf(c) <= buf.last_read
            /\ c = read_off - buf.last_read + PosOf(c)
         \/ /\ buf.first_half
            /\ PosOf(c) > Half(buf)
            /\ c = read_off - buf.last_read - buf.size + PosOf(c)
         \/ /\ ~buf.first_half
            /\ PosOf(c) = 0
            /\ buf.last_read = buf.size
            /\ c = read_off
  BY PosOfPassed
<1>5. buf.last_read # 0
  BY <1>1, Numbers DEF IInv, EndInv
<1>6. ~buf.finished => buf.last_read = IF buf.first_half THEN h ELSE 2 * h
  BY <1>0, <1>5 DEF IInv, EndInv
<1>7. QED
  BY <1>0, <1>1, <1>2, <1>3, <1>4, <1>5, <1>6, Numbers DEF HeldInv

\* Every step preserves HeldInv.
LEMMA NextHeldInv == IInv /\ HeldInv /\ [Next]_vars => HeldInv'
<1> SUFFICES ASSUME IInv, HeldInv, [Next]_vars PROVE HeldInv'
  OBVIOUS
<1>1. CASE UNCHANGED vars
  BY <1>1 DEF HeldInv, vars
<1>2. CASE Reset
  <2>1. (buf = reset(StaticSize) => HeldInv)'
    BY HeldFresh, PTL
  <2>2. QED
    BY <1>2, <2>1 DEF Reset
<1>3. CASE SetStorage
  BY <1>3 DEF SetStorage, HeldInv
<1>4. CASE ReadIfSafe
  BY <1>4, HeldRead
<1>5. CASE ReadEndOfFile
  BY <1>5, Numbers, EofFields, HeldKeeps DEF ReadEndOfFile
<1>6. CASE IncreaseCapacity
  BY <1>6, HeldIncrease
<1>7. CASE GetEndOfLog
  BY <1>7, Numbers, EndOfLogFields, HeldKeeps DEF GetEndOfLog
<1>8. CASE GetOutOfBounds
  BY <1>8 DEF GetOutOfBounds, HeldInv
<1>9. CASE GetCharacter
  <2>1. buf' = set_pos(buf, next_pos(buf, buf.pos))
    BY <1>9 DEF GetCharacter, advance, set_pos
  <2>2. QED
    BY <1>9, <2>1, Numbers, MoveFields, HeldKeeps DEF GetCharacter
<1>10. CASE GoBack
  <2>1. PICK a : buf' = set_pos(set_log_fully_consumed(buf, FALSE), PosOf(a))
    BY <1>10 DEF GoBack
  <2>2. /\ SameData(buf, buf')
        /\ buf'.finished = buf.finished
        /\ buf'.consumed_pos = buf.consumed_pos
    <3>1. IsBuffer(buf)
      BY Numbers
    <3>2. QED
      BY <2>1, <3>1 DEF set_pos, set_log_fully_consumed, IsBuffer, SameData
  <2>3. QED
    BY <1>10, <2>2, HeldKeeps DEF GoBack
<1>11. CASE PutBack
  BY <1>11, Numbers, MoveFields, HeldKeeps DEF PutBack
<1>12. CASE SetConsumedPos
  BY <1>12, HeldConsumed
<1>13. QED
  BY <1>1, <1>2, <1>3, <1>4, <1>5, <1>6, <1>7, <1>8, <1>9, <1>10, <1>11, <1>12
    DEF Next

\* ReaderParser's growth costs are bounded by its events: when the buffer has
\* to grow, the caller holds on to half a buffer, less one byte.
THEOREM GrowthIsForLongEvents == Spec => []GrowthOnlyForLongEvents
<1>1. Init => HeldInv
  BY HeldFresh DEF Init
<1>2. IInv /\ HeldInv => GrowthOnlyForLongEvents
  <2> SUFFICES ASSUME IInv, HeldInv,
                      got = OutOfBounds, owner = "reader",
                      ~buf.finished, ~read_is_safe(buf), buf.consumed_pos # 0
               PROVE  cursor - needed >= Half(buf) - 1
    BY DEF GrowthOnlyForLongEvents
  <2>0. PICK h \in Nat : h >= 1 /\ buf.size = 2 * h /\ Half(buf) = h
    BY Numbers
  <2>1. cursor = read_off
    BY <2>0, Numbers
      DEF IInv, AnswerInv, CursorInv, EndInv, OldestInv, out_of_bounds
  <2>2. /\ buf.first_half => buf.consumed_pos >= h
        /\ ~buf.first_half => buf.consumed_pos <= h
    BY <2>0, Numbers DEF read_is_safe
  <2>3. QED
    BY <2>0, <2>1, <2>2, Numbers DEF HeldInv
<1>3. QED
  BY <1>1, <1>2, NextHeldInv, InductiveInvariant, InitIInv, PTL DEF Spec

=============================================================================
