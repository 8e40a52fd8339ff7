------------------------- MODULE ReaderParserProofs -------------------------
(***************************************************************************)
(* Proofs about ReaderParser, for every schema, every log, every even size *)
(* of the static buffer and any number of growths: the types of its state, *)
(* and that it returns the log piece by piece.                             *)
(***************************************************************************)
EXTENDS ReaderParser, TLAPS

-----------------------------------------------------------------------------
(***************************************************************************)
(* The methods of the input buffer: the position stays in the storage, and *)
(* the storage holds what was read.                                        *)
(***************************************************************************)

\* A buffer with these fields is one whose storage holds what was read.
LEMMA StorageFields ==
  ASSUME NEW b, NEW n,
         IsBuffer(b), b.size \in Nat \ {0}, b.pos \in 0 .. b.size - 1,
         b.storage \in [0 .. b.size - 1 -> Unset .. n - 1]
  PROVE  StorageOf(b, n)
BY DEF StorageOf

\* get_next_character wraps at the end of the storage.
LEMMA TakenInStorage ==
  ASSUME NEW b, NEW n, StorageOf(b, n), NEW c, c = taken(b)
  PROVE  StorageOf(c, n) /\ c.size = b.size
<1>1. CASE at_end_of_log(b)
  BY <1>1 DEF taken, consume_log, StorageOf, IsBuffer
<1>2. CASE ~at_end_of_log(b)
  <2>1. next_pos(b, b.pos) \in 0 .. b.size - 1
    BY DEF next_pos, StorageOf
  <2>2. c = [b EXCEPT !.pos = next_pos(b, b.pos)]
    BY <1>2 DEF taken, advance
  <2>3. QED
    BY <2>1, <2>2 DEF StorageOf, IsBuffer
<1>3. QED
  BY <1>1, <1>2

\* The lexer goes back to one of its positions.
LEMMA MovedInStorage ==
  ASSUME NEW b, NEW n, StorageOf(b, n), NEW p \in 0 .. b.size - 1
  PROVE  /\ StorageOf(go_back(b, p), n) /\ go_back(b, p).size = b.size
         /\ StorageOf(set_pos(b, p), n) /\ set_pos(b, p).size = b.size
<1>1. IsBuffer(b)
  BY DEF StorageOf
<1>2. PICK c, d : c = go_back(b, p) /\ d = set_pos(b, p)
  OBVIOUS
<1>3. /\ IsBuffer(c) /\ c.size = b.size /\ c.pos = p /\ c.storage = b.storage
      /\ IsBuffer(d) /\ d.size = b.size /\ d.pos = p /\ d.storage = b.storage
  BY <1>1, <1>2 DEF go_back, set_pos, set_log_fully_consumed, IsBuffer
<1>4. QED
  BY <1>2, <1>3 DEF StorageOf

\* The parser gives up the bytes up to a position.
LEMMA ConsumedInStorage ==
  ASSUME NEW b, NEW n, StorageOf(b, n), NEW p
  PROVE  StorageOf(set_consumed_pos(b, p), n) /\ set_consumed_pos(b, p).size = b.size
BY DEF set_consumed_pos, StorageOf, IsBuffer

\* A read adds bytes of the log, as many as it counts.
LEMMA ReadInStorage ==
  ASSUME log \in Seq(Chars), read_off \in 0 .. Len(log),
         NEW b, StorageOf(b, read_off), ReadInto(b)
  PROVE  /\ read_off' \in 0 .. Len(log)
         /\ StorageOf(buf', read_off') /\ buf'.size = b.size
<1>1. Len(log) \in Nat /\ read_off \in Nat /\ read_off <= Len(log)
  OBVIOUS
<1>2. CASE ~read_is_safe(b) /\ buf' = b /\ UNCHANGED read_off
  BY <1>2
<1>3. CASE /\ read_off < Len(log)
           /\ LET left == Len(log) - read_off
                  n    == IF left < Half(b) THEN left ELSE Half(b)
              IN buf' = read_success(b, read_off, n) /\ read_off' = read_off + n
  <2>1. PICK n : /\ n = IF Len(log) - read_off < Half(b) THEN Len(log) - read_off
                        ELSE Half(b)
                 /\ buf' = read_success(b, read_off, n)
                 /\ read_off' = read_off + n
    BY <1>3
  <2>2. Half(b) \in Nat
    BY DEF Half, StorageOf
  <2>3. n \in Nat /\ read_off + n <= Len(log)
    BY <1>1, <2>1, <2>2
  <2>4. PICK bytes : bytes = [i \in 0 .. b.size - 1 |->
          IF read_offset(b) <= i /\ i < read_offset(b) + n
          THEN read_off + (i - read_offset(b)) ELSE b.storage[i]]
    OBVIOUS
  <2>5. bytes \in [0 .. b.size - 1 -> Unset .. (read_off + n) - 1]
    <3>1. read_offset(b) \in Nat
      BY <2>2 DEF read_offset
    <3>2. ASSUME NEW i \in 0 .. b.size - 1
          PROVE  bytes[i] \in Unset .. (read_off + n) - 1
      <4>1. b.storage[i] \in Unset .. read_off - 1
        BY DEF StorageOf
      <4>2. i \in Nat
        BY DEF StorageOf
      <4>3. PICK r \in Nat, o \in Nat : r = read_off /\ o = read_offset(b)
        BY <1>1, <3>1
      <4>4. CASE o <= i /\ i < o + n
        <5>1. bytes[i] = r + (i - o)
          BY <2>4, <4>3, <4>4
        <5>2. r + (i - o) \in Unset .. (r + n) - 1
          BY <2>3, <4>2, <4>4 DEF Unset
        <5>3. QED
          BY <4>3, <5>1, <5>2
      <4>5. CASE ~(o <= i /\ i < o + n)
        <5>1. bytes[i] = b.storage[i]
          BY <2>4, <4>3, <4>5
        <5>2. bytes[i] \in Unset .. r - 1
          BY <4>1, <4>3, <5>1
        <5>3. QED
          BY <2>3, <4>3, <5>2 DEF Unset
      <4>6. QED
        BY <4>4, <4>5
    <3>3. QED
      BY <2>4, <3>2
  <2>6. /\ IsBuffer(buf') /\ buf'.size = b.size /\ buf'.pos = b.pos
        /\ buf'.storage = bytes
    <3>1. IsBuffer(b)
      BY DEF StorageOf
    <3>2. PICK end, half, last :
            buf' = [ b EXCEPT !.storage = bytes, !.first_half = half,
                              !.finished = end, !.last_read = last ]
      BY <2>1, <2>4 DEF read_success
    <3>3. QED
      BY <3>1, <3>2 DEF IsBuffer
  <2>7. StorageOf(buf', read_off + n)
    <3>1. b.size \in Nat \ {0} /\ b.pos \in 0 .. b.size - 1
      BY DEF StorageOf
    <3>2. PICK c : c = buf'
      OBVIOUS
    <3>3. c.storage \in [0 .. c.size - 1 -> Unset .. (read_off + n) - 1]
      BY <2>5, <2>6, <3>2
    <3>4. IsBuffer(c) /\ c.size \in Nat \ {0} /\ c.pos \in 0 .. c.size - 1
      BY <2>6, <3>1, <3>2
    <3>5. QED
      BY <3>2, <3>3, <3>4, StorageFields
  <2>8. read_off + n \in 0 .. Len(log)
    BY <1>1, <2>3
  <2>9. QED
    BY <2>1, <2>6, <2>7, <2>8
<1>4. CASE buf' = read_eof(b) /\ UNCHANGED read_off
  BY <1>4 DEF read_eof, StorageOf, IsBuffer
<1>5. QED
  BY <1>2, <1>3, <1>4 DEF ReadInto

\* Growth puts the old bytes into the lower half of a storage twice as large.
LEMMA GrownStorage ==
  ASSUME NEW b, NEW n \in Nat, StorageOf(b, n), NEW c, c = increase_capacity(b)
  PROVE  StorageOf(c, n) /\ c.size = 2 * b.size
<1>1. b.size \in Nat /\ b.size > 0
  BY DEF StorageOf
<1>2. Half(b) \in Nat /\ 2 * Half(b) <= b.size /\ b.size <= 2 * Half(b) + 1
  BY <1>1 DEF Half
<1>3. PICK bytes : bytes =
        [i \in 0 .. 2 * b.size - 1 |->
           IF i >= b.size THEN Unset
           ELSE IF ~flipped_static_buffer(b) THEN b.storage[i]
           ELSE IF i < Half(b) THEN b.storage[i + Half(b)]
           ELSE b.storage[i - Half(b)]]
  OBVIOUS
<1>4. ASSUME NEW i \in 0 .. 2 * b.size - 1
      PROVE  bytes[i] \in Unset .. n - 1
  <2>1. \A k \in 0 .. b.size - 1 : b.storage[k] \in Unset .. n - 1
    BY DEF StorageOf
  <2>2. Unset \in Unset .. n - 1
    BY DEF Unset
  <2>3. CASE i >= b.size
    BY <1>3, <2>2, <2>3
  <2>4. CASE i < b.size /\ ~flipped_static_buffer(b)
    BY <1>1, <1>3, <2>1, <2>4
  <2>5. CASE i < b.size /\ flipped_static_buffer(b) /\ i < Half(b)
    <3>1. bytes[i] = b.storage[i + Half(b)]
      BY <1>1, <1>3, <2>5
    <3>2. i + Half(b) \in 0 .. b.size - 1
      BY <1>1, <1>2, <2>5
    <3>3. QED
      BY <2>1, <3>1, <3>2
  <2>6. CASE i < b.size /\ flipped_static_buffer(b) /\ ~(i < Half(b))
    <3>1. bytes[i] = b.storage[i - Half(b)]
      BY <1>1, <1>3, <2>6
    <3>2. i - Half(b) \in 0 .. b.size - 1
      BY <1>1, <1>2, <2>6
    <3>3. QED
      BY <2>1, <3>1, <3>2
  <2>7. QED
    BY <1>1, <2>3, <2>4, <2>5, <2>6
<1>5. bytes \in [0 .. 2 * b.size - 1 -> Unset .. n - 1]
  BY <1>3, <1>4
<1>6. IsBuffer(c) /\ c.size = 2 * b.size /\ c.pos = b.size /\ c.storage = bytes
  BY <1>3 DEF increase_capacity, IsBuffer, StorageOf
<1>7. QED
  BY <1>1, <1>5, <1>6 DEF StorageOf

-----------------------------------------------------------------------------
(***************************************************************************)
(* The parts of the lexer.                                                 *)
(***************************************************************************)

\* What get_next_character delivers: the automaton has an answer for it.
LEMMA CharacterOfLog ==
  ASSUME TypeInv, NEW c \in NextChars
  PROVE  c \in Chars \cup {CharEOF}
<1>1. CASE at_end_of_log(buf)
  BY <1>1 DEF NextChars
<1>2. CASE ~at_end_of_log(buf)
  <2>1. c \in CharsOf(curr_value(buf))
    BY <1>2 DEF NextChars
  <2>2. curr_value(buf) \in Unset .. read_off - 1
    BY DEF TypeInv, StorageOf, curr_value
  <2>3. read_off \in Nat /\ read_off <= Len(log) /\ log \in Seq(Chars)
    BY DEF TypeInv
  <2>4. CASE curr_value(buf) = Unset
    BY <2>1, <2>4 DEF CharsOf
  <2>5. CASE curr_value(buf) # Unset
    <3>1. c = log[curr_value(buf) + 1]
      BY <2>1, <2>5 DEF CharsOf
    <3>2. curr_value(buf) + 1 \in 1 .. Len(log)
      BY <2>2, <2>3, <2>5 DEF Unset
    <3>3. QED
      BY <2>3, <3>1, <3>2
  <2>6. QED
    BY <2>4, <2>5
<1>3. QED
  BY <1>1, <1>2

\* A step of the automaton.
LEMMA ProcessedWithin ==
  ASSUME NEW n, NEW x, LexerWithin(x, n), NEW c \in Chars \cup {CharEOF},
         NEW y, y = process_char(x, c)
  PROVE  LexerWithin(y, n)
<1>1. PICK s : s = IF x.state = Null \/ c = CharEOF THEN Null
                   ELSE Transition[x.state][c]
  OBVIOUS
<1>2. x.state \in DfaStates \cup {Null}
  BY DEF LexerWithin, Lexers
<1>3. s \in DfaStates \cup {Null}
  BY <1>1, <1>2, SchemaAssumption
<1>4. y = [x EXCEPT !.state = s]
  BY <1>1 DEF process_char
<1>5. QED
  BY <1>3, <1>4 DEF LexerWithin, Lexers

\* The main loop notes the position of the character it has taken.
LEMMA SeenWithin ==
  ASSUME TypeInv, NEW c \in NextChars, NEW y, y = Seen(c)
  PROVE  LexerWithin(y, buf.size)
<1>1. LexerWithin(lex, buf.size) /\ buf.size \in Nat /\ buf.pos \in 0 .. buf.size - 1
  BY DEF TypeInv, StorageOf
<1>2. PICK x : x = note_delimiter(lex, buf, c)
  OBVIOUS
<1>3. LexerWithin(x, buf.size)
  BY <1>1, <1>2 DEF note_delimiter, LexerWithin, Lexers, Unset
<1>4. PICK z : z = note_match(x, buf, c)
  OBVIOUS
<1>5. LexerWithin(z, buf.size)
  <2>1. CASE (c \in Delims \/ taken(buf).fully_consumed) /\ is_accepting(x.state)
    <3>1. TypeIds[x.state] \in Types
      BY <1>3, <2>1 DEF is_accepting, LexerWithin, Lexers, Types
    <3>2. z = [x EXCEPT !.match = TRUE, !.type = TypeIds[x.state],
                        !.match_pos = buf.pos]
      BY <1>4, <2>1 DEF note_match
    <3>3. QED
      <4>1. z \in Lexers
        <5>1. x \in Lexers /\ buf.pos \in Nat
          BY <1>1, <1>3 DEF LexerWithin
        <5>2. QED
          BY <3>1, <3>2, <5>1 DEF Lexers
      <4>2. /\ z.match_pos = buf.pos /\ z.start_pos = x.start_pos
            /\ z.last_match_pos = x.last_match_pos /\ z.first_delim = x.first_delim
        BY <1>3, <3>2 DEF LexerWithin, Lexers
      <4>3. /\ x.start_pos \in 0 .. buf.size - 1
            /\ x.last_match_pos \in 0 .. buf.size - 1
            /\ x.first_delim \in Unset .. buf.size - 1
        BY <1>3 DEF LexerWithin
      <4>4. QED
        BY <1>1, <4>1, <4>2, <4>3 DEF LexerWithin
  <2>2. CASE ~((c \in Delims \/ taken(buf).fully_consumed) /\ is_accepting(x.state))
    BY <1>3, <1>4, <2>2 DEF note_match
  <2>3. QED
    BY <2>1, <2>2
<1>6. y = process_char(z, c)
  BY <1>2, <1>4 DEF Seen, see_character
<1>7. QED
  BY <1>5, <1>6, CharacterOfLog, ProcessedWithin

\* flip_states and the rest of increase_buffer_capacity: wherever a position
\* is moved to, the new storage has it.
LEMMA GrownWithin ==
  ASSUME NEW b, b.size \in Nat \ {0}, NEW x, LexerWithin(x, b.size),
         NEW y, y = increase_buffer_capacity(x, b)
  PROVE  LexerWithin(y, 2 * b.size)
<1>1. PICK z : z = IF flipped_static_buffer(b) THEN flip_states(x, b.size) ELSE x
  OBVIOUS
<1>2. LexerWithin(z, 2 * b.size)
  <2>1. CASE flipped_static_buffer(b)
    <3>1. PICK half : half = b.size \div 2
      OBVIOUS
    <3>2. half \in Nat /\ 2 * half <= b.size
      BY <3>1
    <3>3. z = [ x EXCEPT
                  !.match_pos      = IF @ >= half THEN @ - half ELSE @ + half,
                  !.start_pos      = IF @ > half  THEN @ - half ELSE @ + half,
                  !.last_match_pos = IF @ >= half THEN @ - half ELSE @ + half ]
      BY <1>1, <2>1, <3>1 DEF flip_states
    <3>4. QED
      <4>1. /\ x \in Lexers
            /\ x.match_pos \in 0 .. b.size - 1
            /\ x.start_pos \in 0 .. b.size - 1
            /\ x.last_match_pos \in 0 .. b.size - 1
            /\ x.first_delim \in Unset .. b.size - 1
        BY DEF LexerWithin
      <4>2. PICK m, i, k :
              /\ m = IF x.match_pos >= half THEN x.match_pos - half
                                           ELSE x.match_pos + half
              /\ i = IF x.start_pos > half THEN x.start_pos - half
                                          ELSE x.start_pos + half
              /\ k = IF x.last_match_pos >= half THEN x.last_match_pos - half
                                                ELSE x.last_match_pos + half
        OBVIOUS
      <4>3. m \in 0 .. 2 * b.size - 1 /\ i \in 0 .. 2 * b.size - 1
            /\ k \in 0 .. 2 * b.size - 1
        BY <3>2, <4>1, <4>2
      <4>4. m \in Nat /\ i \in Nat /\ k \in Nat
        BY <4>3
      <4>5. z = [x EXCEPT !.match_pos = m, !.start_pos = i, !.last_match_pos = k]
        BY <3>3, <4>2
      <4>6. z \in Lexers
        BY <4>1, <4>4, <4>5 DEF Lexers
      <4>7. /\ z.match_pos = m /\ z.start_pos = i /\ z.last_match_pos = k
            /\ z.first_delim = x.first_delim
        BY <4>1, <4>5 DEF Lexers
      <4>8. z.first_delim \in Unset .. 2 * b.size - 1
        BY <4>1, <4>7 DEF Unset
      <4>9. QED
        BY <4>3, <4>6, <4>7, <4>8 DEF LexerWithin
  <2>2. CASE ~flipped_static_buffer(b)
    BY <1>1, <2>2 DEF LexerWithin, Lexers, Unset
  <2>3. QED
    BY <2>1, <2>2
<1>3. y = IF z.last_match_pos = 0
          THEN [z EXCEPT !.last_match_pos = b.size, !.start_pos = b.size] ELSE z
  BY <1>1 DEF increase_buffer_capacity
<1>4. CASE z.last_match_pos = 0
  <2>1. /\ z \in Lexers /\ z.match_pos \in 0 .. 2 * b.size - 1
        /\ z.first_delim \in Unset .. 2 * b.size - 1
    BY <1>2 DEF LexerWithin
  <2>2. y = [z EXCEPT !.last_match_pos = b.size, !.start_pos = b.size]
    BY <1>3, <1>4
  <2>3. y \in Lexers
    BY <2>1, <2>2 DEF Lexers
  <2>4. /\ y.match_pos = z.match_pos /\ y.first_delim = z.first_delim
        /\ y.start_pos = b.size /\ y.last_match_pos = b.size
    BY <2>1, <2>2 DEF Lexers
  <2>5. b.size \in 0 .. 2 * b.size - 1
    OBVIOUS
  <2>6. QED
    BY <2>1, <2>3, <2>4, <2>5 DEF LexerWithin
<1>5. CASE z.last_match_pos # 0
  BY <1>2, <1>3, <1>5
<1>6. QED
  BY <1>4, <1>5

-----------------------------------------------------------------------------
(***************************************************************************)
(* The steps.                                                              *)
(***************************************************************************)

\* The lexer that LogParser::reset leaves.
LEMMA FreshWithin ==
  /\ StorageOf(reset(StaticSize), 0)
  /\ LexerWithin(prepend_start_of_file_char(lexer_reset, reset(StaticSize)),
                 reset(StaticSize).size)
<1>1. StaticSize \in Nat \ {0}
  BY ReaderAssumption
<1>2. StorageOf(reset(StaticSize), 0)
  BY <1>1 DEF reset, StorageOf, IsBuffer, Unset
<1>3. NoType \in Types /\ StartOfFile \in DfaStates \cup {Null}
  BY SchemaAssumption DEF Types
<1>4. PICK x : x = prepend_start_of_file_char(lexer_reset, reset(StaticSize))
  OBVIOUS
<1>5. x = [ asked |-> TRUE, match |-> FALSE, match_pos |-> 0, start_pos |-> 0,
            last_match_pos |-> 0, first_delim |-> Unset, state |-> StartOfFile,
            type |-> NoType ]
  BY <1>4 DEF prepend_start_of_file_char, lexer_reset, reset
<1>6. x \in Lexers
  BY <1>3, <1>5 DEF Lexers
<1>7. LexerWithin(x, StaticSize)
  BY <1>1, <1>5, <1>6 DEF LexerWithin, Unset
<1>8. QED
  BY <1>2, <1>4, <1>7 DEF reset

\* Nothing was read yet.
LEMMA InitTypeInv == Init => TypeInv
<1> SUFFICES ASSUME Init PROVE TypeInv
  OBVIOUS
<1>1. log \in Seq(Chars)
  BY ReaderAssumption DEF Init
<1>2. read_off \in 0 .. Len(log)
  BY <1>1 DEF Init
<1>3. StorageOf(buf, read_off) /\ LexerWithin(lex, buf.size)
  BY FreshWithin DEF Init
<1>4. pc = "ready" /\ intact \subseteq {"text", "variables"}
  BY DEF Init
<1>5. QED
  BY <1>1, <1>2, <1>3, <1>4 DEF TypeInv, Returned

\* A step of scan or parse keeps what was read.
LEMMA CallStep ==
  ASSUME TypeInv, UNCHANGED <<log, read_off, intact>>,
         StorageOf(buf', read_off), buf'.size = buf.size,
         LexerWithin(lex', buf.size),
         pc' = "skip" => skip'.prev \in 0 .. buf.size - 1,
         pc' \in {"parse", "scan", "main", "skip", "token", "oob", "event"}
  PROVE  TypeInv'
BY DEF TypeInv, Returned

\* Each step of scan takes a character, goes back, or returns.
LEMMA ScanStep ==
  ASSUME TypeInv, Scan
  PROVE  TypeInv'
<1> USE DEF input_vars, parse_vars, history, Return
<1>1. /\ StorageOf(buf, read_off) /\ buf.size \in Nat /\ buf.size > 0
      /\ buf.pos \in 0 .. buf.size - 1
      /\ LexerWithin(lex, buf.size)
      /\ pc = "skip" => skip.prev \in 0 .. buf.size - 1
  BY DEF TypeInv, StorageOf
<1>2. StorageOf(taken(buf), read_off) /\ taken(buf).size = buf.size
  BY <1>1, TakenInStorage
<1>3. taken(buf).pos \in 0 .. buf.size - 1
  BY <1>2 DEF StorageOf
<1>4. \A c \in NextChars : LexerWithin(Seen(c), buf.size)
  BY SeenWithin
<1>5. CASE ScanResume
  <2>1. LexerWithin(lex', buf.size)
    BY <1>1, <1>5 DEF ScanResume, resume_scan, LexerWithin, Lexers
  <2>2. QED
    BY <1>1, <1>5, <2>1, CallStep DEF ScanResume
<1>6. CASE ScanPrepared
  <2>1. LexerWithin(lex', buf.size)
    <3>1. /\ lex \in Lexers
          /\ lex.match_pos \in 0 .. buf.size - 1
          /\ lex.start_pos \in 0 .. buf.size - 1
      BY <1>1 DEF LexerWithin
    <3>2. lex' = [lex EXCEPT !.first_delim = Unset, !.match = FALSE,
                             !.last_match_pos = lex.match_pos, !.state = Root]
      BY <1>6 DEF ScanPrepared, take_match
    <3>3. lex' \in Lexers
      BY <3>1, <3>2, SchemaAssumption DEF Lexers
    <3>4. QED
      BY <1>1, <3>1, <3>2, <3>3 DEF LexerWithin, Lexers, Unset
  <2>2. QED
    BY <1>1, <1>6, <2>1, CallStep DEF ScanPrepared
<1>7. CASE ScanFresh
  <2>1. StorageOf(rewind(lex, buf), read_off) /\ rewind(lex, buf).size = buf.size
    <3>1. lex.first_delim # Unset => lex.first_delim \in 0 .. buf.size - 1
      BY <1>1 DEF LexerWithin, Unset
    <3>2. QED
      BY <1>1, <3>1, MovedInStorage DEF rewind
  <2>2. rewind(lex, buf).pos \in 0 .. buf.size - 1
    BY <2>1 DEF StorageOf
  <2>3. LexerWithin(lex', buf.size)
    <3>1. PICK p \in 0 .. buf.size - 1 : p = rewind(lex, buf).pos
      BY <2>2
    <3>2. lex' = [lex EXCEPT !.state = Root, !.start_pos = p, !.match_pos = p,
                             !.type = NoType, !.first_delim = Unset]
      BY <1>7, <3>1 DEF ScanFresh, start_scan
    <3>3. NoType \in Types /\ Root \in DfaStates
      BY SchemaAssumption DEF Types
    <3>4. p \in Nat
      BY <1>1
    <3>5. lex' \in Lexers
      BY <1>1, <3>2, <3>3, <3>4 DEF LexerWithin, Lexers
    <3>6. QED
      BY <1>1, <3>2, <3>5 DEF LexerWithin, Lexers, Unset
  <2>4. QED
    BY <1>7, <2>1, <2>3, CallStep DEF ScanFresh
<1>8. CASE ScanOutOfBounds
  <2>1. LexerWithin(lex', buf.size)
    BY <1>1, <1>8 DEF ScanOutOfBounds, LexerWithin, Lexers
  <2>2. QED
    BY <1>1, <1>8, <2>1, CallStep DEF ScanOutOfBounds
<1>9. CASE ScanNewline
  <2>1. PICK c \in NextChars : /\ lex' = match_newline(Seen(c), buf)
                               /\ buf' = taken(buf)
                               /\ pc = "main" /\ pc' = pc
                               /\ UNCHANGED <<log, read_off, intact>>
    BY <1>9 DEF ScanNewline, MainLoop
  <2>2. PICK x : x = [Seen(c) EXCEPT !.state = Root]
    OBVIOUS
  <2>3. LexerWithin(x, buf.size)
    BY <1>4, <2>2, SchemaAssumption DEF LexerWithin, Lexers
  <2>4. LexerWithin(process_char(x, Newline), buf.size)
    BY <2>3, ProcessedWithin, SchemaAssumption
  <2>5. TypeIds[Transition[Root][Newline]] \in Types
    BY SchemaAssumption DEF Types
  <2>6. PICK z : z = process_char(x, Newline)
    OBVIOUS
  <2>7. lex' = [ z EXCEPT !.match = TRUE, !.type = TypeIds[Transition[Root][Newline]],
                          !.start_pos = buf.pos, !.match_pos = taken(buf).pos ]
    BY <2>1, <2>2, <2>6 DEF match_newline
  <2>8. LexerWithin(lex', buf.size)
    <3>1. PICK p \in 0 .. buf.size - 1 : p = taken(buf).pos
      BY <1>3
    <3>2. p \in Nat /\ buf.pos \in Nat
      BY <1>1
    <3>3. lex' \in Lexers
      BY <2>4, <2>5, <2>6, <2>7, <3>1, <3>2 DEF LexerWithin, Lexers
    <3>4. QED
      BY <1>1, <2>4, <2>6, <2>7, <3>1, <3>3 DEF LexerWithin, Lexers
  <2>9. QED
    BY <1>2, <2>1, <2>8, CallStep
<1>10. CASE ScanContinue
  BY <1>2, <1>4, <1>10, CallStep DEF ScanContinue, MainLoop
<1>11. CASE ScanMatch
  <2>1. PICK c \in NextChars :
          /\ buf' = go_back(taken(buf), Seen(c).match_pos)
          /\ lex' = Seen(c) \/ lex' = take_match(Seen(c))
          /\ pc' = "token"
          /\ UNCHANGED <<log, read_off, intact>>
    BY <1>11 DEF ScanMatch
  <2>2. PICK y : y = Seen(c)
    OBVIOUS
  <2>3. LexerWithin(y, buf.size)
    BY <1>4, <2>2
  <2>4. y.match_pos \in 0 .. buf.size - 1
    BY <2>3 DEF LexerWithin
  <2>5. LexerWithin(take_match(y), buf.size)
    <3>1. take_match(y) \in Lexers
      BY <2>3 DEF take_match, LexerWithin, Lexers
    <3>2. QED
      BY <1>1, <2>3, <2>4, <3>1 DEF take_match, LexerWithin, Lexers, Unset
  <2>6. StorageOf(buf', read_off) /\ buf'.size = buf.size
    BY <1>2, <2>1, <2>2, <2>4, MovedInStorage
  <2>7. QED
    BY <2>1, <2>2, <2>3, <2>5, <2>6, CallStep
<1>12. CASE ScanLastText
  <2>1. PICK c \in NextChars :
          /\ lex' = [Seen(c) EXCEPT !.match = TRUE, !.match_pos = taken(buf).pos,
                                    !.type = TokenEnd]
          /\ buf' = taken(buf)
          /\ pc' = "token"
          /\ UNCHANGED <<log, read_off, intact>>
    BY <1>12 DEF ScanLastText
  <2>2. LexerWithin(lex', buf.size)
    <3>1. PICK p \in 0 .. buf.size - 1 : p = taken(buf).pos
      BY <1>3
    <3>2. PICK y : y = Seen(c)
      OBVIOUS
    <3>3. LexerWithin(y, buf.size) /\ TokenEnd \in Types /\ p \in Nat
      BY <1>1, <1>4, <3>2 DEF Types
    <3>4. lex' = [y EXCEPT !.match = TRUE, !.match_pos = p, !.type = TokenEnd]
      BY <2>1, <3>1, <3>2
    <3>5. lex' \in Lexers
      BY <3>3, <3>4 DEF LexerWithin, Lexers
    <3>6. QED
      BY <3>3, <3>4, <3>5 DEF LexerWithin, Lexers
  <2>3. QED
    BY <1>2, <2>1, <2>2, CallStep
<1>13. CASE ScanEnd
  BY <1>2, <1>4, <1>13, CallStep DEF ScanEnd
<1>14. CASE ScanUncaught
  <2>1. PICK c \in NextChars :
          /\ Seen(c).first_delim # Unset
          /\ lex' = [Seen(c) EXCEPT !.last_match_pos = Seen(c).first_delim]
          /\ buf' = taken(buf)
          /\ pc' = "token"
          /\ UNCHANGED <<log, read_off, intact>>
    BY <1>14 DEF ScanUncaught
  <2>2. LexerWithin(lex', buf.size)
    BY <1>1, <1>4, <2>1 DEF LexerWithin, Lexers, Unset
  <2>3. QED
    BY <1>2, <2>1, <2>2, CallStep
<1>15. CASE ScanSkip
  <2>1. PICK c \in NextChars :
          /\ lex' = [Seen(c) EXCEPT !.state = Root]
          /\ buf' = taken(buf)
          /\ skip' = [prev |-> buf.pos, c |-> c]
          /\ pc' = "skip"
          /\ UNCHANGED <<log, read_off, intact>>
    BY <1>15 DEF ScanSkip
  <2>2. LexerWithin(lex', buf.size)
    BY <1>4, <2>1, SchemaAssumption DEF LexerWithin, Lexers
  <2>3. QED
    BY <1>1, <1>2, <2>1, <2>2, CallStep
<1>16. CASE SkipCharacter
  BY <1>1, <1>2, <1>16, CallStep DEF SkipCharacter
<1>17. CASE SkipOutOfBounds
  <2>1. LexerWithin(lex', buf.size)
    BY <1>1, <1>17 DEF SkipOutOfBounds, LexerWithin, Lexers
  <2>2. QED
    BY <1>1, <1>17, <2>1, CallStep DEF SkipOutOfBounds
<1>18. CASE SkipEnd
  <2>1. skip.prev \in 0 .. buf.size - 1
    BY <1>1, <1>18 DEF SkipEnd
  <2>2. LexerWithin(lex', buf.size)
    BY <1>1, <1>18, <2>1 DEF SkipEnd, LexerWithin, Lexers
  <2>3. StorageOf(buf', read_off) /\ buf'.size = buf.size
    BY <1>1, <1>18, <2>1, MovedInStorage DEF SkipEnd
  <2>4. QED
    BY <1>18, <2>2, <2>3, CallStep DEF SkipEnd
<1>19. QED
  BY Scan, <1>5, <1>6, <1>7, <1>8, <1>9, <1>10, <1>11, <1>12, <1>13, <1>14, <1>15,
     <1>16, <1>17, <1>18 DEF Scan

\* parse changes the view and gives up bytes; the lexer stays as it is.
LEMMA ParseStep ==
  ASSUME TypeInv, Parse
  PROVE  TypeInv'
<1>1. /\ UNCHANGED <<log, read_off, intact, lex>>
      /\ buf' = buf \/ \E p : buf' = set_consumed_pos(buf, p)
      /\ pc' \in {"scan", "event"}
  BY DEF Parse, UseStartOfLog, GetNextSymbol, FirstTokenNewline, FirstToken,
         NextTokenEnd, NextTokenNewline, NextTokenStart, NextToken, BeginEvent,
         SplitAtNewline, Finish, input_vars, parse_vars, history
<1>2. StorageOf(buf, read_off) /\ LexerWithin(lex, buf.size)
  BY DEF TypeInv
<1>3. StorageOf(buf', read_off) /\ buf'.size = buf.size
  BY <1>1, <1>2, ConsumedInStorage
<1>4. QED
  BY <1>1, <1>2, <1>3, CallStep

\* reset_and_set_reader goes back to the static buffer, of which no byte is kept.
LEMMA ResetStep ==
  ASSUME TypeInv, ResetAndSetReader
  PROVE  TypeInv'
<1>1. PICK l \in NextLogs : ResetTo(l)
  BY DEF ResetAndSetReader
<1>2. log' \in Seq(Chars) /\ read_off' = 0
  BY <1>1, ReaderAssumption DEF ResetTo
<1>3. read_off' \in 0 .. Len(log')
  BY <1>2
<1>4. /\ StorageOf(buf', read_off')
      /\ LexerWithin(lex', buf'.size)
  BY <1>1, <1>2, FreshWithin DEF ResetTo
<1>5. pc' = "ready" /\ intact' \subseteq {"text", "variables"}
  BY DEF ResetAndSetReader
<1>6. QED
  BY <1>2, <1>3, <1>4, <1>5 DEF TypeInv, Returned

\* A call begins with a read, which may fail.
LEMMA ParseNextEventStep ==
  ASSUME TypeInv, ParseNextEvent
  PROVE  TypeInv'
<1>1. /\ UNCHANGED <<log, lex, intact>>
      /\ pc' \in {"parse", "failed"}
      /\ ReadInto(buf) \/ UNCHANGED <<buf, read_off>>
  BY DEF ParseNextEvent
<1>2. log \in Seq(Chars) /\ read_off \in 0 .. Len(log) /\ StorageOf(buf, read_off)
  BY DEF TypeInv
<1>3. /\ read_off' \in 0 .. Len(log)
      /\ StorageOf(buf', read_off') /\ buf'.size = buf.size
  BY <1>1, <1>2, ReadInStorage
<1>4. QED
  BY <1>1, <1>2, <1>3 DEF TypeInv, Returned

\* Growth moves bytes and positions, and the read after it may fail.
LEMMA IncreaseCapacityStep ==
  ASSUME TypeInv, IncreaseCapacity
  PROVE  TypeInv'
<1>1. PICK b : b = increase_capacity(buf)
  OBVIOUS
<1>2. /\ log' = log
      /\ lex' = increase_buffer_capacity(lex, buf)
      /\ pc' \in {"parse", "failed"}
      /\ ReadInto(b) \/ (buf' = b /\ UNCHANGED read_off)
      /\ intact' \subseteq {"text", "variables"}
  BY <1>1 DEF IncreaseCapacity, StillIntact, TypeInv
<1>3. /\ log \in Seq(Chars) /\ read_off \in 0 .. Len(log) /\ read_off \in Nat
      /\ StorageOf(buf, read_off) /\ LexerWithin(lex, buf.size)
      /\ buf.size \in Nat \ {0}
  BY DEF TypeInv, StorageOf
<1>4. StorageOf(b, read_off) /\ b.size = 2 * buf.size
  BY <1>1, <1>3, GrownStorage
<1>5. /\ read_off' \in 0 .. Len(log)
      /\ StorageOf(buf', read_off') /\ buf'.size = b.size
  BY <1>2, <1>3, <1>4, ReadInStorage
<1>6. LexerWithin(lex', 2 * buf.size)
  BY <1>2, <1>3, GrownWithin
<1>7. QED
  BY <1>2, <1>3, <1>4, <1>5, <1>6 DEF TypeInv, Returned

\* Every step keeps the invariant.
LEMMA NextTypeInv == TypeInv /\ [Next]_vars => TypeInv'
<1> SUFFICES ASSUME TypeInv, [Next]_vars PROVE TypeInv'
  OBVIOUS
<1>1. CASE Next
  BY <1>1, ResetStep, ParseNextEventStep, IncreaseCapacityStep, ScanStep, ParseStep
     DEF Next
<1>2. CASE UNCHANGED vars
  BY <1>2 DEF vars, history, TypeInv, Returned
<1>3. QED
  BY <1>1, <1>2

\* Whatever the text and the schema are, whenever the reader fails or is replaced,
\* and however often the buffer grows, at any state of the scan, with its halves
\* in either order: no position that the input buffer or the lexer keeps lies
\* outside the storage that is active then.  This holds for the positions that
\* flip_states leaves behind or moves to the wrong half, too.
THEOREM TypeCorrect == Spec => []TypeOK
<1>1. TypeInv => TypeOK
  BY DEF TypeInv, TypeOK, StorageOf, LexerWithin, Lexers
<1>2. QED
  BY <1>1, InitTypeInv, NextTypeInv, PTL DEF Spec

-----------------------------------------------------------------------------
(***************************************************************************)
(* Positions of the ring of two halves and the offsets they stand for.     *)
(***************************************************************************)

\* The two halves.
LEMMA RingFacts ==
  ASSUME NEW b, NEW n \in Nat, RingOf(b, n)
  PROVE  /\ Half(b) \in Nat /\ Half(b) > 0 /\ b.size = 2 * Half(b)
         /\ b.size \in Nat /\ b.size > 0
         /\ b.last_read \in Nat /\ b.last_read <= b.size
         /\ b.first_half \in BOOLEAN /\ b.finished \in BOOLEAN
         /\ b.first_half => 0 < b.last_read /\ b.last_read <= Half(b)
         /\ ~b.first_half /\ b.last_read # 0 => Half(b) < b.last_read
         /\ b.last_read = 0 => n = 0
         /\ ~b.finished /\ b.last_read # 0
              => b.last_read = IF b.first_half THEN Half(b) ELSE b.size
<1>1. PICK h \in 1 .. b.size : b.size = 2 * h
  BY DEF RingOf, TwoHalves
<1>2. b.size \in Nat /\ h \in Nat /\ h > 0
  BY <1>1 DEF RingOf
<1>3. Half(b) = h
  BY <1>1, <1>2 DEF Half
<1>4. QED
  BY <1>1, <1>2, <1>3 DEF RingOf

\* The positions stand for the last b.size + 1 offsets but the oldest.
LEMMA OffsetRange ==
  ASSUME NEW b, NEW n \in Nat, RingOf(b, n), NEW p \in 0 .. b.size - 1
  PROVE  /\ OffsetOf(b, n, p) \in Int
         /\ n - b.size < OffsetOf(b, n, p) /\ OffsetOf(b, n, p) <= n
BY RingFacts DEF OffsetOf

\* No two positions stand for the same offset.
LEMMA OffsetInjective ==
  ASSUME NEW b, NEW n \in Nat, RingOf(b, n),
         NEW p \in 0 .. b.size - 1, NEW q \in 0 .. b.size - 1,
         OffsetOf(b, n, p) = OffsetOf(b, n, q)
  PROVE  p = q
BY RingFacts DEF OffsetOf

\* Positions wrap, offsets do not.
LEMMA OffsetNext ==
  ASSUME NEW b, NEW n \in Nat, RingOf(b, n), NEW p \in 0 .. b.size - 1,
         OffsetOf(b, n, p) < n
  PROVE  /\ next_pos(b, p) \in 0 .. b.size - 1
         /\ OffsetOf(b, n, next_pos(b, p)) = OffsetOf(b, n, p) + 1
BY RingFacts DEF OffsetOf, next_pos

\* The byte before a position.
LEMMA OffsetBefore ==
  ASSUME NEW b, NEW n \in Nat, RingOf(b, n), NEW p \in 0 .. b.size - 1,
         n - b.size < OffsetOf(b, n, p) - 1,
         NEW q, q = IF p = 0 THEN b.size - 1 ELSE p - 1
  PROVE  q \in 0 .. b.size - 1 /\ OffsetOf(b, n, q) = OffsetOf(b, n, p) - 1
BY RingFacts DEF OffsetOf

\* The byte i positions behind the first one of a token.
LEMMA OffsetWithin ==
  ASSUME NEW b, NEW n \in Nat, RingOf(b, n), NEW p \in 0 .. b.size - 1,
         NEW i \in Nat, OffsetOf(b, n, p) + i < n,
         NEW q, q = IF p + i < b.size THEN p + i ELSE (p + i) - b.size
  PROVE  q \in 0 .. b.size - 1 /\ OffsetOf(b, n, q) = OffsetOf(b, n, p) + i
BY RingFacts DEF OffsetOf

\* Token::get_length counts the bytes of a token, whether it wraps or not.
LEMMA OffsetLength ==
  ASSUME NEW b, NEW n \in Nat, RingOf(b, n),
         NEW p \in 0 .. b.size - 1, NEW q \in 0 .. b.size - 1,
         OffsetOf(b, n, p) <= OffsetOf(b, n, q)
  PROVE  OffsetOf(b, n, q) - OffsetOf(b, n, p) =
           IF p <= q THEN q - p ELSE (b.size - p) + q
BY RingFacts DEF OffsetOf

\* Offsets depend on what was read, not on the position.
LEMMA OffsetSame ==
  ASSUME NEW b, NEW c, NEW n, c.size = b.size, c.last_read = b.last_read, NEW p
  PROVE  OffsetOf(c, n, p) = OffsetOf(b, n, p)
BY DEF OffsetOf

\* What is kept lies in the ring.
LEMMA KeptRange ==
  ASSUME NEW b, NEW n \in Nat, RingOf(b, n),
         NEW a \in Int, a >= -1, KeepsFrom(b, n, a)
  PROVE  n - b.size < a
BY RingFacts DEF KeepsFrom

\* As long as the position stands for a byte that is kept or for the next one to be
\* read, get_next_character asks for more exactly when there is no such byte.
LEMMA PositionEnds ==
  ASSUME NEW b, NEW n \in Nat, RingOf(b, n), b.pos \in 0 .. b.size - 1,
         NEW a \in Int, KeepsFrom(b, n, a), a <= OffsetOf(b, n, b.pos)
  PROVE  /\ at_end_of_log(b) => b.finished /\ OffsetOf(b, n, b.pos) = n
         /\ out_of_bounds(b) => OffsetOf(b, n, b.pos) = n
         /\ ~at_end_of_log(b) /\ ~out_of_bounds(b) => OffsetOf(b, n, b.pos) < n
<1>1. /\ b.first_half => a > (n - b.last_read) - Half(b)
      /\ ~b.first_half /\ b.last_read # 0 => a > n - b.last_read
  BY DEF KeepsFrom
<1>2. PICK o : o = OffsetOf(b, n, b.pos)
  OBVIOUS
<1>3. o \in Int /\ o <= n /\ a <= o
  BY <1>2, OffsetRange
<1>4. CASE b.pos = b.last_read
  <2>1. o = n
    BY <1>2, <1>4, RingFacts DEF OffsetOf
  <2>2. ~b.finished => out_of_bounds(b)
    BY <1>4, RingFacts DEF out_of_bounds, at_end_of_log
  <2>3. QED
    BY <1>2, <1>4, <2>1, <2>2 DEF at_end_of_log
<1>5. CASE b.pos # b.last_read
  <2>1. ~at_end_of_log(b)
    BY <1>5 DEF at_end_of_log
  <2>2. ASSUME out_of_bounds(b)
        PROVE  o = n
    <3>1. CASE b.first_half /\ b.pos = Half(b)
      <4>1. o = ((n - b.last_read) + b.pos) - b.size
        BY <1>2, <1>5, <3>1, RingFacts DEF OffsetOf
      <4>2. QED
        BY <1>1, <1>3, <3>1, <4>1, RingFacts
    <3>2. CASE ~b.first_half /\ b.pos = 0
      BY <1>1, <1>2, <1>3, <1>5, <3>2, RingFacts DEF OffsetOf
    <3>3. QED
      BY <2>2, <3>1, <3>2 DEF out_of_bounds
  <2>3. ASSUME ~out_of_bounds(b)
        PROVE  o < n
    <3>1. ~(~b.first_half /\ b.pos = 0)
      BY <2>1, <2>3 DEF out_of_bounds
    <3>2. b.pos = 0 => b.first_half
      BY <3>1, RingFacts
    <3>3. QED
      BY <1>2, <1>5, <3>2, RingFacts DEF OffsetOf
  <2>4. QED
    BY <1>2, <2>1, <2>2, <2>3
<1>6. QED
  BY <1>4, <1>5

\* After a position was declared consumed, a read is considered safe only if that
\* position is in the half read last.
LEMMA ConsumedSafe ==
  ASSUME NEW b, NEW n \in Nat, RingOf(b, n), NEW p \in 0 .. b.size - 1,
         ~b.finished,
         \/ ~b.first_half /\ p > Half(b)
         \/ b.first_half /\ p < Half(b) /\ p > 0
  PROVE  OffsetOf(b, n, p) > n - Half(b)
BY RingFacts DEF OffsetOf

-----------------------------------------------------------------------------
(***************************************************************************)
(* Reading and growing.                                                    *)
(***************************************************************************)

\* What makes a buffer keep the bytes from offset a on.
LEMMA KeepsFields ==
  ASSUME NEW b, NEW n, NEW a,
         b.first_half => a > (n - b.last_read) - Half(b),
         ~b.first_half /\ b.last_read # 0 => a > n - b.last_read,
         read_is_safe(b) => a > n - Half(b),
         \A i \in 0 .. b.size - 1 :
           a <= OffsetOf(b, n, i) /\ OffsetOf(b, n, i) < n
             => b.storage[i] = OffsetOf(b, n, i)
  PROVE  KeepsFrom(b, n, a)
BY DEF KeepsFrom

\* A read that is considered safe fills the half that is not needed any more: the
\* bytes that are kept stay where they are.
LEMMA ReadKeeps ==
  ASSUME NEW b, NEW n \in Nat, IsBuffer(b), RingOf(b, n),
         NEW a \in Int, KeepsFrom(b, n, a), read_is_safe(b),
         NEW m \in 1 .. Half(b),
         NEW c, c = read_success(b, n, m)
  PROVE  /\ IsBuffer(c) /\ c.size = b.size /\ c.pos = b.pos
         /\ c.fully_consumed = b.fully_consumed
         /\ c.finished <=> m < Half(b)
         /\ RingOf(c, n + m)
         /\ KeepsFrom(c, n + m, a)
         /\ \A p \in 0 .. b.size - 1 :
              a <= OffsetOf(b, n, p) => OffsetOf(c, n + m, p) = OffsetOf(b, n, p)
<1>1. PICK bytes : bytes = [i \in 0 .. b.size - 1 |->
        IF read_offset(b) <= i /\ i < read_offset(b) + m
        THEN n + (i - read_offset(b)) ELSE b.storage[i]]
  OBVIOUS
<1>2. PICK last : last = IF b.last_read + m > b.size THEN (b.last_read + m) - b.size
                         ELSE b.last_read + m
  OBVIOUS
<1>3. /\ Half(b) \in Nat /\ Half(b) > 0 /\ b.size = 2 * Half(b)
      /\ b.size \in Nat
      /\ m \in Nat /\ 0 < m /\ m <= Half(b)
  BY RingFacts
<1>4. /\ ~b.finished /\ a > n - Half(b)
      /\ \/ ~b.first_half /\ b.consumed_pos > Half(b)
         \/ b.first_half /\ b.consumed_pos < Half(b) /\ b.consumed_pos > 0
  BY DEF KeepsFrom, read_is_safe
<1>5. /\ IsBuffer(c)
      /\ c.size = b.size
      /\ c.pos = b.pos
      /\ c.storage = bytes
      /\ c.first_half = ~b.first_half
      /\ c.finished = (b.finished \/ m < Half(b))
      /\ c.last_read = last
      /\ c.fully_consumed = b.fully_consumed
      /\ c.consumed_pos = b.consumed_pos
  <2>1. c = [ b EXCEPT !.storage = bytes, !.first_half = ~b.first_half,
                       !.finished = b.finished \/ m < Half(b), !.last_read = last ]
    BY <1>1, <1>2 DEF read_success
  <2>2. QED
    BY <2>1 DEF IsBuffer
<1>6. Half(c) = Half(b)
  BY <1>5 DEF Half
<1>7. \/ /\ ~b.first_half /\ c.first_half /\ read_offset(b) = 0 /\ last = m
         /\ \/ b.last_read = 0 /\ n = 0
            \/ b.last_read = b.size
      \/ /\ b.first_half /\ ~c.first_half /\ read_offset(b) = Half(b)
         /\ last = Half(b) + m /\ b.last_read = Half(b)
  <2>1. CASE b.first_half
    <3>1. b.last_read = Half(b)
      BY <1>4, <2>1, RingFacts
    <3>2. last = Half(b) + m
      BY <1>2, <1>3, <3>1
    <3>3. c.first_half = FALSE
      BY <1>5, <2>1
    <3>4. QED
      BY <2>1, <3>1, <3>2, <3>3 DEF read_offset
  <2>2. CASE ~b.first_half
    <3>1. (b.last_read = 0 /\ n = 0) \/ b.last_read = b.size
      BY <1>4, <2>2, RingFacts
    <3>2. last = m
      BY <1>2, <1>3, <3>1
    <3>3. c.first_half = TRUE
      BY <1>5, <2>2
    <3>4. QED
      BY <2>2, <3>1, <3>2, <3>3 DEF read_offset
  <2>3. QED
    BY <2>1, <2>2
<1>8. RingOf(c, n + m)
  <2>1. TwoHalves(c)
    BY <1>5 DEF RingOf, TwoHalves
  <2>2. b.consumed_pos \in 0 .. b.size /\ b.fully_consumed \in BOOLEAN
    BY DEF RingOf
  <2>3. last \in 0 .. b.size
    BY <1>3, <1>7
  <2>4. c.first_half \in BOOLEAN /\ c.finished \in BOOLEAN
    BY <1>5
  <2>5. /\ c.first_half => 0 < c.last_read /\ c.last_read <= Half(c)
        /\ ~c.first_half /\ c.last_read # 0 => Half(c) < c.last_read
        /\ c.last_read = 0 => n + m = 0
    BY <1>3, <1>5, <1>6, <1>7
  <2>6. ~c.finished /\ c.last_read # 0
          => c.last_read = IF c.first_half THEN Half(c) ELSE c.size
    <3>1. ~c.finished => ~(m < Half(b))
      BY <1>5, Zenon
    <3>2. ~(m < Half(b)) => m = Half(b)
      BY <1>3
    <3>3. QED
      BY <1>3, <1>5, <1>6, <1>7, <3>1, <3>2
  <2>7. QED
    BY <1>3, <1>5, <2>1, <2>2, <2>3, <2>4, <2>5, <2>6 DEF RingOf
<1>9. ASSUME NEW p \in 0 .. b.size - 1, a <= OffsetOf(b, n, p)
      PROVE  OffsetOf(c, n + m, p) = OffsetOf(b, n, p)
  <2>1. c.size = b.size /\ c.last_read = last /\ p \in Nat /\ p < b.size
    BY <1>3, <1>5
  <2>2. QED
    BY <1>3, <1>4, <1>7, <1>9, <2>1 DEF OffsetOf
<1>10. KeepsFrom(c, n + m, a)
  <2>1. c.first_half => a > ((n + m) - c.last_read) - Half(c)
    BY <1>3, <1>4, <1>5, <1>6, <1>7
  <2>2. ~c.first_half /\ c.last_read # 0 => a > (n + m) - c.last_read
    BY <1>3, <1>4, <1>5, <1>6, <1>7
  <2>3. ~read_is_safe(c)
    <3>1. b.consumed_pos \in 0 .. b.size
      BY DEF RingOf
    <3>2. QED
      BY <1>3, <1>4, <1>5, <1>6, <1>7, <3>1 DEF read_is_safe
  <2>4. ASSUME NEW i \in 0 .. c.size - 1,
               a <= OffsetOf(c, n + m, i), OffsetOf(c, n + m, i) < n + m
        PROVE  c.storage[i] = OffsetOf(c, n + m, i)
    <3>1. i \in 0 .. b.size - 1
      BY <1>5
    <3>2. CASE read_offset(b) <= i /\ i < read_offset(b) + m
      <4>1. c.storage[i] = n + (i - read_offset(b))
        BY <1>1, <1>5, <3>1, <3>2
      <4>2. OffsetOf(c, n + m, i) = n + (i - read_offset(b))
        BY <1>3, <1>5, <1>7, <3>1, <3>2 DEF OffsetOf
      <4>3. QED
        BY <4>1, <4>2
    <3>3. CASE ~(read_offset(b) <= i /\ i < read_offset(b) + m)
      <4>1. c.storage[i] = b.storage[i]
        BY <1>1, <1>5, <3>1, <3>3
      <4>2. OffsetOf(b, n, i) = OffsetOf(c, n + m, i) /\ OffsetOf(b, n, i) < n
        BY <1>3, <1>4, <1>5, <1>7, <2>4, <3>1, <3>3 DEF OffsetOf
      <4>3. b.storage[i] = OffsetOf(b, n, i)
        BY <2>4, <3>1, <4>2 DEF KeepsFrom
      <4>4. QED
        BY <4>1, <4>2, <4>3
    <3>4. QED
      BY <3>2, <3>3
  <2>5. QED
    BY <2>1, <2>2, <2>3, <2>4, KeepsFields
<1>11. QED
  BY <1>4, <1>5, <1>8, <1>9, <1>10

\* read_into_input on a buffer whose bytes from offset a on are kept.
LEMMA ReadIntoKeeps ==
  ASSUME log \in Seq(Chars), read_off \in 0 .. Len(log),
         NEW b, IsBuffer(b), RingOf(b, read_off),
         NEW a \in Int, KeepsFrom(b, read_off, a),
         b.finished => read_off = Len(log),
         ReadInto(b)
  PROVE  /\ IsBuffer(buf') /\ buf'.size = b.size /\ buf'.pos = b.pos
         /\ buf'.fully_consumed = b.fully_consumed
         /\ RingOf(buf', read_off') /\ KeepsFrom(buf', read_off', a)
         /\ buf'.finished => read_off' = Len(log)
         /\ b.finished => buf' = b /\ read_off' = read_off
         /\ read_off' \in Nat /\ read_off <= read_off'
         /\ \A p \in 0 .. b.size - 1 :
              a <= OffsetOf(b, read_off, p)
                => OffsetOf(buf', read_off', p) = OffsetOf(b, read_off, p)
<1>1. Len(log) \in Nat /\ read_off \in Nat /\ read_off <= Len(log)
  OBVIOUS
<1>2. CASE ~read_is_safe(b) /\ buf' = b /\ UNCHANGED read_off
  BY <1>1, <1>2
<1>3. CASE /\ read_is_safe(b) /\ read_off < Len(log)
           /\ LET left == Len(log) - read_off
                  n    == IF left < Half(b) THEN left ELSE Half(b)
              IN buf' = read_success(b, read_off, n) /\ read_off' = read_off + n
  <2>1. PICK n : /\ n = IF Len(log) - read_off < Half(b) THEN Len(log) - read_off
                        ELSE Half(b)
                 /\ buf' = read_success(b, read_off, n)
                 /\ read_off' = read_off + n
    BY <1>3
  <2>2. Half(b) \in Nat /\ Half(b) > 0
    BY <1>1, RingFacts
  <2>3. n \in 1 .. Half(b) /\ (n < Half(b) => read_off + n = Len(log))
    BY <1>1, <1>3, <2>1, <2>2
  <2>4. PICK c : c = buf'
    OBVIOUS
  <2>5. /\ IsBuffer(c) /\ c.size = b.size /\ c.pos = b.pos
        /\ c.fully_consumed = b.fully_consumed
        /\ c.finished <=> n < Half(b)
        /\ RingOf(c, read_off + n)
        /\ KeepsFrom(c, read_off + n, a)
        /\ \A p \in 0 .. b.size - 1 :
             a <= OffsetOf(b, read_off, p)
               => OffsetOf(c, read_off + n, p) = OffsetOf(b, read_off, p)
    BY <1>1, <1>3, <2>1, <2>3, <2>4, ReadKeeps
  <2>6. ~b.finished
    BY <1>3 DEF read_is_safe
  <2>7. read_off' = read_off + n /\ read_off' \in Nat /\ read_off <= read_off'
    BY <1>1, <2>1, <2>2, <2>3
  <2>8. c.finished => read_off' = Len(log)
    BY <2>3, <2>5, <2>7
  <2>9. QED
    BY <2>4, <2>5, <2>6, <2>7, <2>8
<1>4. CASE /\ read_is_safe(b) /\ read_off = Len(log)
           /\ buf' = read_eof(b) /\ UNCHANGED read_off
  <2>1. PICK c : c = buf'
    OBVIOUS
  <2>2. /\ IsBuffer(c) /\ c.size = b.size /\ c.pos = b.pos
        /\ c.storage = b.storage /\ c.last_read = b.last_read
        /\ c.first_half = b.first_half /\ c.finished = TRUE
        /\ c.fully_consumed = b.fully_consumed /\ c.consumed_pos = b.consumed_pos
    BY <1>4, <2>1 DEF read_eof, IsBuffer
  <2>3. Half(c) = Half(b)
    BY <2>2 DEF Half
  <2>4. \A p : OffsetOf(c, read_off, p) = OffsetOf(b, read_off, p)
    BY <2>2, OffsetSame
  <2>5. RingOf(c, read_off)
    BY <2>2, <2>3 DEF RingOf, TwoHalves
  <2>6. KeepsFrom(c, read_off, a)
    <3>1. ~read_is_safe(c)
      BY <2>2 DEF read_is_safe
    <3>2. QED
      BY <2>2, <2>3, <2>4, <3>1 DEF KeepsFrom
  <2>7. ~b.finished
    BY <1>4 DEF read_is_safe
  <2>8. QED
    BY <1>1, <1>4, <2>1, <2>2, <2>4, <2>5, <2>6, <2>7
<1>5. QED
  BY <1>2, <1>3, <1>4 DEF ReadInto

\* When the position is behind what was read, growth keeps the bytes from offset
\* a on, puts them into the order of the log, and goes on behind them.
LEMMA GrowKeeps ==
  ASSUME NEW b, NEW n \in Nat, IsBuffer(b), RingOf(b, n), b.pos \in 0 .. b.size - 1,
         NEW a \in Int, a >= -1, KeepsFrom(b, n, a),
         out_of_bounds(b), OffsetOf(b, n, b.pos) = n,
         NEW c, c = increase_capacity(b)
  PROVE  /\ IsBuffer(c) /\ c.size = 2 * b.size /\ c.pos = b.size
         /\ c.finished = b.finished /\ c.fully_consumed = b.fully_consumed
         /\ RingOf(c, n) /\ KeepsFrom(c, n, a)
         /\ \A p \in 0 .. b.size : OffsetOf(c, n, p) = (n - b.size) + p
         /\ b.first_half => /\ b.last_read = Half(b) /\ b.pos = Half(b)
         /\ ~b.first_half => /\ b.last_read \in {0, b.size} /\ b.pos = 0
<1>1. /\ Half(b) \in Nat /\ Half(b) > 0 /\ b.size = 2 * Half(b)
      /\ b.size \in Nat
  BY RingFacts
<1>2. PICK bytes : bytes =
        [i \in 0 .. 2 * b.size - 1 |->
           IF i >= b.size THEN Unset
           ELSE IF ~flipped_static_buffer(b) THEN b.storage[i]
           ELSE IF i < Half(b) THEN b.storage[i + Half(b)]
           ELSE b.storage[i - Half(b)]]
  OBVIOUS
<1>3. /\ IsBuffer(c) /\ c.size = 2 * b.size /\ c.pos = b.size
      /\ c.storage = bytes /\ c.last_read = b.size
      /\ c.first_half = TRUE /\ c.finished = b.finished
      /\ c.fully_consumed = b.fully_consumed /\ c.consumed_pos = b.consumed_pos
  BY <1>2 DEF increase_capacity, IsBuffer
<1>4. Half(c) = b.size
  BY <1>1, <1>3 DEF Half
<1>5. b.first_half => b.last_read = Half(b) /\ b.pos = Half(b)
  BY RingFacts DEF out_of_bounds, OffsetOf
<1>6. ~b.first_half => b.last_read \in {0, b.size} /\ b.pos = 0
  <2>1. ~b.first_half => b.pos = 0
    BY DEF out_of_bounds
  <2>2. QED
    BY <2>1, RingFacts DEF OffsetOf
<1>7. RingOf(c, n)
  <2>1. TwoHalves(c)
    BY <1>1, <1>3 DEF TwoHalves
  <2>2. c.consumed_pos \in 0 .. c.size
    BY <1>1, <1>3 DEF RingOf
  <2>3. c.finished \in BOOLEAN /\ c.fully_consumed \in BOOLEAN /\ c.first_half \in BOOLEAN
    BY <1>3 DEF RingOf
  <2>4. c.size \in Nat /\ c.last_read \in 0 .. c.size
    BY <1>1, <1>3
  <2>5. 0 < c.last_read /\ c.last_read <= Half(c) /\ c.last_read = Half(c)
    BY <1>1, <1>3, <1>4
  <2>6. QED
    BY <1>3, <2>1, <2>2, <2>3, <2>4, <2>5 DEF RingOf
<1>8. ASSUME NEW p \in 0 .. b.size
      PROVE  OffsetOf(c, n, p) = (n - b.size) + p
  BY <1>1, <1>3 DEF OffsetOf
<1>9. n - b.size < a
  BY KeptRange
<1>10. KeepsFrom(c, n, a)
  <2>1. ASSUME NEW i \in 0 .. c.size - 1,
               a <= OffsetOf(c, n, i), OffsetOf(c, n, i) < n
        PROVE  c.storage[i] = OffsetOf(c, n, i)
    <3>1. i \in 0 .. 2 * b.size - 1 /\ i \in Nat
      BY <1>1, <1>3
    <3>2. i < b.size
      BY <1>1, <1>3, <1>9, <2>1, <3>1 DEF OffsetOf
    <3>3. OffsetOf(c, n, i) = (n - b.size) + i
      BY <1>1, <1>8, <3>1, <3>2
    <3>4. i > 0
      BY <1>1, <1>9, <2>1, <3>1, <3>3
    <3>5. PICK k : k = IF ~b.first_half THEN i
                       ELSE IF i < Half(b) THEN i + Half(b) ELSE i - Half(b)
      OBVIOUS
    <3>6. k \in 0 .. b.size - 1
      BY <1>1, <3>1, <3>2, <3>5
    <3>7. c.storage[i] = b.storage[k]
      BY <1>1, <1>2, <1>3, <3>1, <3>2, <3>5 DEF flipped_static_buffer
    <3>8. OffsetOf(b, n, k) = (n - b.size) + i
      <4>1. CASE b.first_half
        <5>1. b.last_read = Half(b)
          BY <1>5, <4>1
        <5>2. CASE i < Half(b)
          <6>1. k = i + Half(b) /\ k > b.last_read
            BY <1>1, <3>1, <3>4, <3>5, <4>1, <5>1, <5>2
          <6>2. QED
            BY <1>1, <3>1, <5>1, <6>1 DEF OffsetOf
        <5>3. CASE ~(i < Half(b))
          <6>1. k = i - Half(b) /\ k <= b.last_read /\ b.last_read # b.size
            BY <1>1, <3>1, <3>2, <3>5, <4>1, <5>1, <5>3
          <6>2. QED
            BY <1>1, <3>1, <5>1, <6>1 DEF OffsetOf
        <5>4. QED
          BY <5>2, <5>3
      <4>2. CASE ~b.first_half
        <5>1. b.last_read = 0 \/ b.last_read = b.size
          BY <1>6, <4>2
        <5>2. QED
          BY <1>1, <3>1, <3>2, <3>4, <3>5, <4>2, <5>1 DEF OffsetOf
      <4>3. QED
        BY <4>1, <4>2
    <3>9. b.storage[k] = OffsetOf(b, n, k)
      BY <2>1, <3>3, <3>6, <3>8 DEF KeepsFrom
    <3>10. QED
      BY <3>3, <3>7, <3>8, <3>9
  <2>2. a > (n - c.last_read) - Half(c) /\ a > n - Half(c)
    BY <1>1, <1>3, <1>4, <1>9
  <2>3. QED
    BY <1>3, <2>1, <2>2, KeepsFields
<1>11. QED
  BY <1>3, <1>5, <1>6, <1>7, <1>8, <1>10

-----------------------------------------------------------------------------
(***************************************************************************)
(* What the steps between two reads leave alone.                           *)
(***************************************************************************)

\* Buffer c is b but for the position and whether the end was seen.
SameBytes(b, c) ==
  /\ c.size = b.size /\ c.storage = b.storage
  /\ c.last_read = b.last_read /\ c.first_half = b.first_half
  /\ c.finished = b.finished /\ c.consumed_pos = b.consumed_pos
  /\ c.fully_consumed \in BOOLEAN

\* ... so that it stands for the same part of the log.
LEMMA SameRing ==
  ASSUME NEW b, NEW n, RingOf(b, n), NEW c, SameBytes(b, c)
  PROVE  /\ RingOf(c, n)
         /\ \A p : OffsetOf(c, n, p) = OffsetOf(b, n, p)
         /\ \A a : KeepsFrom(b, n, a) => KeepsFrom(c, n, a)
<1>1. Half(c) = Half(b)
  BY DEF SameBytes, Half
<1>2. \A p : OffsetOf(c, n, p) = OffsetOf(b, n, p)
  BY OffsetSame DEF SameBytes
<1>3. RingOf(c, n)
  BY <1>1 DEF SameBytes, RingOf, TwoHalves
<1>4. read_is_safe(c) <=> read_is_safe(b)
  BY <1>1 DEF SameBytes, read_is_safe
<1>5. ASSUME NEW a, KeepsFrom(b, n, a)
      PROVE  KeepsFrom(c, n, a)
  BY <1>1, <1>2, <1>4, <1>5 DEF SameBytes, KeepsFrom
<1>6. QED
  BY <1>2, <1>3, <1>5

\* The tokens of the view depend on the bytes only.
LEMMA SpellsSame ==
  ASSUME NEW old, NEW b, NEW c, c.size = b.size, c.storage = b.storage
  PROVE  /\ \A t : EndIn(old, c, t) = EndIn(old, b, t)
         /\ \A t, a : Spells(old, b, t, a) => Spells(old, c, t, a)
<1>1. \A t, p : ByteIn(old, c, t, p) = ByteIn(old, b, t, p)
  BY DEF ByteIn
<1>2. \A t : EndIn(old, c, t) = EndIn(old, b, t)
  BY <1>1 DEF EndIn
<1>3. QED
  BY <1>1, <1>2 DEF Spells

\* The offset behind a view of these tokens.
NextIn(old, b, tokens, f) ==
  IF tokens = << >> THEN f ELSE EndIn(old, b, tokens[Len(tokens)])

LEMMA NextFromIn ==
  /\ NextFrom = NextIn(retired, buf, EventTokens, from)
  /\ NextFrom' = NextIn(retired', buf', EventTokens', from')
<1>1. \A t, p : TokenByte(t, p) = ByteIn(retired, buf, t, p)
  BY DEF TokenByte, ByteIn
<1>2. \A t, p : TokenByte(t, p)' = ByteIn(retired', buf', t, p)
  BY DEF TokenByte, ByteIn
<1>3. \A t : EndOffset(t) = EndIn(retired, buf, t)
  BY <1>1 DEF EndOffset, EndIn
<1>4. \A t : EndOffset(t)' = EndIn(retired', buf', t)
  BY <1>2 DEF EndOffset, EndIn
<1>5. QED
  BY <1>3, <1>4 DEF NextFrom, NextIn

\* get_next_character moves to the next byte or stays at the end.
LEMMA TakenSame ==
  ASSUME NEW b, NEW n \in Nat, IsBuffer(b), RingOf(b, n), b.pos \in 0 .. b.size - 1,
         NEW a \in Int, KeepsFrom(b, n, a), a <= OffsetOf(b, n, b.pos),
         b.fully_consumed => at_end_of_log(b),
         ~out_of_bounds(b),
         NEW c, c = taken(b)
  PROVE  /\ IsBuffer(c) /\ SameBytes(b, c)
         /\ c.pos \in 0 .. b.size - 1
         /\ c.fully_consumed <=> at_end_of_log(b)
         /\ c.fully_consumed => at_end_of_log(c)
         /\ IF at_end_of_log(b)
            THEN c.pos = b.pos /\ b.finished /\ OffsetOf(b, n, b.pos) = n
            ELSE /\ OffsetOf(b, n, b.pos) < n
                 /\ OffsetOf(b, n, c.pos) = OffsetOf(b, n, b.pos) + 1
<1>1. /\ at_end_of_log(b) => b.finished /\ OffsetOf(b, n, b.pos) = n
      /\ ~at_end_of_log(b) => OffsetOf(b, n, b.pos) < n
  BY PositionEnds
<1>2. CASE at_end_of_log(b)
  <2>1. c = [b EXCEPT !.fully_consumed = TRUE]
    BY <1>2 DEF taken, consume_log
  <2>2. /\ IsBuffer(c) /\ SameBytes(b, c) /\ c.pos = b.pos /\ c.fully_consumed = TRUE
    BY <2>1 DEF IsBuffer, SameBytes
  <2>3. at_end_of_log(c)
    BY <1>2, <2>2 DEF at_end_of_log, SameBytes
  <2>4. QED
    BY <1>1, <1>2, <2>2, <2>3
<1>3. CASE ~at_end_of_log(b)
  <2>1. c = [b EXCEPT !.pos = next_pos(b, b.pos)]
    BY <1>3 DEF taken, advance
  <2>2. ~b.fully_consumed /\ b.fully_consumed \in BOOLEAN
    BY <1>3 DEF RingOf
  <2>3. /\ IsBuffer(c) /\ SameBytes(b, c) /\ c.pos = next_pos(b, b.pos)
        /\ ~c.fully_consumed
    BY <2>1, <2>2 DEF IsBuffer, SameBytes
  <2>4. /\ c.pos \in 0 .. b.size - 1
        /\ OffsetOf(b, n, c.pos) = OffsetOf(b, n, b.pos) + 1
    BY <1>1, <1>3, <2>3, OffsetNext
  <2>5. QED
    BY <1>1, <1>3, <2>3, <2>4
<1>4. QED
  BY <1>2, <1>3

\* The lexer goes back to a position.
LEMMA MovedSame ==
  ASSUME NEW b, NEW n, IsBuffer(b), RingOf(b, n), NEW p
  PROVE  /\ IsBuffer(go_back(b, p)) /\ SameBytes(b, go_back(b, p))
         /\ go_back(b, p).pos = p /\ ~go_back(b, p).fully_consumed
         /\ IsBuffer(set_pos(b, p)) /\ SameBytes(b, set_pos(b, p))
         /\ set_pos(b, p).pos = p /\ set_pos(b, p).fully_consumed = b.fully_consumed
<1>1. PICK c, d : c = go_back(b, p) /\ d = set_pos(b, p)
  OBVIOUS
<1>2. /\ IsBuffer(c) /\ SameBytes(b, c) /\ c.pos = p /\ c.fully_consumed = FALSE
  BY <1>1 DEF go_back, set_pos, set_log_fully_consumed, IsBuffer, SameBytes
<1>3. b.fully_consumed \in BOOLEAN
  BY DEF RingOf
<1>4. /\ IsBuffer(d) /\ SameBytes(b, d) /\ d.pos = p
      /\ d.fully_consumed = b.fully_consumed
  BY <1>1, <1>3 DEF set_pos, IsBuffer, SameBytes
<1>5. QED
  BY <1>1, <1>2, <1>4

-----------------------------------------------------------------------------
(***************************************************************************)
(* Lexer::scan.                                                            *)
(***************************************************************************)
Scanning == {"scan", "main", "skip"}

\* The state of a log parser while nothing has put its text in doubt.
Sound == TypeInv /\ TextInv /\ "text" \in intact

\* What a step of scan leaves alone.
ScanFrame ==
  UNCHANGED <<log, read_off, retired, out, start_of_log, done, from, intact>>

\* The facts that the steps start from.
LEMMA SoundFacts ==
  ASSUME Sound
  PROVE  /\ log \in Seq(Chars) /\ read_off \in 0 .. Len(log)
         /\ Len(log) \in Nat /\ read_off \in Nat
         /\ IsBuffer(buf) /\ RingOf(buf, read_off)
         /\ buf.size \in Nat /\ buf.size > 0 /\ buf.pos \in 0 .. buf.size - 1
         /\ buf.finished => read_off = Len(log)
         /\ buf.fully_consumed => at_end_of_log(buf)
         /\ lex \in Lexers
         /\ lex.start_pos \in 0 .. buf.size - 1
         /\ lex.match_pos \in 0 .. buf.size - 1
         /\ lex.last_match_pos \in 0 .. buf.size - 1
         /\ lex.first_delim # Unset => lex.first_delim \in 0 .. buf.size - 1
         /\ \A p \in 0 .. buf.size - 1 : Offset(p) \in Int /\ Offset(p) <= read_off
         /\ from \in Nat /\ from <= NextFrom /\ NextFrom = Offset(Seam)
         /\ NextFrom \in Int
         /\ Needed \in Int /\ Needed >= -1 /\ Needed <= NextFrom
         /\ KeepsFrom(buf, read_off, Needed)
<1>1. /\ log \in Seq(Chars) /\ read_off \in 0 .. Len(log)
      /\ StorageOf(buf, read_off) /\ LexerWithin(lex, buf.size)
      /\ BufferInv /\ SeamInv /\ TokenInv /\ KeptInv
  BY DEF Sound, TypeInv, TextInv
<1>2. Len(log) \in Nat /\ read_off \in Nat
  BY <1>1
<1>3. /\ IsBuffer(buf) /\ RingOf(buf, read_off)
      /\ buf.size \in Nat /\ buf.size > 0 /\ buf.pos \in 0 .. buf.size - 1
      /\ buf.finished => read_off = Len(log)
      /\ buf.fully_consumed => at_end_of_log(buf)
      /\ KeepsFrom(buf, read_off, Needed)
  BY <1>1 DEF BufferInv, StorageOf
<1>4. /\ lex \in Lexers
      /\ lex.start_pos \in 0 .. buf.size - 1
      /\ lex.match_pos \in 0 .. buf.size - 1
      /\ lex.last_match_pos \in 0 .. buf.size - 1
      /\ lex.first_delim # Unset => lex.first_delim \in 0 .. buf.size - 1
  BY <1>1, <1>3 DEF LexerWithin, Unset
<1>5. \A p \in 0 .. buf.size - 1 : Offset(p) \in Int /\ Offset(p) <= read_off
  BY <1>2, <1>3, OffsetRange DEF Offset
<1>6. from \in Nat /\ from <= NextFrom /\ NextFrom = Offset(Seam)
  BY <1>1 DEF SeamInv
<1>7. Seam \in 0 .. buf.size - 1
  <2>1. pc = "token" => tok.start_pos \in 0 .. buf.size - 1
    BY <1>1, <1>3 DEF TokenInv, Current, Tokens
  <2>2. start_of_log # NoToken => start_of_log.start_pos \in 0 .. buf.size - 1
    BY <1>1, <1>3 DEF KeptInv, Current, Tokens
  <2>3. QED
    BY <1>4, <2>1, <2>2 DEF Seam, Pending
<1>8. NextFrom \in Int
  BY <1>5, <1>6, <1>7
<1>9. Needed \in Int /\ Needed >= -1 /\ Needed <= NextFrom
  BY <1>6, <1>8 DEF Needed
<1>10. QED
  BY <1>1, <1>2, <1>3, <1>4, <1>5, <1>6, <1>8, <1>9

\* While scan runs, no token is kept.
LEMMA ScanFacts ==
  ASSUME Sound, pc \in Scanning
  PROVE  /\ start_of_log = NoToken /\ Seam = Pending /\ Needed = NextFrom /\ ~done
         /\ done \in BOOLEAN /\ retired \in Seq(Storages)
         /\ RestInv /\ MainInv /\ SkipInv
         /\ lex.asked => pc = "scan"
BY DEF Sound, TextInv, KeptInv, LexerInv, Scanning, Seam, Needed

\* The view is the same and the next token still begins where it ends.
LEMMA ScanKeepsText ==
  ASSUME Sound, pc \in Scanning, pc' \in Scanning \cup {"token", "oob"},
         ScanFrame, SameBytes(buf, buf'),
         buf'.fully_consumed => at_end_of_log(buf'),
         pc' = "oob" => out_of_bounds(buf'),
         Offset(Seam') = Offset(Seam),
         LexerInv', TokenInv'
  PROVE  TextInv'
<1> USE DEF ScanFrame
<1>1. /\ start_of_log = NoToken /\ Needed = NextFrom /\ ~done /\ done \in BOOLEAN
      /\ retired \in Seq(Storages)
  BY ScanFacts
<1>2. /\ RingOf(buf, read_off) /\ KeepsFrom(buf, read_off, Needed)
      /\ buf.finished => read_off = Len(log)
      /\ NextFrom = Offset(Seam) /\ from \in Nat /\ from <= NextFrom
  BY SoundFacts
<1>3. /\ RingOf(buf', read_off)
      /\ \A p : OffsetOf(buf', read_off, p) = Offset(p)
      /\ KeepsFrom(buf', read_off, Needed)
  BY <1>2, SameRing DEF Offset
<1>4. EventTokens' = EventTokens
  BY DEF EventTokens
<1>5. /\ \A t : EndIn(retired', buf', t) = EndIn(retired, buf, t)
      /\ \A t, a : Spells(retired, buf, t, a) => Spells(retired', buf', t, a)
  BY SpellsSame DEF SameBytes
<1>6. NextFrom' = NextFrom
  BY <1>4, <1>5, NextFromIn DEF NextIn
<1>7. Needed' = Needed
  BY <1>6 DEF Needed
<1>8. BufferInv'
  BY <1>2, <1>3, <1>7 DEF BufferInv, SameBytes
<1>9. KeptInv'
  BY <1>1 DEF KeptInv
<1>10. ViewInv'
  <2>1. ViewInv
    BY DEF Sound, TextInv
  <2>2. pc' \notin {"ready", "failed", "event"} /\ pc \notin {"ready", "failed", "event"}
    BY DEF Scanning
  <2>3. ASSUME NEW k \in 1 .. Len(EventTokens)
        PROVE  Spells(retired', buf', EventTokens[k],
                      IF k = 1 THEN from ELSE EndIn(retired', buf', EventTokens[k - 1]))
    BY <1>5, <2>1 DEF ViewInv
  <2>4. QED
    BY <1>4, <2>1, <2>2, <2>3 DEF ViewInv
<1>11. SeamInv'
  <2>1. Offset(Seam)' = OffsetOf(buf', read_off, Seam')
    BY DEF Offset
  <2>2. NextFrom' = Offset(Seam)'
    BY <1>2, <1>3, <1>6, <2>1
  <2>3. pc' # "event"
    BY DEF Scanning
  <2>4. QED
    BY <1>1, <1>2, <1>6, <2>2, <2>3 DEF SeamInv
<1>12. QED
  BY <1>1, <1>8, <1>9, <1>10, <1>11 DEF TextInv

\* The primed form of the offsets, in a step that reads nothing.
LEMMA SameOffsets ==
  ASSUME Sound, SameBytes(buf, buf'), read_off' = read_off
  PROVE  \A p : OffsetOf(buf', read_off', p) = OffsetOf(buf, read_off, p)
BY SoundFacts, SameRing

\* What the lexer keeps from the characters before the one it takes now, and
\* what the main loop adds for that one: a delimiter and a match lie behind
\* the text that was returned and are not ahead of the position.
LEMMA MainFacts ==
  ASSUME Sound, NEW c \in NextChars, MainLoop(c),
         NEW y, y = Seen(c), NEW b, b = taken(buf)
  PROVE  /\ y \in Lexers /\ ~y.asked
         /\ y.start_pos = lex.start_pos /\ y.last_match_pos = lex.last_match_pos
         /\ y.match_pos \in 0 .. buf.size - 1
         /\ y.match => /\ Offset(y.start_pos) < Offset(y.match_pos)
                       /\ Offset(y.match_pos) <= Offset(buf.pos)
                       /\ y.type \notin {NoType, TokenEnd}
         /\ y.first_delim # Unset =>
              /\ y.first_delim \in 0 .. buf.size - 1
              /\ Offset(y.last_match_pos) < Offset(y.first_delim)
              /\ Offset(y.first_delim) < Offset(b.pos)
         /\ Offset(y.last_match_pos) <= Offset(y.start_pos)
         /\ Offset(y.start_pos) <= Offset(buf.pos)
         /\ Offset(buf.pos) <= Offset(b.pos)
         /\ IsBuffer(b) /\ SameBytes(buf, b)
         /\ b.pos \in 0 .. buf.size - 1
         /\ b.fully_consumed <=> at_end_of_log(buf)
         /\ b.fully_consumed => at_end_of_log(b)
         /\ IF at_end_of_log(buf)
            THEN /\ c = CharEOF /\ b.pos = buf.pos
                 /\ buf.finished /\ Offset(buf.pos) = read_off
            ELSE /\ c \in Chars
                 /\ Offset(buf.pos) < read_off
                 /\ Offset(b.pos) = Offset(buf.pos) + 1
<1>1. pc = "main" /\ pc \in Scanning /\ ~out_of_bounds(buf)
  BY DEF MainLoop, Scanning
<1>2. /\ lex \in Lexers /\ ~lex.asked /\ MainInv
      /\ Needed = NextFrom /\ NextFrom = Offset(lex.last_match_pos)
      /\ Offset(lex.last_match_pos) <= Offset(lex.start_pos)
      /\ Offset(lex.start_pos) <= Offset(buf.pos)
  BY <1>1, SoundFacts, ScanFacts DEF MainInv, Pending
<1>3. /\ \A p \in 0 .. buf.size - 1 : Offset(p) \in Int /\ Offset(p) <= read_off
      /\ IsBuffer(buf) /\ RingOf(buf, read_off) /\ buf.pos \in 0 .. buf.size - 1
      /\ read_off \in Nat /\ KeepsFrom(buf, read_off, Needed)
      /\ buf.fully_consumed => at_end_of_log(buf)
      /\ lex.start_pos \in 0 .. buf.size - 1
      /\ lex.last_match_pos \in 0 .. buf.size - 1
      /\ NextFrom \in Int
  BY SoundFacts
<1>4. /\ IsBuffer(b) /\ SameBytes(buf, b)
      /\ b.pos \in 0 .. buf.size - 1
      /\ b.fully_consumed <=> at_end_of_log(buf)
      /\ b.fully_consumed => at_end_of_log(b)
      /\ IF at_end_of_log(buf)
         THEN b.pos = buf.pos /\ buf.finished /\ Offset(buf.pos) = read_off
         ELSE /\ Offset(buf.pos) < read_off
              /\ Offset(b.pos) = Offset(buf.pos) + 1
  <2>1. Needed \in Int /\ Needed <= OffsetOf(buf, read_off, buf.pos)
    BY <1>2, <1>3 DEF Offset
  <2>2. QED
    BY <1>1, <1>3, <2>1, TakenSame DEF Offset
<1>5. Offset(buf.pos) <= Offset(b.pos)
  BY <1>3, <1>4
<1>6. IF at_end_of_log(buf) THEN c = CharEOF ELSE c \in Chars
  <2>1. CASE at_end_of_log(buf)
    BY <2>1 DEF NextChars
  <2>2. CASE ~at_end_of_log(buf)
    <3>1. TypeInv
      BY DEF Sound
    <3>2. curr_value(buf) \in Unset .. read_off - 1
      BY <3>1 DEF TypeInv, StorageOf, curr_value
    <3>3. curr_value(buf) # Unset => curr_value(buf) + 1 \in 1 .. Len(log)
      <4>1. PICK v : v = curr_value(buf)
        OBVIOUS
      <4>2. read_off \in Nat /\ Len(log) \in Nat /\ read_off <= Len(log)
        BY SoundFacts
      <4>3. v # Unset => v + 1 \in 1 .. Len(log)
        BY <3>2, <4>1, <4>2 DEF Unset
      <4>4. QED
        BY <4>1, <4>3
    <3>4. c \in CharsOf(curr_value(buf))
      BY <2>2 DEF NextChars
    <3>5. QED
      BY <2>2, <3>3, <3>4, SoundFacts DEF CharsOf
  <2>3. QED
    BY <2>1, <2>2
<1>7. LexerWithin(y, buf.size)
  BY SeenWithin DEF Sound
<1>8. PICK x : x = note_delimiter(lex, buf, c)
  OBVIOUS
<1>9. /\ x \in Lexers
      /\ x.asked = lex.asked
      /\ x.match = lex.match
      /\ x.match_pos = lex.match_pos
      /\ x.start_pos = lex.start_pos
      /\ x.last_match_pos = lex.last_match_pos
      /\ x.state = lex.state
      /\ x.type = lex.type
      /\ \/ x.first_delim = lex.first_delim
         \/ x.first_delim = buf.pos /\ c \in Delims /\ buf.pos # lex.last_match_pos
  <2>1. buf.pos \in Nat
    BY <1>3
  <2>2. QED
    BY <1>2, <1>8, <2>1 DEF note_delimiter, Lexers
<1>10. PICK z : z = note_match(x, buf, c)
  OBVIOUS
<1>11. /\ z.asked = x.asked
       /\ z.start_pos = x.start_pos
       /\ z.last_match_pos = x.last_match_pos
       /\ z.first_delim = x.first_delim
       /\ \/ z.match = x.match /\ z.match_pos = x.match_pos /\ z.type = x.type
          \/ /\ is_accepting(x.state)
             /\ z.match_pos = buf.pos
             /\ z.type = TypeIds[x.state]
  BY <1>9, <1>10 DEF note_match, Lexers
<1>12. z \in Lexers
  <2>1. is_accepting(x.state) => TypeIds[x.state] \in Types
    BY <1>9 DEF is_accepting, Lexers, Types
  <2>2. buf.pos \in Nat
    BY <1>3
  <2>3. QED
    BY <1>9, <1>10, <2>1, <2>2 DEF note_match, Lexers
<1>13. /\ y.asked = z.asked
       /\ y.match = z.match
       /\ y.match_pos = z.match_pos
       /\ y.start_pos = z.start_pos
       /\ y.last_match_pos = z.last_match_pos
       /\ y.first_delim = z.first_delim
       /\ y.type = z.type
  <2>1. y = process_char(z, c)
    BY <1>8, <1>10 DEF Seen, see_character
  <2>2. QED
    BY <1>12, <2>1 DEF process_char, Lexers
<1>14. y.start_pos = lex.start_pos /\ y.last_match_pos = lex.last_match_pos
  BY <1>9, <1>11, <1>13
<1>15. ASSUME y.match
       PROVE  /\ Offset(y.start_pos) < Offset(y.match_pos)
              /\ Offset(y.match_pos) <= Offset(buf.pos)
              /\ y.type \notin {NoType, TokenEnd}
  <2>1. CASE z.match = x.match /\ z.match_pos = x.match_pos /\ z.type = x.type
    BY <1>1, <1>2, <1>9, <1>13, <1>14, <1>15, <2>1 DEF MainInv
  <2>2. CASE /\ is_accepting(x.state)
             /\ z.match_pos = buf.pos
             /\ z.type = TypeIds[x.state]
    <3>1. lex.start_pos # buf.pos
      BY <1>1, <1>2, <1>9, <2>2 DEF MainInv
    <3>2. Offset(lex.start_pos) # Offset(buf.pos)
      BY <1>3, <3>1, OffsetInjective DEF Offset
    <3>3. Offset(lex.start_pos) < Offset(buf.pos)
      BY <1>2, <1>3, <3>2
    <3>4. y.type # NoType /\ y.type # TokenEnd
      BY <1>9, <1>13, <2>2, RulesAssumption DEF is_accepting, Lexers
    <3>5. QED
      BY <1>3, <1>13, <1>14, <2>2, <3>3, <3>4
  <2>3. QED
    BY <1>11, <2>1, <2>2
<1>16. ASSUME y.first_delim # Unset
       PROVE  /\ Offset(y.last_match_pos) < Offset(y.first_delim)
              /\ Offset(y.first_delim) < Offset(b.pos)
  <2>1. CASE y.first_delim = lex.first_delim
    <3>1. lex.first_delim \in 0 .. buf.size - 1
      BY <1>16, <2>1, SoundFacts
    <3>2. /\ Offset(lex.last_match_pos) < Offset(lex.first_delim)
          /\ Offset(lex.first_delim) < Offset(buf.pos)
      BY <1>1, <1>2, <1>16, <2>1 DEF MainInv
    <3>3. QED
      BY <1>3, <1>4, <1>5, <1>14, <2>1, <3>1, <3>2
  <2>2. CASE y.first_delim = buf.pos /\ c \in Delims /\ buf.pos # lex.last_match_pos
    <3>1. ~at_end_of_log(buf)
      BY <1>6, <2>2, SchemaAssumption
    <3>2. Offset(lex.last_match_pos) # Offset(buf.pos)
      BY <1>3, <2>2, OffsetInjective DEF Offset
    <3>3. QED
      BY <1>2, <1>3, <1>4, <1>14, <2>2, <3>1, <3>2
  <2>3. QED
    BY <1>9, <1>11, <1>13, <2>1, <2>2
<1>17. y \in Lexers /\ y.match_pos \in 0 .. buf.size - 1
       /\ y.first_delim \in Unset .. buf.size - 1
  BY <1>7 DEF LexerWithin
<1>18. y.first_delim # Unset => y.first_delim \in 0 .. buf.size - 1
  BY <1>3, <1>17 DEF Unset
<1>19. ~y.asked
  BY <1>2, <1>9, <1>11, <1>13
<1>20. QED
  BY <1>2, <1>4, <1>5, <1>6, <1>14, <1>15, <1>16, <1>17, <1>18, <1>19

\* A token that scan makes.
LEMMA NewTokenCurrent ==
  ASSUME Sound, NEW p \in 0 .. buf.size - 1, NEW q \in 0 .. buf.size - 1,
         NEW k \in Types, k # NoType, NEW t, t = NewToken(p, q, k)
  PROVE  t.start_pos = p /\ t.end_pos = q /\ t.type = k /\ Current(t)
<1>1. buf.size \in Nat /\ p \in Nat /\ q \in Nat
  BY SoundFacts
<1>2. Len(retired) + 1 \in Nat
  BY DEF Sound, TextInv
<1>3. t = [ start_pos |-> p, end_pos |-> q, type |-> k,
            buffer |-> Len(retired) + 1, buffer_size |-> buf.size ]
  BY DEF NewToken
<1>4. t \in Tokens
  BY <1>1, <1>2, <1>3 DEF Tokens
<1>5. QED
  BY <1>1, <1>3, <1>4 DEF Current

\* Scan goes on where it was interrupted, or starts at the start of a file.
LEMMA ScanResumeText ==
  ASSUME Sound, ScanResume
  PROVE  TextInv'
<1> USE DEF ScanResume, input_vars, parse_vars, history
<1>1. ScanFrame /\ pc = "scan" /\ pc \in Scanning /\ pc' = "main" /\ buf' = buf
  BY DEF ScanFrame, Scanning
<1>2. /\ lex \in Lexers /\ MainInv /\ Seam = Pending /\ start_of_log = NoToken
      /\ SameBytes(buf, buf')
      /\ buf.fully_consumed => at_end_of_log(buf)
  BY <1>1, SoundFacts, ScanFacts DEF SameBytes, RingOf
<1>3. \A p : OffsetOf(buf', read_off', p) = OffsetOf(buf, read_off, p)
  BY <1>1, <1>2, SameOffsets DEF ScanFrame
<1>4. /\ ~lex'.asked
      /\ lex'.match = lex.match
      /\ lex'.match_pos = lex.match_pos
      /\ lex'.start_pos = lex.start_pos
      /\ lex'.last_match_pos = lex.last_match_pos
      /\ lex'.first_delim = lex.first_delim
      /\ lex'.state = lex.state
      /\ lex'.type = lex.type
  BY <1>2 DEF resume_scan, Lexers
<1>5. LexerInv'
  <2>1. MainInv'
    BY <1>1, <1>2, <1>3, <1>4 DEF MainInv, Offset
  <2>2. QED
    BY <1>1, <1>4, <2>1 DEF LexerInv, RestInv, SkipInv
<1>6. Seam' = Seam
  BY <1>1, <1>2, <1>4 DEF Seam, Pending
<1>7. QED
  BY <1>1, <1>2, <1>5, <1>6, ScanKeepsText DEF TokenInv, Scanning

\* Scan returns the match that was prepared.
LEMMA ScanPreparedText ==
  ASSUME Sound, ScanPrepared
  PROVE  TextInv'
<1> USE DEF ScanPrepared, Return, input_vars, parse_vars, history
<1>1. ScanFrame /\ pc = "scan" /\ pc \in Scanning /\ pc' = "token" /\ buf' = buf
  BY DEF ScanFrame, Scanning
<1>2. /\ lex \in Lexers /\ RestInv /\ Seam = Pending /\ start_of_log = NoToken
      /\ lex.start_pos \in 0 .. buf.size - 1 /\ lex.match_pos \in 0 .. buf.size - 1
      /\ SameBytes(buf, buf')
      /\ buf.fully_consumed => at_end_of_log(buf)
  BY <1>1, SoundFacts, ScanFacts DEF SameBytes, RingOf
<1>3. \A p : OffsetOf(buf', read_off', p) = OffsetOf(buf, read_off, p)
  BY <1>1, <1>2, SameOffsets DEF ScanFrame
<1>4. /\ buf.pos = lex.match_pos
      /\ lex.type # NoType
      /\ lex.type # TokenEnd => Offset(lex.start_pos) < Offset(lex.match_pos)
      /\ lex.type = TokenEnd =>
           Offset(lex.start_pos) = read_off /\ Offset(buf.pos) = read_off /\ buf.finished
  BY <1>1, <1>2 DEF RestInv
<1>5. /\ ~lex'.asked /\ ~lex'.match
      /\ lex'.first_delim = Unset
      /\ lex'.last_match_pos = lex.match_pos
  BY <1>2 DEF take_match, Lexers
<1>6. LexerInv'
  BY <1>1, <1>4, <1>5 DEF LexerInv, RestInv, MainInv, SkipInv
<1>7. lex.type \in Types
  BY <1>2 DEF Lexers
<1>8. PICK t : t = NewToken(lex.start_pos, lex.match_pos, lex.type)
  OBVIOUS
<1>9. /\ tok' = t /\ t.start_pos = lex.start_pos /\ t.end_pos = lex.match_pos
      /\ t.type = lex.type /\ Current(t)
  BY <1>2, <1>4, <1>7, <1>8, NewTokenCurrent
<1>10. TokenInv'
  <2>1. Pending' = lex.match_pos
    BY <1>1, <1>5 DEF Pending
  <2>2. Current(tok)'
    BY <1>1, <1>9 DEF Current, ScanFrame
  <2>3. QED
    BY <1>1, <1>3, <1>4, <1>5, <1>9, <2>1, <2>2 DEF TokenInv, Offset
<1>11. Seam' = Seam
  BY <1>1, <1>2, <1>9 DEF Seam, Pending
<1>12. QED
  BY <1>1, <1>2, <1>6, <1>10, <1>11, ScanKeepsText

\* Scan starts behind the text that was returned, at the delimiter it has
\* passed if there is one.
LEMMA ScanFreshText ==
  ASSUME Sound, ScanFresh
  PROVE  TextInv'
<1> USE DEF ScanFresh, input_vars, parse_vars, history
<1>1. ScanFrame /\ pc = "scan" /\ pc \in Scanning /\ pc' = "main"
  BY DEF ScanFrame, Scanning
<1>2. /\ lex \in Lexers /\ RestInv /\ Seam = Pending /\ start_of_log = NoToken
      /\ lex.last_match_pos \in 0 .. buf.size - 1
      /\ IsBuffer(buf) /\ RingOf(buf, read_off)
      /\ buf.fully_consumed => at_end_of_log(buf)
      /\ \A p \in 0 .. buf.size - 1 : Offset(p) \in Int
  BY <1>1, SoundFacts, ScanFacts
<1>3. lex.last_match_pos = IF lex.first_delim = Unset THEN buf.pos ELSE lex.first_delim
  BY <1>1, <1>2 DEF RestInv
<1>4. /\ SameBytes(buf, buf')
      /\ buf'.pos = lex.last_match_pos
      /\ buf'.fully_consumed => at_end_of_log(buf')
  <2>1. CASE lex.first_delim = Unset
    BY <1>2, <1>3, <2>1 DEF rewind, SameBytes, RingOf
  <2>2. CASE lex.first_delim # Unset
    BY <1>2, <1>3, <2>2, MovedSame DEF rewind
  <2>3. QED
    BY <2>1, <2>2
<1>5. \A p : OffsetOf(buf', read_off', p) = OffsetOf(buf, read_off, p)
  BY <1>1, <1>4, SameOffsets DEF ScanFrame
<1>6. lex' = [lex EXCEPT !.state = Root, !.start_pos = lex.last_match_pos,
                         !.match_pos = lex.last_match_pos,
                         !.type = NoType, !.first_delim = Unset]
  BY <1>4 DEF start_scan
<1>7. /\ ~lex'.asked /\ ~lex'.match
      /\ lex'.start_pos = lex.last_match_pos
      /\ lex'.last_match_pos = lex.last_match_pos
      /\ lex'.first_delim = Unset
      /\ lex'.state = Root
  BY <1>2, <1>6 DEF Lexers
<1>8. LexerInv'
  <2>1. ~is_accepting(Root)
    BY RulesAssumption DEF is_accepting
  <2>2. MainInv'
    BY <1>1, <1>2, <1>4, <1>5, <1>7, <2>1 DEF MainInv, Offset
  <2>3. QED
    BY <1>1, <1>7, <2>2 DEF LexerInv, RestInv, SkipInv
<1>9. Seam' = Seam
  BY <1>1, <1>2, <1>7 DEF Seam, Pending
<1>10. QED
  BY <1>1, <1>4, <1>8, <1>9, ScanKeepsText DEF TokenInv, Scanning

\* Scan has run into the end of what was read.
LEMMA ScanOutOfBoundsText ==
  ASSUME Sound, ScanOutOfBounds \/ SkipOutOfBounds
  PROVE  TextInv'
<1> USE DEF ScanOutOfBounds, SkipOutOfBounds, input_vars, parse_vars, history
<1>1. /\ ScanFrame /\ pc \in {"main", "skip"} /\ pc \in Scanning /\ pc' = "oob"
      /\ buf' = buf /\ out_of_bounds(buf)
  BY DEF ScanFrame, Scanning
<1>2. /\ lex \in Lexers /\ MainInv /\ SkipInv
      /\ Seam = Pending /\ start_of_log = NoToken
      /\ NextFrom = Offset(Seam) /\ NextFrom = Needed /\ NextFrom \in Int
      /\ lex.start_pos \in 0 .. buf.size - 1
      /\ lex.last_match_pos \in 0 .. buf.size - 1
      /\ SameBytes(buf, buf')
      /\ buf.fully_consumed => at_end_of_log(buf)
      /\ \A p \in 0 .. buf.size - 1 : Offset(p) \in Int
      /\ IsBuffer(buf) /\ RingOf(buf, read_off) /\ buf.pos \in 0 .. buf.size - 1
  BY <1>1, SoundFacts, ScanFacts DEF SameBytes, RingOf
<1>3. \A p : OffsetOf(buf', read_off', p) = OffsetOf(buf, read_off, p)
  BY <1>1, <1>2, SameOffsets DEF ScanFrame
<1>4. /\ lex'.asked
      /\ lex'.match = lex.match
      /\ lex'.match_pos = lex.match_pos
      /\ lex'.start_pos = lex.start_pos
      /\ lex'.last_match_pos = lex.last_match_pos
      /\ lex'.first_delim = lex.first_delim
      /\ lex'.state = lex.state
      /\ lex'.type = lex.type
  BY <1>2 DEF Lexers
<1>5. MainInv'
  <2>1. CASE pc = "main"
    BY <1>1, <1>2, <1>3, <1>4, <2>1 DEF MainInv, Offset
  <2>2. CASE pc = "skip"
    <3>1. /\ ~lex.match /\ lex.first_delim = Unset
          /\ skip.prev \in 0 .. buf.size - 1
          /\ Offset(lex.last_match_pos) <= Offset(lex.start_pos)
          /\ Offset(lex.start_pos) <= Offset(skip.prev)
          /\ Offset(skip.prev) < Offset(buf.pos)
      <4>1. ~buf.fully_consumed
        BY <1>1, <1>2 DEF out_of_bounds
      <4>2. skip.prev \in 0 .. buf.size - 1
        BY <2>2 DEF Sound, TypeInv
      <4>3. QED
        BY <1>2, <2>2, <4>1, <4>2 DEF SkipInv
    <3>2. Offset(lex.start_pos) < Offset(buf.pos)
      BY <1>2, <3>1
    <3>3. lex.start_pos # buf.pos
      BY <1>2, <3>2
    <3>4. QED
      BY <1>1, <1>2, <1>3, <1>4, <3>1, <3>2, <3>3 DEF MainInv, Offset
  <2>3. QED
    BY <1>1, <2>1, <2>2
<1>6. LexerInv'
  BY <1>1, <1>4, <1>5 DEF LexerInv, RestInv, SkipInv
<1>7. Seam' = Seam
  BY <1>1, <1>2, <1>4 DEF Seam, Pending
<1>8. QED
  BY <1>1, <1>2, <1>6, <1>7, ScanKeepsText DEF TokenInv, Scanning

\* What a step of the main loop starts from.
LEMMA MainStart ==
  ASSUME Sound, pc = "main"
  PROVE  /\ pc \in Scanning /\ start_of_log = NoToken
         /\ Seam = lex.last_match_pos /\ MainInv
         /\ lex.start_pos \in 0 .. buf.size - 1
         /\ lex.last_match_pos \in 0 .. buf.size - 1
         /\ buf.pos \in 0 .. buf.size - 1
         /\ \A p \in 0 .. buf.size - 1 : Offset(p) \in Int
         /\ \A p, q \in 0 .. buf.size - 1 : Offset(p) = Offset(q) => p = q
<1>1. pc \in Scanning
  BY DEF Scanning
<1>2. \A p, q \in 0 .. buf.size - 1 : Offset(p) = Offset(q) => p = q
  BY SoundFacts, OffsetInjective DEF Offset
<1>3. QED
  BY <1>1, <1>2, SoundFacts, ScanFacts DEF Pending

\* "The newline character itself needs to be treated as a match".
LEMMA ScanNewlineText ==
  ASSUME Sound, ScanNewline
  PROVE  TextInv'
<1> USE DEF input_vars, parse_vars, history
<1>1. PICK c \in NextChars : /\ MainLoop(c)
                             /\ newline_is_match(Seen(c), buf, c)
                             /\ lex' = match_newline(Seen(c), buf)
                             /\ buf' = taken(buf)
                             /\ pc' = pc /\ ScanFrame
  BY DEF ScanNewline, ScanFrame
<1>2. PICK y, b : y = Seen(c) /\ b = taken(buf)
  OBVIOUS
<1>3. pc = "main"
  BY <1>1 DEF MainLoop
<1>4. /\ y \in Lexers /\ ~y.asked
      /\ y.start_pos = lex.start_pos /\ y.last_match_pos = lex.last_match_pos
      /\ y.first_delim # Unset =>
           /\ Offset(y.last_match_pos) < Offset(y.first_delim)
           /\ Offset(y.first_delim) < Offset(b.pos)
      /\ Offset(y.last_match_pos) <= Offset(y.start_pos)
      /\ Offset(y.start_pos) <= Offset(buf.pos)
      /\ SameBytes(buf, b)
      /\ b.pos \in 0 .. buf.size - 1
      /\ b.fully_consumed => at_end_of_log(b)
      /\ IF at_end_of_log(buf) THEN c = CharEOF ELSE Offset(b.pos) = Offset(buf.pos) + 1
  BY <1>1, <1>2, MainFacts
<1>5. Offset(b.pos) = Offset(buf.pos) + 1
  BY <1>1, <1>4, SchemaAssumption DEF newline_is_match
<1>6. /\ ~lex'.asked /\ lex'.match
      /\ lex'.type = TokenNewline
      /\ lex'.start_pos = buf.pos
      /\ lex'.match_pos = b.pos
      /\ lex'.last_match_pos = y.last_match_pos
      /\ lex'.first_delim = y.first_delim
  BY <1>1, <1>2, <1>4, SchemaAssumption DEF match_newline, process_char, Lexers
<1>7. \A p : OffsetOf(buf', read_off', p) = OffsetOf(buf, read_off, p)
  BY <1>1, <1>2, <1>4, SameOffsets DEF ScanFrame
<1>8. LexerInv'
  <2>1. TokenNewline \notin {NoType, TokenEnd}
    BY DEF TokenNewline, NoType, TokenEnd
  <2>2. /\ Offset(y.last_match_pos) <= Offset(buf.pos)
        /\ Offset(buf.pos) <= Offset(b.pos)
        /\ Offset(buf.pos) < Offset(b.pos)
        /\ Offset(b.pos) <= Offset(b.pos)
    BY <1>3, <1>4, <1>5, MainStart
  <2>3. buf.pos # b.pos
    BY <1>5, <1>3, MainStart
  <2>4. MainInv'
    BY <1>1, <1>2, <1>4, <1>6, <1>7, <2>1, <2>2, <2>3 DEF MainInv, Offset
  <2>5. QED
    BY <1>1, <1>3, <1>6, <2>4 DEF LexerInv, RestInv, SkipInv
<1>9. Seam' = Seam
  BY <1>1, <1>3, <1>4, <1>6, MainStart DEF Seam, Pending, ScanFrame
<1>10. QED
  BY <1>1, <1>2, <1>3, <1>4, <1>8, <1>9, ScanKeepsText DEF TokenInv, Scanning

\* The automaton goes on.
LEMMA ScanContinueText ==
  ASSUME Sound, ScanContinue
  PROVE  TextInv'
<1> USE DEF input_vars, parse_vars, history
<1>1. PICK c \in NextChars : /\ MainLoop(c)
                             /\ ~taken(buf).fully_consumed
                             /\ lex' = Seen(c)
                             /\ buf' = taken(buf)
                             /\ pc' = pc /\ ScanFrame
  BY DEF ScanContinue, ScanFrame
<1>2. PICK y, b : y = Seen(c) /\ b = taken(buf)
  OBVIOUS
<1>3. pc = "main"
  BY <1>1 DEF MainLoop
<1>4. /\ y \in Lexers /\ ~y.asked
      /\ y.start_pos = lex.start_pos /\ y.last_match_pos = lex.last_match_pos
      /\ y.match_pos \in 0 .. buf.size - 1
      /\ y.match => /\ Offset(y.start_pos) < Offset(y.match_pos)
                    /\ Offset(y.match_pos) <= Offset(buf.pos)
                    /\ y.type \notin {NoType, TokenEnd}
      /\ y.first_delim # Unset =>
           /\ Offset(y.last_match_pos) < Offset(y.first_delim)
           /\ Offset(y.first_delim) < Offset(b.pos)
      /\ Offset(y.last_match_pos) <= Offset(y.start_pos)
      /\ Offset(y.start_pos) <= Offset(buf.pos)
      /\ SameBytes(buf, b)
      /\ b.pos \in 0 .. buf.size - 1
      /\ b.fully_consumed <=> at_end_of_log(buf)
      /\ b.fully_consumed => at_end_of_log(b)
      /\ ~at_end_of_log(buf) => Offset(b.pos) = Offset(buf.pos) + 1
  BY <1>1, <1>2, MainFacts
<1>5. Offset(b.pos) = Offset(buf.pos) + 1
  BY <1>1, <1>2, <1>4
<1>6. \A p : OffsetOf(buf', read_off', p) = OffsetOf(buf, read_off, p)
  BY <1>1, <1>2, <1>4, SameOffsets DEF ScanFrame
<1>7. LexerInv'
  <2>1. /\ Offset(y.start_pos) < Offset(b.pos)
        /\ Offset(y.start_pos) <= Offset(b.pos)
        /\ y.match => Offset(y.match_pos) <= Offset(b.pos)
    BY <1>3, <1>4, <1>5, MainStart
  <2>2. y.start_pos # b.pos
    BY <1>3, <1>4, <2>1, MainStart
  <2>3. MainInv'
    BY <1>1, <1>2, <1>4, <1>6, <2>1, <2>2 DEF MainInv, Offset
  <2>4. QED
    BY <1>1, <1>2, <1>3, <1>4, <2>3 DEF LexerInv, RestInv, SkipInv
<1>8. Seam' = Seam
  BY <1>1, <1>2, <1>3, <1>4, MainStart DEF Seam, Pending, ScanFrame
<1>9. QED
  BY <1>1, <1>2, <1>3, <1>4, <1>7, <1>8, ScanKeepsText DEF TokenInv, Scanning

\* The longest match ends: scan goes back to its end, and returns it or first
\* the text before it.
LEMMA ScanMatchText ==
  ASSUME Sound, ScanMatch
  PROVE  TextInv'
<1> USE DEF input_vars, parse_vars, history, Return
<1>1. PICK c \in NextChars :
        /\ MainLoop(c) /\ Seen(c).match
        /\ buf' = go_back(taken(buf), Seen(c).match_pos)
        /\ IF Seen(c).last_match_pos # Seen(c).start_pos
           THEN /\ lex' = Seen(c)
                /\ tok' = NewToken(Seen(c).last_match_pos, Seen(c).start_pos,
                                   TokenUncaughtString)
           ELSE /\ lex' = take_match(Seen(c))
                /\ tok' = NewToken(Seen(c).start_pos, Seen(c).match_pos,
                                   Seen(c).type)
        /\ pc' = "token" /\ ScanFrame
  BY DEF ScanMatch, Stuck, ScanFrame
<1>2. PICK y, b : y = Seen(c) /\ b = taken(buf)
  OBVIOUS
<1>3. pc = "main"
  BY <1>1 DEF MainLoop
<1>4. /\ y \in Lexers /\ ~y.asked /\ y.match
      /\ y.start_pos = lex.start_pos /\ y.last_match_pos = lex.last_match_pos
      /\ y.match_pos \in 0 .. buf.size - 1
      /\ Offset(y.start_pos) < Offset(y.match_pos)
      /\ y.type \notin {NoType, TokenEnd}
      /\ Offset(y.last_match_pos) <= Offset(y.start_pos)
      /\ IsBuffer(b) /\ SameBytes(buf, b)
  BY <1>1, <1>2, MainFacts
<1>5. /\ SameBytes(buf, buf')
      /\ buf'.pos = y.match_pos
      /\ ~buf'.fully_consumed
  <2>1. RingOf(b, read_off)
    BY <1>4, SoundFacts, SameRing
  <2>2. SameBytes(b, buf') /\ buf'.pos = y.match_pos /\ ~buf'.fully_consumed
    BY <1>1, <1>2, <1>4, <2>1, MovedSame
  <2>3. QED
    BY <1>4, <2>2 DEF SameBytes
<1>6. \A p : OffsetOf(buf', read_off', p) = OffsetOf(buf, read_off, p)
  BY <1>1, <1>5, SameOffsets DEF ScanFrame
<1>7. CASE y.last_match_pos # y.start_pos
  <2>1. lex' = y /\ tok' = NewToken(y.last_match_pos, y.start_pos, TokenUncaughtString)
    BY <1>1, <1>2, <1>7
  <2>2. TokenUncaughtString \in Types /\ TokenUncaughtString # NoType
        /\ TokenUncaughtString # TokenEnd
    BY DEF Types, TokenUncaughtString, NoType, TokenEnd
  <2>3. PICK t : t = NewToken(y.last_match_pos, y.start_pos, TokenUncaughtString)
    OBVIOUS
  <2>4. /\ tok' = t /\ t.start_pos = y.last_match_pos /\ t.end_pos = y.start_pos
        /\ t.type = TokenUncaughtString /\ Current(t)
    BY <1>3, <1>4, <2>1, <2>2, <2>3, MainStart, NewTokenCurrent
  <2>5. Offset(y.last_match_pos) < Offset(y.start_pos)
    BY <1>3, <1>4, <1>7, MainStart
  <2>6. LexerInv'
    BY <1>1, <1>4, <1>5, <1>6, <2>1 DEF LexerInv, RestInv, MainInv, SkipInv, Offset
  <2>7. TokenInv'
    <3>1. Pending' = y.start_pos
      BY <1>1, <1>4, <2>1 DEF Pending
    <3>2. Current(tok)'
      BY <1>1, <1>5, <2>4 DEF Current, ScanFrame, SameBytes
    <3>3. QED
      BY <1>6, <2>2, <2>4, <2>5, <3>1, <3>2 DEF TokenInv, Offset
  <2>8. Seam' = Seam
    BY <1>1, <1>3, <1>4, <2>4, MainStart DEF Seam
  <2>9. QED
    BY <1>1, <1>3, <1>5, <2>6, <2>7, <2>8, MainStart, ScanKeepsText
<1>8. CASE y.last_match_pos = y.start_pos
  <2>1. lex' = take_match(y) /\ tok' = NewToken(y.start_pos, y.match_pos, y.type)
    BY <1>1, <1>2, <1>8
  <2>2. y.type \in Types
    BY <1>4 DEF Lexers
  <2>3. PICK t : t = NewToken(y.start_pos, y.match_pos, y.type)
    OBVIOUS
  <2>4. /\ tok' = t /\ t.start_pos = y.start_pos /\ t.end_pos = y.match_pos
        /\ t.type = y.type /\ Current(t)
    BY <1>3, <1>4, <2>1, <2>2, <2>3, MainStart, NewTokenCurrent
  <2>5. /\ ~lex'.asked /\ ~lex'.match /\ lex'.first_delim = Unset
        /\ lex'.last_match_pos = y.match_pos
    BY <1>4, <2>1 DEF take_match, Lexers
  <2>6. LexerInv'
    BY <1>1, <1>5, <2>5 DEF LexerInv, RestInv, MainInv, SkipInv
  <2>7. TokenInv'
    <3>1. Pending' = y.match_pos
      BY <1>1, <2>5 DEF Pending
    <3>2. Current(tok)'
      BY <1>1, <1>5, <2>4 DEF Current, ScanFrame, SameBytes
    <3>3. QED
      BY <1>4, <1>6, <2>4, <2>5, <3>1, <3>2 DEF TokenInv, Offset
  <2>8. Seam' = Seam
    BY <1>1, <1>3, <1>4, <1>8, <2>4, MainStart DEF Seam
  <2>9. QED
    BY <1>1, <1>3, <1>5, <2>6, <2>7, <2>8, MainStart, ScanKeepsText
<1>9. QED
  BY <1>7, <1>8

\* The end of the log is announced behind text that belongs to no rule.
LEMMA ScanLastTextText ==
  ASSUME Sound, ScanLastText
  PROVE  TextInv'
<1> USE DEF input_vars, parse_vars, history, Return
<1>1. PICK c \in NextChars :
        /\ MainLoop(c) /\ ~Seen(c).match /\ AtEnd(Seen(c))
        /\ Seen(c).last_match_pos # Seen(c).start_pos
        /\ lex' = [Seen(c) EXCEPT !.match = TRUE, !.match_pos = taken(buf).pos,
                                  !.type = TokenEnd]
        /\ buf' = taken(buf)
        /\ tok' = NewToken(Seen(c).last_match_pos, Seen(c).start_pos,
                           TokenUncaughtString)
        /\ pc' = "token" /\ ScanFrame
  BY DEF ScanLastText, Stuck, ScanFrame
<1>2. PICK y, b : y = Seen(c) /\ b = taken(buf)
  OBVIOUS
<1>3. pc = "main"
  BY <1>1 DEF MainLoop
<1>4. /\ y \in Lexers /\ ~y.asked
      /\ y.start_pos = lex.start_pos /\ y.last_match_pos = lex.last_match_pos
      /\ Offset(y.last_match_pos) <= Offset(y.start_pos)
      /\ SameBytes(buf, b)
      /\ b.fully_consumed <=> at_end_of_log(buf)
      /\ b.fully_consumed => at_end_of_log(b)
      /\ at_end_of_log(buf) =>
           /\ b.pos = buf.pos
           /\ buf.finished /\ Offset(buf.pos) = read_off
  BY <1>1, <1>2, MainFacts
<1>5. /\ b.pos = y.start_pos
      /\ Offset(b.pos) = read_off /\ buf.finished
      /\ y.last_match_pos # y.start_pos
  BY <1>1, <1>2, <1>4 DEF AtEnd
<1>6. /\ ~lex'.asked /\ lex'.match /\ lex'.type = TokenEnd
      /\ lex'.start_pos = y.start_pos /\ lex'.match_pos = b.pos
      /\ lex'.last_match_pos = y.last_match_pos
  BY <1>1, <1>2, <1>4 DEF Lexers
<1>7. \A p : OffsetOf(buf', read_off', p) = OffsetOf(buf, read_off, p)
  BY <1>1, <1>2, <1>4, SameOffsets DEF ScanFrame
<1>8. TokenUncaughtString \in Types /\ TokenUncaughtString # NoType
      /\ TokenUncaughtString # TokenEnd /\ TokenEnd # NoType
  BY DEF Types, TokenUncaughtString, NoType, TokenEnd
<1>9. PICK t : t = NewToken(y.last_match_pos, y.start_pos, TokenUncaughtString)
  OBVIOUS
<1>10. /\ tok' = t /\ t.start_pos = y.last_match_pos /\ t.end_pos = y.start_pos
       /\ t.type = TokenUncaughtString /\ Current(t)
  BY <1>1, <1>2, <1>3, <1>4, <1>8, <1>9, MainStart, NewTokenCurrent
<1>11. Offset(y.last_match_pos) < Offset(y.start_pos)
  BY <1>3, <1>4, <1>5, MainStart
<1>12. LexerInv'
  <2>1. /\ buf'.pos = b.pos /\ buf'.finished = buf.finished /\ read_off' = read_off
    BY <1>1, <1>2, <1>4 DEF SameBytes, ScanFrame
  <2>2. RestInv'
    BY <1>1, <1>5, <1>6, <1>7, <1>8, <2>1 DEF RestInv, Offset
  <2>3. QED
    BY <1>1, <1>6, <2>2 DEF LexerInv, MainInv, SkipInv
<1>13. TokenInv'
  <2>1. Pending' = y.start_pos
    BY <1>1, <1>6 DEF Pending
  <2>2. Current(tok)'
    BY <1>1, <1>2, <1>4, <1>10 DEF Current, ScanFrame, SameBytes
  <2>3. QED
    BY <1>7, <1>8, <1>10, <1>11, <2>1, <2>2 DEF TokenInv, Offset
<1>14. Seam' = Seam
  BY <1>1, <1>3, <1>4, <1>10, MainStart DEF Seam
<1>15. QED
  BY <1>1, <1>2, <1>3, <1>4, <1>12, <1>13, <1>14, MainStart, ScanKeepsText

\* The end of the log is announced behind the last match.
LEMMA ScanEndText ==
  ASSUME Sound, ScanEnd
  PROVE  TextInv'
<1> USE DEF input_vars, parse_vars, history, Return
<1>1. PICK c \in NextChars :
        /\ MainLoop(c) /\ ~Seen(c).match /\ AtEnd(Seen(c))
        /\ Seen(c).last_match_pos = Seen(c).start_pos
        /\ lex' = Seen(c)
        /\ buf' = taken(buf)
        /\ tok' = NewToken(taken(buf).pos, taken(buf).pos, TokenEnd)
        /\ pc' = "token" /\ ScanFrame
  BY DEF ScanEnd, Stuck, ScanFrame
<1>2. PICK y, b : y = Seen(c) /\ b = taken(buf)
  OBVIOUS
<1>3. pc = "main"
  BY <1>1 DEF MainLoop
<1>4. /\ y \in Lexers /\ ~y.asked
      /\ y.start_pos = lex.start_pos /\ y.last_match_pos = lex.last_match_pos
      /\ y.first_delim # Unset =>
           /\ y.first_delim \in 0 .. buf.size - 1
           /\ Offset(y.last_match_pos) < Offset(y.first_delim)
           /\ Offset(y.first_delim) < Offset(b.pos)
      /\ SameBytes(buf, b)
      /\ b.fully_consumed <=> at_end_of_log(buf)
      /\ b.fully_consumed => at_end_of_log(b)
      /\ at_end_of_log(buf) =>
           /\ b.pos = buf.pos
           /\ buf.finished /\ Offset(buf.pos) = read_off
  BY <1>1, <1>2, MainFacts
<1>5. /\ b.pos = y.start_pos /\ b.pos = buf.pos
      /\ Offset(b.pos) = read_off /\ buf.finished
      /\ y.last_match_pos = y.start_pos
  BY <1>1, <1>2, <1>4 DEF AtEnd
<1>6. y.first_delim = Unset
  BY <1>3, <1>4, <1>5, MainStart
<1>7. \A p : OffsetOf(buf', read_off', p) = OffsetOf(buf, read_off, p)
  BY <1>1, <1>2, <1>4, SameOffsets DEF ScanFrame
<1>8. TokenEnd \in Types /\ TokenEnd # NoType
  BY DEF Types, NoType, TokenEnd
<1>9. PICK t : t = NewToken(b.pos, b.pos, TokenEnd)
  OBVIOUS
<1>10. /\ tok' = t /\ t.start_pos = b.pos /\ t.end_pos = b.pos
       /\ t.type = TokenEnd /\ Current(t)
  BY <1>1, <1>2, <1>3, <1>5, <1>8, <1>9, MainStart, NewTokenCurrent
<1>11. LexerInv'
  <2>1. buf'.pos = b.pos /\ lex' = y
    BY <1>1, <1>2
  <2>2. RestInv'
    BY <1>1, <1>2, <1>5, <1>6, <2>1 DEF RestInv
  <2>3. QED
    BY <1>1, <1>4, <2>1, <2>2 DEF LexerInv, MainInv, SkipInv
<1>12. TokenInv'
  <2>1. Pending' = b.pos
    BY <1>1, <1>2, <1>4, <1>5 DEF Pending
  <2>2. Current(tok)'
    BY <1>1, <1>2, <1>4, <1>10 DEF Current, ScanFrame, SameBytes
  <2>3. buf'.finished /\ read_off' = read_off
    BY <1>1, <1>2, <1>4, <1>5 DEF SameBytes, ScanFrame
  <2>4. QED
    BY <1>5, <1>7, <1>10, <2>1, <2>2, <2>3 DEF TokenInv, Offset
<1>13. Seam' = Seam
  BY <1>1, <1>3, <1>4, <1>5, <1>10, MainStart DEF Seam
<1>14. QED
  BY <1>1, <1>2, <1>3, <1>4, <1>11, <1>12, <1>13, MainStart, ScanKeepsText

\* The text before the first delimiter belongs to no rule.
LEMMA ScanUncaughtText ==
  ASSUME Sound, ScanUncaught
  PROVE  TextInv'
<1> USE DEF input_vars, parse_vars, history, Return
<1>1. PICK c \in NextChars :
        /\ MainLoop(c) /\ ~Seen(c).match /\ Seen(c).first_delim # Unset
        /\ lex' = [Seen(c) EXCEPT !.last_match_pos = Seen(c).first_delim]
        /\ buf' = taken(buf)
        /\ tok' = NewToken(Seen(c).last_match_pos, Seen(c).first_delim,
                           TokenUncaughtString)
        /\ pc' = "token" /\ ScanFrame
  BY DEF ScanUncaught, Stuck, ScanFrame
<1>2. PICK y, b : y = Seen(c) /\ b = taken(buf)
  OBVIOUS
<1>3. pc = "main"
  BY <1>1 DEF MainLoop
<1>4. /\ y \in Lexers /\ ~y.asked /\ ~y.match /\ y.first_delim # Unset
      /\ y.start_pos = lex.start_pos /\ y.last_match_pos = lex.last_match_pos
      /\ y.first_delim \in 0 .. buf.size - 1
      /\ Offset(y.last_match_pos) < Offset(y.first_delim)
      /\ SameBytes(buf, b)
      /\ b.fully_consumed => at_end_of_log(b)
  BY <1>1, <1>2, MainFacts
<1>5. /\ ~lex'.asked /\ ~lex'.match
      /\ lex'.last_match_pos = y.first_delim
      /\ lex'.first_delim = y.first_delim
  BY <1>1, <1>2, <1>4 DEF Lexers
<1>6. \A p : OffsetOf(buf', read_off', p) = OffsetOf(buf, read_off, p)
  BY <1>1, <1>2, <1>4, SameOffsets DEF ScanFrame
<1>7. TokenUncaughtString \in Types /\ TokenUncaughtString # NoType
      /\ TokenUncaughtString # TokenEnd
  BY DEF Types, TokenUncaughtString, NoType, TokenEnd
<1>8. PICK t : t = NewToken(y.last_match_pos, y.first_delim, TokenUncaughtString)
  OBVIOUS
<1>9. /\ tok' = t /\ t.start_pos = y.last_match_pos /\ t.end_pos = y.first_delim
      /\ t.type = TokenUncaughtString /\ Current(t)
  BY <1>1, <1>2, <1>3, <1>4, <1>7, <1>8, MainStart, NewTokenCurrent
<1>10. LexerInv'
  BY <1>1, <1>4, <1>5 DEF LexerInv, RestInv, MainInv, SkipInv
<1>11. TokenInv'
  <2>1. Pending' = y.first_delim
    BY <1>1, <1>5 DEF Pending
  <2>2. Current(tok)'
    BY <1>1, <1>2, <1>4, <1>9 DEF Current, ScanFrame, SameBytes
  <2>3. QED
    BY <1>4, <1>6, <1>7, <1>9, <2>1, <2>2 DEF TokenInv, Offset
<1>12. Seam' = Seam
  BY <1>1, <1>3, <1>4, <1>9, MainStart DEF Seam
<1>13. QED
  BY <1>1, <1>2, <1>3, <1>4, <1>10, <1>11, <1>12, MainStart, ScanKeepsText

\* Nothing to go back to: scan looks for the next delimiter.
LEMMA ScanSkipText ==
  ASSUME Sound, ScanSkip
  PROVE  TextInv'
<1> USE DEF input_vars, parse_vars, history
<1>1. PICK c \in NextChars :
        /\ MainLoop(c) /\ ~Seen(c).match /\ Seen(c).first_delim = Unset
        /\ lex' = [Seen(c) EXCEPT !.state = Root]
        /\ buf' = taken(buf)
        /\ skip' = [prev |-> buf.pos, c |-> c]
        /\ pc' = "skip" /\ ScanFrame
  BY DEF ScanSkip, Stuck, ScanFrame
<1>2. PICK y, b : y = Seen(c) /\ b = taken(buf)
  OBVIOUS
<1>3. pc = "main"
  BY <1>1 DEF MainLoop
<1>4. /\ y \in Lexers /\ ~y.asked /\ ~y.match /\ y.first_delim = Unset
      /\ y.start_pos = lex.start_pos /\ y.last_match_pos = lex.last_match_pos
      /\ Offset(y.last_match_pos) <= Offset(y.start_pos)
      /\ Offset(y.start_pos) <= Offset(buf.pos)
      /\ SameBytes(buf, b)
      /\ b.fully_consumed <=> at_end_of_log(buf)
      /\ b.fully_consumed => at_end_of_log(b)
      /\ IF at_end_of_log(buf) THEN b.pos = buf.pos
         ELSE Offset(b.pos) = Offset(buf.pos) + 1
  BY <1>1, <1>2, MainFacts
<1>5. /\ ~lex'.asked /\ ~lex'.match /\ lex'.first_delim = Unset /\ lex'.state = Root
      /\ lex'.start_pos = y.start_pos
      /\ lex'.last_match_pos = y.last_match_pos
  BY <1>1, <1>2, <1>4 DEF Lexers
<1>6. \A p : OffsetOf(buf', read_off', p) = OffsetOf(buf, read_off, p)
  BY <1>1, <1>2, <1>4, SameOffsets DEF ScanFrame
<1>7. LexerInv'
  <2>1. ~at_end_of_log(buf) => Offset(buf.pos) < Offset(b.pos)
    BY <1>3, <1>4, MainStart
  <2>2. SkipInv'
    BY <1>1, <1>2, <1>4, <1>5, <1>6, <2>1 DEF SkipInv, Offset
  <2>3. QED
    BY <1>1, <1>5, <2>2 DEF LexerInv, RestInv, MainInv
<1>8. Seam' = Seam
  BY <1>1, <1>3, <1>4, <1>5, MainStart DEF Seam, Pending, ScanFrame
<1>9. QED
  BY <1>1, <1>2, <1>3, <1>4, <1>7, <1>8, MainStart, ScanKeepsText DEF TokenInv, Scanning

\* What a step of the skip loop starts from.
LEMMA SkipStart ==
  ASSUME Sound, pc = "skip"
  PROVE  /\ pc \in Scanning /\ start_of_log = NoToken
         /\ Seam = lex.last_match_pos /\ ~lex.asked
         /\ ~lex.match /\ lex.first_delim = Unset /\ lex.state = Root
         /\ lex.start_pos \in 0 .. buf.size - 1
         /\ lex.last_match_pos \in 0 .. buf.size - 1
         /\ skip.prev \in 0 .. buf.size - 1
         /\ buf.pos \in 0 .. buf.size - 1
         /\ \A p \in 0 .. buf.size - 1 : Offset(p) \in Int /\ Offset(p) <= read_off
         /\ Needed = Offset(lex.last_match_pos) /\ Needed \in Int
         /\ Offset(lex.last_match_pos) <= Offset(lex.start_pos)
         /\ Offset(lex.start_pos) <= Offset(skip.prev)
         /\ Offset(skip.prev) <= Offset(buf.pos)
         /\ Needed <= Offset(skip.prev) /\ Needed <= Offset(buf.pos)
         /\ IF buf.fully_consumed THEN skip.prev = buf.pos
            ELSE Offset(skip.prev) < Offset(buf.pos)
<1>1. pc \in Scanning
  BY DEF Scanning
<1>2. skip.prev \in 0 .. buf.size - 1
  BY DEF Sound, TypeInv
<1>3. /\ start_of_log = NoToken /\ Seam = Pending /\ Needed = NextFrom
      /\ NextFrom = Offset(Seam) /\ SkipInv /\ ~lex.asked
  BY <1>1, SoundFacts, ScanFacts
<1>4. Seam = lex.last_match_pos
  BY <1>3 DEF Pending
<1>5. IF buf.fully_consumed THEN skip.prev = buf.pos
      ELSE Offset(skip.prev) < Offset(buf.pos)
  BY <1>3 DEF SkipInv
<1>6. Offset(skip.prev) \in Int /\ Offset(buf.pos) \in Int
  BY <1>2, SoundFacts
<1>7. Offset(skip.prev) <= Offset(buf.pos)
  <2>1. CASE buf.fully_consumed
    BY <1>5, <1>6, <2>1
  <2>2. CASE ~buf.fully_consumed
    BY <1>5, <1>6, <2>2
  <2>3. QED
    BY <2>1, <2>2
<1>8. /\ Needed = Offset(lex.last_match_pos) /\ Needed \in Int
      /\ Offset(lex.start_pos) \in Int
      /\ Offset(lex.last_match_pos) <= Offset(lex.start_pos)
      /\ Offset(lex.start_pos) <= Offset(skip.prev)
  BY <1>3, <1>4, SoundFacts DEF SkipInv
<1>9. Needed <= Offset(skip.prev) /\ Needed <= Offset(buf.pos)
  BY <1>6, <1>7, <1>8
<1>10. QED
  BY <1>1, <1>2, <1>3, <1>4, <1>5, <1>7, <1>8, <1>9, SoundFacts DEF SkipInv

LEMMA SkipCharacterText ==
  ASSUME Sound, SkipCharacter
  PROVE  TextInv'
<1> USE DEF input_vars, parse_vars, history
<1>1. /\ pc = "skip" /\ ~buf.fully_consumed /\ ~out_of_bounds(buf)
      /\ \E c \in NextChars : skip' = [prev |-> buf.pos, c |-> c]
      /\ buf' = taken(buf)
      /\ lex' = lex /\ pc' = pc /\ ScanFrame
  BY DEF SkipCharacter, SkipFound, ScanFrame
<1>2. skip'.prev = buf.pos
  BY <1>1
<1>3. PICK b : b = taken(buf)
  OBVIOUS
<1>4. /\ SameBytes(buf, b)
      /\ b.pos \in 0 .. buf.size - 1
      /\ b.fully_consumed <=> at_end_of_log(buf)
      /\ b.fully_consumed => at_end_of_log(b)
      /\ IF at_end_of_log(buf) THEN b.pos = buf.pos
         ELSE Offset(b.pos) = Offset(buf.pos) + 1
  <2>1. Needed \in Int /\ Needed <= OffsetOf(buf, read_off, buf.pos)
    BY <1>1, SkipStart DEF Offset
  <2>2. QED
    BY <1>1, <1>3, <2>1, SoundFacts, TakenSame DEF Offset
<1>5. \A p : OffsetOf(buf', read_off', p) = OffsetOf(buf, read_off, p)
  BY <1>1, <1>3, <1>4, SameOffsets DEF ScanFrame
<1>6. LexerInv'
  <2>1. /\ ~at_end_of_log(buf) => Offset(buf.pos) < Offset(b.pos)
        /\ Offset(lex.start_pos) <= Offset(buf.pos)
    BY <1>1, <1>4, SkipStart
  <2>2. SkipInv'
    BY <1>1, <1>2, <1>3, <1>4, <1>5, <2>1, SkipStart DEF SkipInv, Offset
  <2>3. QED
    BY <1>1, <2>2, SkipStart DEF LexerInv, RestInv, MainInv
<1>7. Seam' = Seam
  BY <1>1, SkipStart DEF Seam, Pending, ScanFrame
<1>8. QED
  BY <1>1, <1>3, <1>4, <1>6, <1>7, SkipStart, ScanKeepsText DEF TokenInv, Scanning

\* The next rule may begin at the delimiter.
LEMMA SkipEndText ==
  ASSUME Sound, SkipEnd
  PROVE  TextInv'
<1> USE DEF input_vars, parse_vars, history
<1>1. /\ pc = "skip"
      /\ buf' = set_pos(buf, skip.prev)
      /\ lex' = [lex EXCEPT !.start_pos = skip.prev]
      /\ pc' = "main" /\ ScanFrame
  BY DEF SkipEnd, ScanFrame
<1>2. /\ SameBytes(buf, buf')
      /\ buf'.pos = skip.prev /\ buf'.fully_consumed = buf.fully_consumed
  BY <1>1, SoundFacts, MovedSame
<1>3. \A p : OffsetOf(buf', read_off', p) = OffsetOf(buf, read_off, p)
  BY <1>1, <1>2, SameOffsets DEF ScanFrame
<1>4. /\ ~lex'.asked /\ ~lex'.match /\ lex'.first_delim = Unset /\ lex'.state = Root
      /\ lex'.start_pos = skip.prev
      /\ lex'.last_match_pos = lex.last_match_pos
  BY <1>1, SkipStart, SoundFacts DEF Lexers
<1>5. buf'.fully_consumed => at_end_of_log(buf')
  BY <1>1, <1>2, SkipStart, SoundFacts DEF at_end_of_log, SameBytes
<1>6. ~out_of_bounds(buf')
  <2>1. CASE buf.fully_consumed
    BY <1>2, <1>5, <2>1 DEF out_of_bounds
  <2>2. CASE ~buf.fully_consumed
    <3>1. PICK b : b = buf'
      OBVIOUS
    <3>2. Offset(skip.prev) < read_off /\ Needed <= Offset(skip.prev)
      <4>1. /\ Offset(skip.prev) \in Int /\ Offset(buf.pos) \in Int
            /\ Offset(buf.pos) <= read_off
            /\ Offset(skip.prev) < Offset(buf.pos)
            /\ Needed <= Offset(skip.prev)
        BY <1>1, <2>2, SkipStart
      <4>2. read_off \in Nat
        BY SoundFacts
      <4>3. QED
        BY <4>1, <4>2
    <3>3. RingOf(b, read_off) /\ KeepsFrom(b, read_off, Needed)
      BY <1>2, <3>1, SoundFacts, SameRing
    <3>4. /\ b.pos \in 0 .. b.size - 1
          /\ OffsetOf(b, read_off, b.pos) = Offset(skip.prev)
      BY <1>1, <1>2, <1>3, <3>1, SkipStart DEF SameBytes, Offset, ScanFrame
    <3>5. out_of_bounds(b) => OffsetOf(b, read_off, b.pos) = read_off
      BY <3>2, <3>3, <3>4, SoundFacts, PositionEnds
    <3>6. QED
      BY <1>1, <3>1, <3>2, <3>4, <3>5, SkipStart, SoundFacts
  <2>3. QED
    BY <2>1, <2>2
<1>7. LexerInv'
  <2>1. ~is_accepting(Root)
    BY RulesAssumption DEF is_accepting
  <2>2. /\ Offset(lex.last_match_pos) <= Offset(skip.prev)
        /\ Offset(skip.prev) <= Offset(skip.prev)
    BY <1>1, SkipStart
  <2>3. MainInv'
    BY <1>1, <1>2, <1>3, <1>4, <1>6, <2>1, <2>2 DEF MainInv, Offset
  <2>4. QED
    BY <1>1, <1>4, <2>3 DEF LexerInv, RestInv, SkipInv
<1>8. Seam' = Seam
  BY <1>1, <1>4, SkipStart DEF Seam, Pending, ScanFrame
<1>9. QED
  BY <1>1, <1>2, <1>5, <1>7, <1>8, SkipStart, ScanKeepsText DEF TokenInv, Scanning

\* Each step of scan.
LEMMA ScanText ==
  ASSUME Sound, Scan
  PROVE  TextInv'
BY ScanResumeText, ScanPreparedText, ScanFreshText, ScanOutOfBoundsText,
   ScanNewlineText, ScanContinueText, ScanMatchText, ScanLastTextText, ScanEndText,
   ScanUncaughtText, ScanSkipText, SkipCharacterText, SkipEndText DEF Scan

-----------------------------------------------------------------------------
(***************************************************************************)
(* The view.                                                               *)
(***************************************************************************)
Views ==
  [ has_header : BOOLEAN, started : BOOLEAN, slot0 : Tokens \cup {NoToken},
    rest : Seq(Tokens) ]

\* Tokens that follow each other in the log, from offset f on.
Chain(old, b, tokens, f) ==
  \A k \in 1 .. Len(tokens) :
    Spells(old, b, tokens[k], IF k = 1 THEN f ELSE EndIn(old, b, tokens[k - 1]))

\* Appending behind a first element.
LEMMA AppendBehind ==
  ASSUME NEW T, NEW a \in T, NEW r \in Seq(T), NEW t \in T
  PROVE  <<a>> \o Append(r, t) = Append(<<a>> \o r, t)
OBVIOUS

\* A token in the header's slot comes first.
LEMMA HeaderFirst ==
  ASSUME NEW T, NEW a \in T, NEW r \in Seq(T)
  PROVE  /\ <<a>> \o r \in Seq(T)
         /\ <<a>> \o << >> = <<a>>
OBVIOUS

\* What a view consists of.
LEMMA ViewRecord ==
  ASSUME NEW h \in BOOLEAN, NEW f \in Tokens \cup {NoToken},
         NEW r \in Seq(Tokens), NEW v,
         v = [has_header |-> h, started |-> TRUE, slot0 |-> f, rest |-> r]
  PROVE  v \in Views
BY Zenon DEF Views

\* The first token of an event.
LEMMA BeginView ==
  ASSUME out \in Views, NEW t \in Tokens,
         out' = IF t.type = TokenHeader THEN set_header(out, t) ELSE set_first(out, t)
  PROVE  /\ out' \in Views
         /\ out'.started
         /\ out'.has_header => out'.slot0 \in Tokens
         /\ EventTokens' = <<t>>
<1>1. /\ out = [ has_header |-> out.has_header, started |-> out.started,
                 slot0 |-> out.slot0, rest |-> out.rest ]
      /\ out.slot0 \in Tokens \cup {NoToken}
  BY DEF Views
<1>2. PICK none \in Seq(Tokens) : none = << >>
  <2>1. << >> \in Seq(Tokens)
    OBVIOUS
  <2>2. QED
    BY <2>1
<1>3. PICK one \in Seq(Tokens) : one = <<t>>
  <2>1. <<t>> \in Seq(Tokens)
    OBVIOUS
  <2>2. QED
    BY <2>1
<1>4. CASE t.type = TokenHeader
  <2>1. out' = [has_header |-> TRUE, started |-> TRUE, slot0 |-> t, rest |-> none]
    BY <1>1, <1>2, <1>4 DEF set_header
  <2>2. out' \in Views
    BY <1>2, <2>1, ViewRecord, Zenon
  <2>3. /\ out'.started
        /\ out'.has_header
        /\ out'.slot0 = t
        /\ out'.rest = << >>
    BY <1>2, <2>1
  <2>4. <<t>> \o << >> = <<t>>
    BY <1>2, HeaderFirst
  <2>5. EventTokens' = <<t>>
    BY <2>3, <2>4 DEF EventTokens
  <2>6. QED
    BY <1>4, <2>2, <2>3, <2>5
<1>5. CASE t.type # TokenHeader
  <2>1. out' = [has_header |-> FALSE, started |-> TRUE, slot0 |-> out.slot0, rest |-> one]
    BY <1>1, <1>3, <1>5 DEF set_first
  <2>2. out' \in Views
    BY <1>1, <1>3, <2>1, ViewRecord, Zenon
  <2>3. /\ out'.started
        /\ ~out'.has_header
        /\ out'.rest = <<t>>
    BY <1>3, <2>1
  <2>4. QED
    BY <2>2, <2>3 DEF EventTokens
<1>6. QED
  BY <1>4, <1>5

\* Another token.
LEMMA AddView ==
  ASSUME out \in Views, NEW t \in Tokens,
         out.has_header => out.slot0 \in Tokens,
         out' = add_token(out, t)
  PROVE  /\ out' \in Views
         /\ out'.started = out.started
         /\ out'.has_header = out.has_header
         /\ out'.slot0 = out.slot0
         /\ EventTokens \in Seq(Tokens)
         /\ EventTokens' = Append(EventTokens, t)
<1>1. out' = [out EXCEPT !.rest = Append(out.rest, t)]
  BY DEF add_token
<1>2. out.rest \in Seq(Tokens)
  BY DEF Views
<1>3. Append(out.rest, t) \in Seq(Tokens)
  BY <1>2
<1>4. /\ out' \in Views
      /\ out'.started = out.started
      /\ out'.has_header = out.has_header
      /\ out'.slot0 = out.slot0
      /\ out'.rest = Append(out.rest, t)
  BY <1>1, <1>3 DEF Views
<1>5. CASE out.has_header
  BY <1>2, <1>4, <1>5, AppendBehind, HeaderFirst DEF EventTokens
<1>6. CASE ~out.has_header
  BY <1>2, <1>4, <1>6 DEF EventTokens
<1>7. QED
  BY <1>4, <1>5, <1>6

\* A chain of one token, and one more token at the end of a chain.
LEMMA ChainOne ==
  ASSUME NEW old, NEW b, NEW f, NEW t, Spells(old, b, t, f)
  PROVE  /\ Chain(old, b, <<t>>, f)
         /\ NextIn(old, b, <<t>>, f) = EndIn(old, b, t)
<1>1. PICK s : s = <<t>>
  OBVIOUS
<1>2. Len(s) = 1 /\ s[1] = t /\ s # << >>
  BY <1>1
<1>3. QED
  BY <1>1, <1>2 DEF Chain, NextIn

LEMMA ChainAppend ==
  ASSUME NEW old, NEW b, NEW f, NEW s \in Seq(Tokens), NEW t \in Tokens,
         Chain(old, b, s, f), s # << >>,
         Spells(old, b, t, NextIn(old, b, s, f))
  PROVE  /\ Chain(old, b, Append(s, t), f)
         /\ NextIn(old, b, Append(s, t), f) = EndIn(old, b, t)
<1>1. PICK m \in Nat : m = Len(s) /\ m >= 1
  OBVIOUS
<1>2. PICK u : u = Append(s, t)
  OBVIOUS
<1>3. /\ Len(u) = m + 1 /\ u[m + 1] = t /\ u # << >>
      /\ \A k \in 1 .. m : u[k] = s[k]
  BY <1>1, <1>2
<1>4. NextIn(old, b, s, f) = EndIn(old, b, u[m])
  BY <1>1, <1>3 DEF NextIn
<1>5. ASSUME NEW k \in 1 .. Len(u)
      PROVE  Spells(old, b, u[k], IF k = 1 THEN f ELSE EndIn(old, b, u[k - 1]))
  <2>1. CASE k = m + 1
    <3>1. k # 1 /\ k - 1 = m
      BY <1>1, <2>1
    <3>2. QED
      BY <1>3, <1>4, <2>1, <3>1
  <2>2. CASE k # m + 1
    <3>1. k \in 1 .. m /\ k \in 1 .. Len(s)
      BY <1>1, <1>3, <2>2
    <3>2. k # 1 => k - 1 \in 1 .. m
      BY <1>1, <3>1
    <3>3. Spells(old, b, s[k], IF k = 1 THEN f ELSE EndIn(old, b, s[k - 1]))
      BY <3>1 DEF Chain
    <3>4. QED
      BY <1>3, <3>1, <3>2, <3>3
  <2>3. QED
    BY <2>1, <2>2
<1>6. NextIn(old, b, u, f) = EndIn(old, b, t)
  BY <1>3 DEF NextIn
<1>7. QED
  BY <1>2, <1>5, <1>6 DEF Chain

\* A token in the active storage whose bytes are kept, and the one before its end
\* as well, is the text between the offsets of its positions.
LEMMA CurrentSpells ==
  ASSUME Sound, NEW t, Current(t),
         Needed <= Offset(t.start_pos), Offset(t.start_pos) <= Offset(t.end_pos),
         Needed < Offset(t.end_pos)
  PROVE  /\ Spells(retired, buf, t, Offset(t.start_pos))
         /\ EndIn(retired, buf, t) = Offset(t.end_pos)
<1>1. /\ read_off \in Nat /\ RingOf(buf, read_off) /\ buf.size \in Nat
      /\ Needed \in Int /\ Needed >= -1 /\ KeepsFrom(buf, read_off, Needed)
  BY SoundFacts
<1>2. /\ t \in Tokens
      /\ t.start_pos \in 0 .. buf.size - 1 /\ t.end_pos \in 0 .. buf.size - 1
      /\ t.buffer = Len(retired) + 1 /\ t.buffer_size = buf.size
  BY <1>1 DEF Current, Tokens
<1>3. PICK i0, j0 : i0 = Offset(t.start_pos) /\ j0 = Offset(t.end_pos)
  OBVIOUS
<1>4. /\ i0 \in Int /\ j0 \in Int /\ i0 <= j0 /\ j0 <= read_off
      /\ Needed <= i0 /\ Needed < j0
  BY <1>2, <1>3, SoundFacts
<1>5. Len(retired) \in Nat
  BY DEF Sound, TextInv
<1>6. \A p \in 0 .. buf.size - 1 : ByteIn(retired, buf, t, p) = buf.storage[p]
  BY <1>1, <1>2, <1>5 DEF ByteIn
<1>7. \A p \in 0 .. buf.size - 1 :
        Needed <= Offset(p) /\ Offset(p) < read_off => buf.storage[p] = Offset(p)
  BY <1>1 DEF KeepsFrom, Offset
<1>8. TokenLength(t) = j0 - i0
  <2>1. PICK p \in 0 .. buf.size - 1, q \in 0 .. buf.size - 1 :
          p = t.start_pos /\ q = t.end_pos
    BY <1>2
  <2>2. /\ OffsetOf(buf, read_off, p) = i0 /\ OffsetOf(buf, read_off, q) = j0
        /\ OffsetOf(buf, read_off, p) <= OffsetOf(buf, read_off, q)
    BY <1>3, <1>4, <2>1 DEF Offset
  <2>3. j0 - i0 = IF p <= q THEN q - p ELSE (buf.size - p) + q
    BY <1>1, <2>2, OffsetLength
  <2>4. QED
    BY <1>1, <1>2, <2>1, <2>3 DEF TokenLength
<1>9. ASSUME NEW i \in 0 .. TokenLength(t) - 1
      PROVE  ByteIn(retired, buf, t, IF t.start_pos + i < t.buffer_size
                                     THEN t.start_pos + i
                                     ELSE t.start_pos + i - t.buffer_size) = i0 + i
  <2>1. i \in Nat /\ i0 + i < read_off /\ Needed <= i0 + i
    BY <1>1, <1>4, <1>8
  <2>2. PICK p : p = IF t.start_pos + i < buf.size THEN t.start_pos + i
                     ELSE (t.start_pos + i) - buf.size
    OBVIOUS
  <2>3. p \in 0 .. buf.size - 1 /\ Offset(p) = i0 + i
    <3>1. PICK s \in 0 .. buf.size - 1 : s = t.start_pos
      BY <1>2
    <3>2. OffsetOf(buf, read_off, s) = i0
      BY <1>3, <3>1 DEF Offset
    <3>3. OffsetOf(buf, read_off, s) + i < read_off
      BY <2>1, <3>2
    <3>4. p = IF s + i < buf.size THEN s + i ELSE (s + i) - buf.size
      BY <2>2, <3>1
    <3>5. p \in 0 .. buf.size - 1 /\ OffsetOf(buf, read_off, p) = i0 + i
      BY <1>1, <2>1, <3>2, <3>3, <3>4, OffsetWithin
    <3>6. QED
      BY <3>5 DEF Offset
  <2>4. ByteIn(retired, buf, t, p) = i0 + i
    BY <1>6, <1>7, <2>1, <2>3
  <2>5. p = IF t.start_pos + i < t.buffer_size THEN t.start_pos + i
            ELSE t.start_pos + i - t.buffer_size
    BY <1>1, <1>2, <2>1, <2>2
  <2>6. QED
    BY <2>4, <2>5
<1>10. EndIn(retired, buf, t) = j0
  <2>1. PICK q : q = IF t.end_pos = 0 THEN buf.size - 1 ELSE t.end_pos - 1
    OBVIOUS
  <2>2. read_off - buf.size < j0 - 1
    <3>1. read_off - buf.size < Needed
      BY <1>1, KeptRange
    <3>2. QED
      BY <1>1, <1>4, <3>1
  <2>3. q \in 0 .. buf.size - 1 /\ Offset(q) = j0 - 1
    BY <1>1, <1>2, <1>3, <2>1, <2>2, OffsetBefore DEF Offset
  <2>4. Needed <= j0 - 1 /\ j0 - 1 < read_off
    BY <1>1, <1>4
  <2>5. ByteIn(retired, buf, t, q) = j0 - 1
    BY <1>6, <1>7, <2>3, <2>4
  <2>6. q = IF t.end_pos = 0 THEN t.buffer_size - 1 ELSE t.end_pos - 1
    BY <1>2, <2>1
  <2>7. QED
    BY <1>4, <2>5, <2>6 DEF EndIn
<1>11. /\ t.start_pos < t.buffer_size /\ t.end_pos < t.buffer_size
       /\ 0 < t.buffer /\ t.buffer <= Len(retired) + 1
       /\ t.buffer = Len(retired) + 1 => t.buffer_size = buf.size
  BY <1>1, <1>2, <1>5
<1>12. EndIn(retired, buf, t) = i0 + TokenLength(t)
  BY <1>4, <1>8, <1>10
<1>13. Spells(retired, buf, t, i0)
  BY <1>2, <1>9, <1>11, <1>12 DEF Spells
<1>14. QED
  BY <1>3, <1>10, <1>13

-----------------------------------------------------------------------------
(***************************************************************************)
(* LogParser::parse: what its steps have in common, and one lemma per step.*)
(***************************************************************************)

\* What a step of parse leaves alone.
ParseFrame == UNCHANGED <<log, read_off, retired, lex, skip, from, intact>>

\* Fewer bytes are needed and some are declared consumed.
LEMMA KeepsMore ==
  ASSUME NEW b, NEW n \in Nat, RingOf(b, n), NEW a \in Int, KeepsFrom(b, n, a),
         NEW d \in Int, a <= d,
         NEW c, c = b \/ \E p \in 0 .. b.size - 1 :
                           c = set_consumed_pos(b, p) /\ OffsetOf(b, n, p) <= d,
         IsBuffer(b)
  PROVE  /\ IsBuffer(c) /\ RingOf(c, n) /\ KeepsFrom(c, n, d)
         /\ \A p : OffsetOf(c, n, p) = OffsetOf(b, n, p)
         /\ c.size = b.size /\ c.storage = b.storage /\ c.pos = b.pos
         /\ c.finished = b.finished /\ c.fully_consumed = b.fully_consumed
         /\ c.last_read = b.last_read
<1>1. /\ IsBuffer(c)
      /\ c.size = b.size /\ c.storage = b.storage /\ c.pos = b.pos
      /\ c.last_read = b.last_read /\ c.first_half = b.first_half
      /\ c.finished = b.finished /\ c.fully_consumed = b.fully_consumed
      /\ c.consumed_pos \in 0 .. b.size
      /\ \/ c.consumed_pos = b.consumed_pos
         \/ /\ c.consumed_pos \in 0 .. b.size - 1
            /\ OffsetOf(b, n, c.consumed_pos) <= d
  <2>1. CASE c = b
    BY <2>1 DEF RingOf
  <2>2. CASE \E p \in 0 .. b.size - 1 :
               c = set_consumed_pos(b, p) /\ OffsetOf(b, n, p) <= d
    <3>1. PICK p \in 0 .. b.size - 1 :
                 c = set_consumed_pos(b, p) /\ OffsetOf(b, n, p) <= d
      BY <2>2
    <3>2. p \in 0 .. b.size
      BY RingFacts
    <3>3. QED
      BY <3>1, <3>2 DEF set_consumed_pos, IsBuffer
  <2>3. QED
    BY <2>1, <2>2
<1>2. Half(c) = Half(b)
  BY <1>1 DEF Half
<1>3. \A p : OffsetOf(c, n, p) = OffsetOf(b, n, p)
  BY <1>1, OffsetSame
<1>4. RingOf(c, n)
  BY <1>1, <1>2 DEF RingOf, TwoHalves
<1>5. Half(b) \in Nat /\ b.size \in Nat /\ b.last_read \in Nat
  BY RingFacts
<1>6. ASSUME read_is_safe(c)
      PROVE  d > n - Half(b)
  <2>1. CASE c.consumed_pos = b.consumed_pos
    <3>1. read_is_safe(b)
      BY <1>1, <1>2, <1>6, <2>1 DEF read_is_safe
    <3>2. a > n - Half(b)
      BY <3>1 DEF KeepsFrom
    <3>3. QED
      BY <1>5, <3>2
  <2>2. CASE /\ c.consumed_pos \in 0 .. b.size - 1
             /\ OffsetOf(b, n, c.consumed_pos) <= d
    <3>1. PICK p \in 0 .. b.size - 1 : p = c.consumed_pos
      BY <2>2
    <3>2. /\ ~b.finished
          /\ \/ ~b.first_half /\ p > Half(b)
             \/ b.first_half /\ p < Half(b) /\ p > 0
      BY <1>1, <1>2, <1>6, <3>1 DEF read_is_safe
    <3>3. OffsetOf(b, n, p) > n - Half(b) /\ OffsetOf(b, n, p) \in Int
      BY <3>2, ConsumedSafe, OffsetRange
    <3>4. QED
      BY <1>5, <2>2, <3>1, <3>3
  <2>3. QED
    BY <1>1, <2>1, <2>2
<1>7. KeepsFrom(c, n, d)
  <2>1. /\ b.first_half => a > (n - b.last_read) - Half(b)
        /\ ~b.first_half /\ b.last_read # 0 => a > n - b.last_read
        /\ \A i \in 0 .. b.size - 1 :
             a <= OffsetOf(b, n, i) /\ OffsetOf(b, n, i) < n
               => b.storage[i] = OffsetOf(b, n, i)
    BY DEF KeepsFrom
  <2>2. c.first_half => d > (n - c.last_read) - Half(c)
    BY <1>1, <1>2, <1>5, <2>1
  <2>3. ~c.first_half /\ c.last_read # 0 => d > n - c.last_read
    BY <1>1, <1>5, <2>1
  <2>4. ASSUME NEW i \in 0 .. c.size - 1,
               d <= OffsetOf(c, n, i), OffsetOf(c, n, i) < n
        PROVE  c.storage[i] = OffsetOf(c, n, i)
    <3>1. i \in 0 .. b.size - 1 /\ OffsetOf(c, n, i) = OffsetOf(b, n, i)
      BY <1>1, <1>3
    <3>2. OffsetOf(b, n, i) \in Int
      BY <3>1, OffsetRange
    <3>3. a <= OffsetOf(b, n, i) /\ OffsetOf(b, n, i) < n
      BY <2>4, <3>1, <3>2
    <3>4. QED
      BY <1>1, <2>1, <3>1, <3>3
  <2>5. read_is_safe(c) => d > n - Half(c)
    BY <1>2, <1>6
  <2>6. QED
    BY <2>2, <2>3, <2>4, <2>5, KeepsFields
<1>8. QED
  BY <1>1, <1>3, <1>4, <1>7

\* The facts that the steps of parse start from.
LEMMA ParseFacts ==
  ASSUME Sound, pc \in {"parse", "token"}
  PROVE  /\ ~done /\ done \in BOOLEAN /\ retired \in Seq(Storages)
         /\ pc = "token" => ~lex.asked /\ start_of_log = NoToken
         /\ out \in Views
         /\ out.has_header => out.slot0 \in Tokens
         /\ ~out.started => out = out_reset
         /\ out.started => EventTokens # << >>
         /\ Chain(retired, buf, EventTokens, from)
         /\ out_pos(out) = 0 <=> ~out.started
<1>1. /\ ~done /\ done \in BOOLEAN /\ retired \in Seq(Storages)
      /\ pc = "token" => ~lex.asked /\ start_of_log = NoToken
      /\ ViewInv
  BY DEF Sound, TextInv, LexerInv, KeptInv
<1>2. /\ out \in Views
      /\ out.has_header => out.slot0 \in Tokens
      /\ ~out.started => out = out_reset
      /\ out.started => EventTokens # << >>
      /\ Chain(retired, buf, EventTokens, from)
  BY <1>1 DEF ViewInv, Views, Chain
<1>3. Len(out.rest) \in Nat
  BY <1>2 DEF Views
<1>4. out_pos(out) = 0 <=> ~out.started
  BY <1>3 DEF out_pos
<1>5. QED
  BY <1>1, <1>2, <1>4

\* The lexer and the positions in the buffer stay what they are.
LEMMA ParseKeepsLexer ==
  ASSUME Sound, ParseFrame, pc \in {"parse", "token"}, pc' \in {"scan", "event"},
         pc = "parse" => buf' = buf /\ pc' = "scan",
         \A p : OffsetOf(buf', read_off, p) = Offset(p),
         buf'.pos = buf.pos, buf'.finished = buf.finished
  PROVE  LexerInv' /\ TokenInv' /\ Pending' = Pending
<1> USE DEF ParseFrame
<1>1. LexerInv /\ (pc = "token" => ~lex.asked)
  BY ParseFacts DEF Sound, TextInv
<1>2. \A p : Offset(p)' = OffsetOf(buf', read_off, p)
  BY DEF Offset
<1>3. RestInv'
  BY <1>1 DEF LexerInv, RestInv, Offset
<1>4. MainInv'
  <2>1. CASE pc = "parse"
    <3>1. buf' = buf /\ pc' = "scan"
      BY <2>1
    <3>2. QED
      BY <1>1, <2>1, <3>1 DEF LexerInv, MainInv, Offset
  <2>2. CASE pc = "token"
    BY <1>1, <2>2 DEF MainInv
  <2>3. QED
    BY <2>1, <2>2
<1>5. LexerInv'
  BY <1>1, <1>3, <1>4 DEF LexerInv, SkipInv
<1>6. TokenInv' /\ Pending' = Pending
  BY DEF TokenInv, Pending
<1>7. QED
  BY <1>5, <1>6

\* Token t is added to the view.
AddedToView(t) ==
  \/ /\ ~out.started
     /\ out' = IF t.type = TokenHeader THEN set_header(out, t) ELSE set_first(out, t)
  \/ out.started /\ out' = add_token(out, t)

\* What comes next in the text: the tokens of the view still follow each other.
LEMMA GrowView ==
  ASSUME Sound, ParseFrame, pc \in {"parse", "token"}, pc' \in {"scan", "event"},
         buf'.size = buf.size, buf'.storage = buf.storage,
         NEW t \in Tokens, Spells(retired, buf, t, NextFrom), AddedToView(t)
  PROVE  ViewInv' /\ NextFrom' = EndIn(retired, buf, t)
<1> USE DEF ParseFrame
<1>1. /\ out \in Views
      /\ out.has_header => out.slot0 \in Tokens
      /\ ~out.started => out = out_reset
      /\ out.started => EventTokens # << >>
      /\ Chain(retired, buf, EventTokens, from)
  BY ParseFacts
<1>2. NextFrom = NextIn(retired, buf, EventTokens, from)
  BY NextFromIn
<1>3. /\ out' \in Views
      /\ out'.started
      /\ out'.has_header => out'.slot0 \in Tokens
      /\ EventTokens' # << >>
      /\ Chain(retired, buf, EventTokens', from)
      /\ NextIn(retired, buf, EventTokens', from) = EndIn(retired, buf, t)
  <2>1. CASE ~out.started
    <3>1. /\ out' \in Views
          /\ out'.started
          /\ out'.has_header => out'.slot0 \in Tokens
          /\ EventTokens' = <<t>>
      BY <1>1, <2>1, BeginView DEF AddedToView
    <3>2. EventTokens = << >>
      BY <1>1, <2>1 DEF out_reset, EventTokens
    <3>3. NextFrom = from
      BY <1>2, <3>2 DEF NextIn
    <3>4. /\ Chain(retired, buf, <<t>>, from)
          /\ NextIn(retired, buf, <<t>>, from) = EndIn(retired, buf, t)
      BY <3>3, ChainOne
    <3>5. QED
      BY <3>1, <3>4
  <2>2. CASE out.started
    <3>1. /\ out' \in Views
          /\ out'.started = out.started
          /\ out'.has_header = out.has_header
          /\ out'.slot0 = out.slot0
          /\ EventTokens \in Seq(Tokens)
          /\ EventTokens' = Append(EventTokens, t)
      BY <1>1, <2>2, AddView DEF AddedToView
    <3>2. PICK s \in Seq(Tokens) : s = EventTokens
      BY <3>1
    <3>3. Chain(retired, buf, s, from) /\ s # << >>
          /\ Spells(retired, buf, t, NextIn(retired, buf, s, from))
      BY <1>1, <1>2, <2>2, <3>2
    <3>4. /\ Chain(retired, buf, Append(s, t), from)
          /\ NextIn(retired, buf, Append(s, t), from) = EndIn(retired, buf, t)
      BY <3>2, <3>3, ChainAppend
    <3>5. Append(s, t) # << >>
      BY <3>2
    <3>6. QED
      BY <1>1, <2>2, <3>1, <3>2, <3>4, <3>5
  <2>3. QED
    BY <2>1, <2>2
<1>4. /\ \A u : EndIn(retired, buf', u) = EndIn(retired, buf, u)
      /\ \A u, a : Spells(retired, buf, u, a) => Spells(retired, buf', u, a)
  BY SpellsSame
<1>5. Chain(retired', buf', EventTokens', from')
  BY <1>3, <1>4 DEF Chain
<1>6. ViewInv'
  BY <1>3, <1>5 DEF ViewInv, Views, Chain
<1>7. NextFrom' = EndIn(retired, buf, t)
  <2>1. NextFrom' = NextIn(retired', buf', EventTokens', from')
    BY NextFromIn
  <2>2. QED
    BY <1>3, <1>4, <2>1 DEF NextIn
<1>8. QED
  BY <1>6, <1>7

\* The whole invariant after such a step, when the token's text is that between its
\* positions.
LEMMA GrowText ==
  ASSUME Sound, ParseFrame, pc \in {"parse", "token"}, pc' \in {"scan", "event"},
         pc = "parse" => buf' = buf /\ pc' = "scan",
         done' = done,
         NEW t, Current(t), AddedToView(t), Offset(t.start_pos) = NextFrom,
         Offset(t.start_pos) <= Offset(t.end_pos), Needed < Offset(t.end_pos),
         pc' = "event" => Offset(t.start_pos) < Offset(t.end_pos),
         NEW d \in Int, d = IF start_of_log' = NoToken THEN Offset(t.end_pos)
                            ELSE Offset(t.end_pos) - 1,
         buf' = buf \/ \E p \in 0 .. buf.size - 1 :
                         buf' = set_consumed_pos(buf, p) /\ Offset(p) <= d,
         KeptInv', Seam' = t.end_pos
  PROVE  TextInv'
<1> USE DEF ParseFrame
<1>1. /\ read_off \in Nat /\ RingOf(buf, read_off) /\ IsBuffer(buf)
      /\ Needed \in Int /\ KeepsFrom(buf, read_off, Needed)
      /\ buf.finished => read_off = Len(log)
      /\ buf.fully_consumed => at_end_of_log(buf)
      /\ from \in Nat /\ from <= NextFrom /\ NextFrom \in Int
      /\ Needed <= NextFrom
  BY SoundFacts
<1>2. ~done /\ done \in BOOLEAN /\ retired \in Seq(Storages)
  BY ParseFacts
<1>3. /\ Spells(retired, buf, t, NextFrom)
      /\ EndIn(retired, buf, t) = Offset(t.end_pos)
      /\ t \in Tokens
  BY <1>1, CurrentSpells DEF Current
<1>4. Offset(t.end_pos) \in Int
  <2>1. t.end_pos \in 0 .. buf.size - 1
    BY SoundFacts DEF Current, Tokens
  <2>2. QED
    BY <2>1, SoundFacts
<1>5. PICK c : c = buf'
  OBVIOUS
<1>6. /\ IsBuffer(c) /\ RingOf(c, read_off) /\ KeepsFrom(c, read_off, d)
      /\ \A p : OffsetOf(c, read_off, p) = OffsetOf(buf, read_off, p)
      /\ c.size = buf.size /\ c.storage = buf.storage /\ c.pos = buf.pos
      /\ c.finished = buf.finished /\ c.fully_consumed = buf.fully_consumed
      /\ c.last_read = buf.last_read
  <2>1. Needed <= d
    BY <1>1, <1>4
  <2>2. c = buf \/ \E p \in 0 .. buf.size - 1 :
                     c = set_consumed_pos(buf, p) /\ OffsetOf(buf, read_off, p) <= d
    BY <1>5 DEF Offset
  <2>3. QED
    BY <1>1, <2>1, <2>2, KeepsMore
<1>7. ViewInv' /\ NextFrom' = Offset(t.end_pos)
  BY <1>3, <1>5, <1>6, GrowView
<1>8. Needed' = d
  BY <1>7 DEF Needed
<1>9. BufferInv'
  BY <1>1, <1>5, <1>6, <1>8 DEF BufferInv, at_end_of_log
<1>10. LexerInv' /\ TokenInv'
  BY <1>5, <1>6, ParseKeepsLexer DEF Offset
<1>11. SeamInv'
  <2>1. Offset(Seam)' = Offset(t.end_pos)
    BY <1>5, <1>6 DEF Offset
  <2>2. from <= Offset(t.end_pos)
    BY <1>1, <1>4
  <2>3. pc' = "event" => from < Offset(t.end_pos)
    BY <1>1, <1>4
  <2>4. QED
    BY <1>1, <1>2, <1>7, <2>1, <2>2, <2>3 DEF SeamInv
<1>12. QED
  BY <1>2, <1>7, <1>9, <1>10, <1>11 DEF TextInv

\* parse goes on with the token that the last call kept.
LEMMA UseStartOfLogText ==
  ASSUME Sound, UseStartOfLog
  PROVE  TextInv'
<1>1. PICK t : t = start_of_log
  OBVIOUS
<1>2. /\ pc = "parse" /\ out_pos(out) = 0 /\ t # NoToken
      /\ BeginEvent(t)
      /\ UNCHANGED buf
      /\ ParseFrame
  BY <1>1 DEF UseStartOfLog, ParseFrame, history, input_vars
<1>3. /\ Current(t)
      /\ t.type # TokenEnd
      /\ t.end_pos = Pending /\ t.start_pos = Seam
      /\ Offset(t.start_pos) <= Offset(t.end_pos)
  BY <1>1, <1>2 DEF Sound, TextInv, KeptInv, Seam
<1>4. /\ out' = IF t.type = TokenHeader THEN set_header(out, t) ELSE set_first(out, t)
      /\ start_of_log' = NoToken
      /\ pc' = "scan"
      /\ done' = done
  BY <1>2, <1>3 DEF BeginEvent
<1>5. AddedToView(t)
  BY <1>2, <1>4, ParseFacts DEF AddedToView
<1>6. KeptInv'
  BY <1>4 DEF KeptInv
<1>7. Seam' = t.end_pos
  <2>1. Pending' = Pending
    BY <1>2, <1>4 DEF Pending, ParseFrame
  <2>2. QED
    BY <1>3, <1>4, <2>1 DEF Seam
<1>8. PICK d \in Int : d = Offset(t.end_pos)
  <2>1. t.end_pos \in 0 .. buf.size - 1
    BY <1>3, SoundFacts DEF Current, Tokens
  <2>2. QED
    BY <2>1, SoundFacts
<1>9. Offset(t.start_pos) = NextFrom /\ Needed < Offset(t.end_pos)
  <2>1. Offset(t.start_pos) = NextFrom /\ NextFrom \in Int
    BY <1>3, SoundFacts
  <2>2. Needed = NextFrom - 1
    BY <1>1, <1>2 DEF Needed
  <2>3. QED
    BY <1>3, <1>8, <2>1, <2>2
<1>10. QED
  BY <1>2, <1>3, <1>4, <1>5, <1>6, <1>7, <1>8, <1>9, GrowText

\* parse calls scan.
LEMMA GetNextSymbolText ==
  ASSUME Sound, GetNextSymbol
  PROVE  TextInv'
<1>1. /\ pc = "parse" /\ pc' = "scan"
      /\ UNCHANGED <<buf, lex, tok, out, start_of_log, done>>
      /\ ParseFrame
  BY DEF GetNextSymbol, ParseFrame, parse_vars, history, input_vars
<1>2. start_of_log = NoToken /\ ~done /\ done \in BOOLEAN /\ retired \in Seq(Storages)
  <2>1. start_of_log # NoToken => ~out.started
    BY <1>1 DEF Sound, TextInv, KeptInv
  <2>2. QED
    BY <1>1, <2>1, ParseFacts DEF GetNextSymbol
<1>3. LexerInv' /\ TokenInv' /\ Pending' = Pending
  BY <1>1, ParseKeepsLexer DEF Offset, ParseFrame
<1>4. KeptInv'
  BY <1>1, <1>2 DEF KeptInv
<1>5. EventTokens' = EventTokens /\ Seam' = Seam
  BY <1>1, <1>2, <1>3 DEF EventTokens, Seam
<1>6. /\ NextFrom' = NextFrom
      /\ \A t : EndIn(retired', buf', t) = EndIn(retired, buf, t)
      /\ \A t, a : Spells(retired', buf', t, a) = Spells(retired, buf, t, a)
  BY <1>1, <1>5, NextFromIn DEF NextIn, ParseFrame
<1>7. Needed' = Needed
  BY <1>1, <1>6 DEF Needed
<1>8. BufferInv'
  BY <1>1, <1>7 DEF Sound, TextInv, BufferInv, ParseFrame
<1>9. ViewInv'
  BY <1>1, <1>5 DEF Sound, TextInv, ViewInv, ParseFrame
<1>10. SeamInv'
  <2>1. Offset(Seam)' = Offset(Seam)
    BY <1>1, <1>5 DEF Offset, ParseFrame
  <2>2. QED
    BY <1>1, <1>2, <1>6, <2>1 DEF Sound, TextInv, SeamInv, ParseFrame
<1>11. QED
  BY <1>1, <1>2, <1>3, <1>4, <1>8, <1>9, <1>10 DEF TextInv, ParseFrame

\* The token that scan has returned begins where the view ends.
LEMMA ScannedText ==
  ASSUME Sound, pc = "token", tok.type # TokenEnd
  PROVE  /\ Current(tok)
         /\ tok.start_pos \in 0 .. buf.size - 1 /\ tok.end_pos \in 0 .. buf.size - 1
         /\ Offset(tok.start_pos) \in Int /\ Offset(tok.end_pos) \in Int
         /\ Offset(tok.start_pos) < Offset(tok.end_pos)
         /\ Offset(tok.end_pos) <= read_off
         /\ tok.end_pos = Pending
         /\ Offset(tok.start_pos) = NextFrom /\ Needed = NextFrom
         /\ start_of_log = NoToken
<1>1. /\ Current(tok) /\ tok.end_pos = Pending
      /\ Offset(tok.start_pos) < Offset(tok.end_pos)
      /\ start_of_log = NoToken
  BY DEF Sound, TextInv, TokenInv, KeptInv
<1>2. /\ tok.start_pos \in 0 .. buf.size - 1 /\ tok.end_pos \in 0 .. buf.size - 1
  <2>1. buf.size \in Nat
    BY SoundFacts
  <2>2. /\ tok.start_pos \in Nat /\ tok.end_pos \in Nat
        /\ tok.start_pos < buf.size /\ tok.end_pos < buf.size
    BY <1>1 DEF Current, Tokens
  <2>3. QED
    BY <2>1, <2>2
<1>3. Offset(tok.start_pos) = NextFrom
  BY SoundFacts DEF Seam
<1>4. Needed = NextFrom
  BY <1>1 DEF Needed
<1>5. QED
  BY <1>1, <1>2, <1>3, <1>4, SoundFacts

\* '\n' and the rest of the token it begins.
LEMMA NewlineText ==
  ASSUME Sound, pc = "token", tok.type # TokenEnd,
         NEW t, t = NewlineOf(tok),
         NEW r, r = [tok EXCEPT !.start_pos = TokenNextPos(tok)]
  PROVE  /\ Current(t) /\ Current(r)
         /\ t.start_pos = tok.start_pos
         /\ Offset(t.end_pos) = Offset(tok.start_pos) + 1
         /\ t.type = TokenUncaughtString
         /\ r.start_pos = t.end_pos /\ r.end_pos = tok.end_pos
         /\ r.type = tok.type
         /\ r # NoToken
<1>1. /\ tok \in Tokens /\ tok.type # NoType
      /\ tok.start_pos \in 0 .. buf.size - 1 /\ tok.end_pos \in 0 .. buf.size - 1
      /\ tok.buffer = Len(retired) + 1 /\ tok.buffer_size = buf.size
      /\ buf.size \in Nat /\ read_off \in Nat /\ RingOf(buf, read_off)
  BY ScannedText, SoundFacts DEF Current
<1>2. OffsetOf(buf, read_off, tok.start_pos) < read_off
  BY <1>1, ScannedText DEF Offset
<1>3. PICK q \in Nat : /\ q = TokenNextPos(tok) /\ q < buf.size
                       /\ Offset(q) = Offset(tok.start_pos) + 1
  <2>1. /\ next_pos(buf, tok.start_pos) \in 0 .. buf.size - 1
        /\ OffsetOf(buf, read_off, next_pos(buf, tok.start_pos))
             = OffsetOf(buf, read_off, tok.start_pos) + 1
    BY <1>1, <1>2, OffsetNext
  <2>2. TokenNextPos(tok) = next_pos(buf, tok.start_pos)
    BY <1>1 DEF TokenNextPos, next_pos
  <2>3. PICK q : q = next_pos(buf, tok.start_pos)
    OBVIOUS
  <2>4. q \in Nat /\ q < buf.size
    BY <1>1, <2>1, <2>3
  <2>5. QED
    BY <2>1, <2>2, <2>3, <2>4 DEF Offset
<1>4. TokenUncaughtString \in Types /\ TokenUncaughtString # NoType
  BY DEF Types, TokenUncaughtString, NoType
<1>5. /\ t \in Tokens
      /\ t.start_pos = tok.start_pos
      /\ t.end_pos = q
      /\ t.type = TokenUncaughtString
      /\ t.buffer = tok.buffer /\ t.buffer_size = tok.buffer_size
  BY <1>1, <1>3, <1>4 DEF NewlineOf, Tokens
<1>6. /\ r \in Tokens
      /\ r.start_pos = q
      /\ r.end_pos = tok.end_pos
      /\ r.type = tok.type
      /\ r.buffer = tok.buffer /\ r.buffer_size = tok.buffer_size
  BY <1>1, <1>3 DEF Tokens
<1>7. Current(t)
  BY <1>1, <1>3, <1>4, <1>5 DEF Current
<1>8. Current(r)
  BY <1>1, <1>3, <1>6 DEF Current
<1>9. r # NoToken
  BY <1>1, <1>6 DEF NoToken
<1>10. QED
  BY <1>3, <1>5, <1>6, <1>7, <1>8, <1>9

\* '\n' ends the event and the rest of the token is kept for the next one.
LEMMA SplitText ==
  ASSUME Sound, ParseFrame, pc = "token", tok.type # TokenEnd,
         AddedToView(NewlineOf(tok)), SplitAtNewline(tok), done' = done
  PROVE  TextInv'
<1>1. PICK t : t = NewlineOf(tok)
  OBVIOUS
<1>2. PICK r : r = [tok EXCEPT !.start_pos = TokenNextPos(tok)]
  OBVIOUS
<1>3. PICK p : p = tok.start_pos
  OBVIOUS
<1>4. /\ start_of_log' = r
      /\ buf' = set_consumed_pos(buf, p)
      /\ pc' = "event"
  BY <1>2, <1>3 DEF SplitAtNewline
<1>5. /\ Current(t) /\ Current(r)
      /\ t.start_pos = p
      /\ Offset(t.end_pos) = Offset(p) + 1
      /\ r.start_pos = t.end_pos /\ r.end_pos = tok.end_pos
      /\ r.type = tok.type
      /\ r # NoToken
  BY <1>1, <1>2, <1>3, NewlineText
<1>6. /\ p \in 0 .. buf.size - 1
      /\ Offset(p) \in Int /\ Offset(tok.end_pos) \in Int
      /\ Offset(p) < Offset(tok.end_pos)
      /\ tok.end_pos = Pending
      /\ Offset(p) = NextFrom /\ Needed = NextFrom
      /\ ~done
  BY <1>3, ScannedText, ParseFacts
<1>7. buf'.size = buf.size /\ buf'.last_read = buf.last_read
  BY <1>4, SoundFacts DEF set_consumed_pos, IsBuffer
<1>8. \A q : OffsetOf(buf', read_off', q) = Offset(q)
  BY <1>7, OffsetSame DEF Offset, ParseFrame
<1>9. Pending' = Pending
  BY <1>4 DEF Pending, ParseFrame
<1>10. KeptInv'
  <2>1. Current(r)'
    BY <1>5, <1>7 DEF Current, ParseFrame
  <2>2. OffsetOf(buf', read_off', r.start_pos) <= OffsetOf(buf', read_off', r.end_pos)
    BY <1>5, <1>6, <1>8
  <2>3. Current(start_of_log)'
    BY <1>4, <2>1 DEF Current
  <2>4. QED
    BY <1>4, <1>5, <1>6, <1>9, <2>2, <2>3 DEF KeptInv, Offset
<1>11. Seam' = t.end_pos
  BY <1>4, <1>5 DEF Seam
<1>12. PICK d \in Int : d = Offset(t.end_pos) - 1
  BY <1>5, <1>6
<1>13. /\ d = IF start_of_log' = NoToken THEN Offset(t.end_pos) ELSE Offset(t.end_pos) - 1
       /\ Offset(p) <= d
       /\ Offset(t.start_pos) = NextFrom
       /\ Offset(t.start_pos) <= Offset(t.end_pos)
       /\ Offset(t.start_pos) < Offset(t.end_pos)
       /\ Needed < Offset(t.end_pos)
  BY <1>4, <1>5, <1>6, <1>12
<1>14. \E q \in 0 .. buf.size - 1 : buf' = set_consumed_pos(buf, q) /\ Offset(q) <= d
  BY <1>4, <1>6, <1>13
<1>15. AddedToView(t)
  BY <1>1
<1>16. pc' = "event"
  BY <1>4
<1>17. QED
  BY <1>5, <1>10, <1>11, <1>13, <1>14, <1>15, <1>16, GrowText

\* "make a message with just the '\n' character".
LEMMA FirstTokenNewlineText ==
  ASSUME Sound, FirstTokenNewline
  PROVE  TextInv'
<1>1. /\ pc = "token" /\ out_pos(out) = 0
      /\ tok.type # TokenEnd
      /\ out' = set_first(out, NewlineOf(tok))
      /\ SplitAtNewline(tok)
      /\ done' = done
      /\ ParseFrame
  BY DEF FirstTokenNewline, ParseFrame, history, input_vars, TokenHeader, TokenEnd
<1>2. NewlineOf(tok).type # TokenHeader
  BY <1>1, NewlineText DEF TokenUncaughtString, TokenHeader
<1>3. AddedToView(NewlineOf(tok))
  BY <1>1, <1>2, ParseFacts DEF AddedToView
<1>4. QED
  BY <1>1, <1>3, SplitText

\* '\n' before the next event.
LEMMA NextTokenStartText ==
  ASSUME Sound, NextTokenStart
  PROVE  TextInv'
<1>1. /\ pc = "token" /\ out_pos(out) # 0
      /\ tok.type # TokenEnd
      /\ out' = add_token(out, NewlineOf(tok))
      /\ SplitAtNewline(tok)
      /\ done' = done
      /\ ParseFrame
  BY DEF NextTokenStart, ParseFrame, history, input_vars
<1>2. AddedToView(NewlineOf(tok))
  BY <1>1, ParseFacts DEF AddedToView
<1>3. QED
  BY <1>1, <1>2, SplitText

\* The token goes to the view and parse goes on.
LEMMA WholeTokenText ==
  ASSUME Sound, ParseFrame, pc = "token", tok.type # TokenEnd,
         AddedToView(tok), done' = done,
         start_of_log' = NoToken, pc' \in {"scan", "event"},
         buf' = buf \/ buf' = set_consumed_pos(buf, tok.end_pos)
  PROVE  TextInv'
<1>1. PICK t : t = tok
  OBVIOUS
<1>2. /\ Current(t)
      /\ t.end_pos \in 0 .. buf.size - 1
      /\ Offset(t.start_pos) \in Int /\ Offset(t.end_pos) \in Int
      /\ Offset(t.start_pos) < Offset(t.end_pos)
      /\ t.end_pos = Pending
      /\ Offset(t.start_pos) = NextFrom /\ Needed = NextFrom
  BY <1>1, ScannedText
<1>3. KeptInv'
  BY DEF KeptInv
<1>4. Seam' = t.end_pos
  <2>1. Pending' = Pending
    BY DEF Pending, ParseFrame
  <2>2. QED
    BY <1>2, <2>1 DEF Seam
<1>5. PICK d \in Int : d = Offset(t.end_pos)
  BY <1>2
<1>6. buf' = buf \/ \E q \in 0 .. buf.size - 1 :
                      buf' = set_consumed_pos(buf, q) /\ Offset(q) <= d
  BY <1>1, <1>2, <1>5
<1>7. /\ Offset(t.start_pos) <= Offset(t.end_pos) /\ Needed < Offset(t.end_pos)
      /\ AddedToView(t)
  BY <1>1, <1>2
<1>8. QED
  BY <1>2, <1>3, <1>4, <1>5, <1>6, <1>7, GrowText

\* '\n' ends an event without a header.
LEMMA NextTokenNewlineText ==
  ASSUME Sound, NextTokenNewline
  PROVE  TextInv'
<1>1. /\ pc = "token" /\ out_pos(out) # 0
      /\ tok.type # TokenEnd
      /\ buf' = set_consumed_pos(buf, tok.end_pos)
      /\ out' = add_token(out, tok)
      /\ pc' = "event"
      /\ UNCHANGED <<start_of_log, done>>
      /\ ParseFrame
  BY DEF NextTokenNewline, ParseFrame, history, input_vars, TokenNewline, TokenEnd
<1>2. AddedToView(tok)
  BY <1>1, ParseFacts DEF AddedToView
<1>3. start_of_log' = NoToken
  BY <1>1, ScannedText
<1>4. QED
  BY <1>1, <1>2, <1>3, WholeTokenText

\* One more token of the event.
LEMMA NextTokenText ==
  ASSUME Sound, NextToken
  PROVE  TextInv'
<1>1. /\ pc = "token" /\ out_pos(out) # 0
      /\ tok.type # TokenEnd
      /\ out' = add_token(out, tok)
      /\ pc' = "scan"
      /\ UNCHANGED <<buf, start_of_log, done>>
      /\ ParseFrame
  BY DEF NextToken, ParseFrame, history, input_vars
<1>2. AddedToView(tok)
  BY <1>1, ParseFacts DEF AddedToView
<1>3. start_of_log' = NoToken
  BY <1>1, ScannedText
<1>4. QED
  BY <1>1, <1>2, <1>3, WholeTokenText

\* parse is done with the log: the end of the view is that of the log.
LEMMA FinishText ==
  ASSUME Sound, ParseFrame, pc = "token", tok.type = TokenEnd,
         UNCHANGED <<buf, tok, start_of_log>>, done' = TRUE, pc' = "event",
         EventTokens' = EventTokens, ViewInv'
  PROVE  TextInv'
<1> USE DEF ParseFrame
<1>1. /\ Offset(tok.start_pos) = read_off /\ Offset(tok.end_pos) = read_off
      /\ tok.end_pos = Pending /\ buf.finished
      /\ start_of_log = NoToken
      /\ retired \in Seq(Storages)
  BY DEF Sound, TextInv, TokenInv, KeptInv
<1>2. /\ read_off = Len(log) /\ from \in Nat /\ from <= NextFrom
      /\ NextFrom = Offset(tok.start_pos)
  BY <1>1, SoundFacts DEF Seam
<1>3. LexerInv' /\ TokenInv' /\ Pending' = Pending
  BY ParseKeepsLexer DEF Offset
<1>4. NextFrom' = NextFrom
  BY NextFromIn DEF NextIn
<1>5. Needed' = Needed
  BY <1>4 DEF Needed
<1>6. BufferInv'
  BY <1>5 DEF Sound, TextInv, BufferInv
<1>7. KeptInv'
  BY <1>1 DEF KeptInv
<1>8. SeamInv'
  <2>1. Seam' = tok.end_pos
    BY <1>1, <1>3 DEF Seam
  <2>2. Offset(Seam)' = read_off
    BY <1>1, <2>1 DEF Offset
  <2>3. QED
    BY <1>1, <1>2, <1>4, <2>2 DEF SeamInv
<1>9. QED
  BY <1>1, <1>3, <1>6, <1>7, <1>8 DEF TextInv

\* The first token of an event, or the end of the log.
LEMMA FirstTokenText ==
  ASSUME Sound, FirstToken
  PROVE  TextInv'
<1>1. /\ pc = "token" /\ out_pos(out) = 0
      /\ BeginEvent(tok)
      /\ UNCHANGED <<buf, tok>>
      /\ ParseFrame
  BY DEF FirstToken, ParseFrame, history, input_vars
<1>2. /\ out = out_reset /\ ~out.started /\ out \in Views
  BY <1>1, ParseFacts
<1>3. CASE tok.type # TokenEnd
  <2>1. /\ out' = IF tok.type = TokenHeader THEN set_header(out, tok) ELSE set_first(out, tok)
        /\ start_of_log' = NoToken
        /\ pc' = "scan"
        /\ done' = done
    BY <1>1, <1>3 DEF BeginEvent
  <2>2. AddedToView(tok)
    BY <1>2, <2>1 DEF AddedToView
  <2>3. QED
    BY <1>1, <1>3, <2>1, <2>2, WholeTokenText
<1>4. CASE tok.type = TokenEnd
  <2>1. /\ out' = set_end(out, tok)
        /\ done' = TRUE /\ pc' = "event"
        /\ UNCHANGED start_of_log
    BY <1>1, <1>4 DEF BeginEvent, Finish
  <2>2. out' = [has_header |-> FALSE, started |-> TRUE, slot0 |-> tok, rest |-> << >>]
    BY <1>2, <2>1 DEF set_end, out_reset
  <2>3. tok \in Tokens
    BY <1>1 DEF Sound, TextInv, TokenInv, Current
  <2>4. out' \in Views
    <3>1. << >> \in Seq(Tokens) /\ FALSE \in BOOLEAN
      OBVIOUS
    <3>2. QED
      BY <2>2, <2>3, <3>1, ViewRecord, Zenon
  <2>5. /\ ~out'.has_header /\ out'.started /\ out'.rest = << >>
    BY <2>2
  <2>6. EventTokens' = << >> /\ EventTokens = << >>
    BY <1>2, <2>5 DEF EventTokens, out_reset
  <2>7. ViewInv'
    <3>1. Len(EventTokens') = 0
      BY <2>6
    <3>2. QED
      BY <2>1, <2>4, <2>5, <3>1 DEF ViewInv, Views
  <2>8. QED
    BY <1>1, <1>4, <2>1, <2>6, <2>7, FinishText
<1>5. QED
  BY <1>3, <1>4

\* The log ends with an event.
LEMMA NextTokenEndText ==
  ASSUME Sound, NextTokenEnd
  PROVE  TextInv'
<1>1. /\ pc = "token" /\ out_pos(out) # 0
      /\ tok.type = TokenEnd
      /\ done' = TRUE /\ pc' = "event"
      /\ UNCHANGED <<buf, tok, out, start_of_log>>
      /\ ParseFrame
  BY DEF NextTokenEnd, Finish, ParseFrame, history, input_vars
<1>2. EventTokens' = EventTokens
  BY <1>1 DEF EventTokens
<1>3. ViewInv'
  BY <1>1, <1>2 DEF Sound, TextInv, ViewInv, ParseFrame
<1>4. QED
  BY <1>1, <1>2, <1>3, FinishText

\* Each step of parse.
LEMMA ParseText ==
  ASSUME Sound, Parse
  PROVE  TextInv'
BY UseStartOfLogText, GetNextSymbolText, FirstTokenNewlineText, FirstTokenText,
   NextTokenEndText, NextTokenNewlineText, NextTokenStartText, NextTokenText DEF Parse

-----------------------------------------------------------------------------
(***************************************************************************)
(* ReaderParser::parse_next_event: reading and growing.                    *)
(***************************************************************************)

\* Nothing that is needed lies behind what the lexer has returned.
LEMMA PendingKept ==
  ASSUME Sound, pc # "token"
  PROVE  /\ Pending \in 0 .. buf.size - 1
         /\ Offset(Pending) \in Int
         /\ Needed <= NextFrom /\ NextFrom <= Offset(Pending)
         /\ Needed <= Offset(Pending)
<1>1. Pending \in 0 .. buf.size - 1
  BY SoundFacts DEF Pending
<1>2. /\ Offset(Pending) \in Int /\ NextFrom \in Int /\ Needed \in Int
      /\ Needed <= NextFrom /\ NextFrom = Offset(Seam)
  BY <1>1, SoundFacts
<1>3. NextFrom <= Offset(Pending)
  <2>1. CASE start_of_log = NoToken
    BY <1>2, <2>1 DEF Seam
  <2>2. CASE start_of_log # NoToken
    BY <1>2, <2>2 DEF Sound, TextInv, KeptInv, Seam
  <2>3. QED
    BY <2>1, <2>2
<1>4. QED
  BY <1>1, <1>2, <1>3

\* The empty view.
LEMMA EmptyView ==
  /\ out_reset \in Views
  /\ ~out_reset.started /\ ~out_reset.has_header /\ out_reset.rest = << >>
<1>1. << >> \in Seq(Tokens) /\ FALSE \in BOOLEAN
  OBVIOUS
<1>2. out_reset \in Views
  BY <1>1, Zenon DEF Views, out_reset
<1>3. QED
  BY <1>2 DEF out_reset

\* A read that leaves the bytes from a on where they are keeps what holds between
\* two scans.
LEMMA ReadKeepsLexer ==
  ASSUME Sound, pc # "token", pc \notin {"main", "skip"},
         pc' \in {"parse", "failed"},
         NEW x, lex = x, lex' = x,
         pc = "oob" => x.asked,
         buf'.size = buf.size, buf'.pos = buf.pos,
         read_off' \in Nat, read_off <= read_off',
         RingOf(buf', read_off'), KeepsFrom(buf', read_off', Needed),
         buf.finished => buf' = buf /\ read_off' = read_off,
         \A p \in 0 .. buf.size - 1 :
           Needed <= Offset(p) => OffsetOf(buf', read_off', p) = Offset(p)
  PROVE  LexerInv' /\ Pending' = Pending
<1>1. /\ RingOf(buf, read_off) /\ KeepsFrom(buf, read_off, Needed)
      /\ buf.size \in Nat /\ buf.pos \in 0 .. buf.size - 1
      /\ read_off \in Nat /\ Needed \in Int
      /\ x.start_pos \in 0 .. buf.size - 1
      /\ x.match_pos \in 0 .. buf.size - 1
      /\ x.last_match_pos \in 0 .. buf.size - 1
      /\ x.first_delim # Unset => x.first_delim \in 0 .. buf.size - 1
      /\ \A p \in 0 .. buf.size - 1 : Offset(p) \in Int /\ Offset(p) <= read_off
  BY SoundFacts
<1>2. Pending' = Pending
  BY DEF Pending
<1>3. Needed <= Offset(Pending)
  BY PendingKept
<1>4. RestInv /\ MainInv /\ (x.asked => pc \in {"ready", "failed", "parse", "scan", "oob"})
  BY DEF Sound, TextInv, LexerInv
<1>5. \A p \in 0 .. buf.size - 1 :
        Needed <= Offset(p) => Offset(p)' = Offset(p)
  BY DEF Offset
<1>6. RestInv'
  <2>1. CASE x.asked
    BY <2>1 DEF RestInv
  <2>2. CASE ~x.asked /\ ~x.match
    BY <1>4, <2>2 DEF RestInv
  <2>3. CASE ~x.asked /\ x.match
    <3>1. /\ buf.pos = x.match_pos
          /\ x.type # NoType
          /\ x.type # TokenEnd => Offset(x.start_pos) < Offset(x.match_pos)
          /\ x.type = TokenEnd =>
               Offset(x.start_pos) = read_off /\ Offset(buf.pos) = read_off /\ buf.finished
      BY <1>4, <2>3 DEF RestInv
    <3>2. Needed <= Offset(x.start_pos)
      BY <1>3, <2>3 DEF Pending
    <3>3. x.type # TokenEnd => OffsetOf(buf', read_off', x.start_pos)
                                  < OffsetOf(buf', read_off', x.match_pos)
      <4>1. x.type # TokenEnd => Needed <= Offset(x.match_pos)
        BY <1>1, <3>1, <3>2
      <4>2. QED
        BY <1>1, <3>1, <3>2, <4>1
    <3>4. x.type = TokenEnd =>
            /\ OffsetOf(buf', read_off', x.start_pos) = read_off'
            /\ OffsetOf(buf', read_off', buf'.pos) = read_off' /\ buf'.finished
      BY <3>1 DEF Offset
    <3>5. QED
      BY <2>3, <3>1, <3>3, <3>4 DEF RestInv, Offset
  <2>4. QED
    BY <2>1, <2>2, <2>3
<1>7. MainInv'
  <2>1. CASE ~x.asked
    BY <2>1 DEF MainInv
  <2>2. CASE x.asked
    <3>1. /\ Offset(x.last_match_pos) <= Offset(x.start_pos)
          /\ Offset(x.start_pos) <= Offset(buf.pos)
          /\ x.match => /\ Offset(x.start_pos) < Offset(x.match_pos)
                        /\ Offset(x.match_pos) <= Offset(buf.pos)
                        /\ x.type \notin {NoType, TokenEnd}
          /\ x.start_pos = buf.pos =>
               /\ ~is_accepting(x.state)
               /\ x.last_match_pos = buf.pos \/ ~out_of_bounds(buf)
          /\ x.first_delim # Unset =>
               /\ Offset(x.last_match_pos) < Offset(x.first_delim)
               /\ Offset(x.first_delim) < Offset(buf.pos)
      BY <1>4, <2>2 DEF MainInv
    <3>2. Needed <= Offset(x.last_match_pos)
      BY <1>3, <2>2 DEF Pending
    <3>3. Needed <= Offset(x.start_pos)
      BY <1>1, <3>1, <3>2
    <3>4. Needed <= Offset(buf.pos)
      BY <1>1, <3>1, <3>3
    <3>5. x.match => Needed <= Offset(x.match_pos)
      BY <1>1, <3>1, <3>3
    <3>6. x.first_delim # Unset => Needed <= Offset(x.first_delim)
      BY <1>1, <3>1, <3>2
    <3>7. ~out_of_bounds(buf) => ~out_of_bounds(buf')
      <4>1. CASE buf.finished
        BY <4>1
      <4>2. CASE ~buf.finished
        <5>1. ~at_end_of_log(buf)
          BY <4>2 DEF at_end_of_log
        <5>2. ~out_of_bounds(buf) => OffsetOf(buf, read_off, buf.pos) < read_off
          BY <1>1, <3>4, <5>1, PositionEnds DEF Offset
        <5>3. PICK c, m : c = buf' /\ m = read_off'
          OBVIOUS
        <5>4. out_of_bounds(c) => OffsetOf(c, m, c.pos) = m
          BY <1>1, <3>4, <5>3, PositionEnds
        <5>5. OffsetOf(c, m, c.pos) = OffsetOf(buf, read_off, buf.pos)
          BY <1>1, <3>4, <5>3 DEF Offset
        <5>6. QED
          BY <1>1, <5>2, <5>3, <5>4, <5>5
      <4>3. QED
        BY <4>1, <4>2
    <3>8. /\ Offset(x.last_match_pos)' = Offset(x.last_match_pos)
          /\ Offset(x.start_pos)' = Offset(x.start_pos)
          /\ Offset(buf.pos)' = Offset(buf.pos)
          /\ x.match => Offset(x.match_pos)' = Offset(x.match_pos)
          /\ x.first_delim # Unset => Offset(x.first_delim)' = Offset(x.first_delim)
      BY <1>1, <3>2, <3>3, <3>4, <3>5, <3>6 DEF Offset
    <3>9. QED
      BY <3>1, <3>7, <3>8 DEF MainInv, Offset
  <2>3. QED
    BY <2>1, <2>2
<1>8. LexerInv'
  BY <1>6, <1>7 DEF LexerInv, SkipInv
<1>9. QED
  BY <1>2, <1>8

\* The first half of parse_next_event.
LEMMA ParseNextEventText ==
  ASSUME Sound, ParseNextEvent
  PROVE  TextInv'
<1>1. /\ pc \in {"ready", "event", "failed"} /\ ~done
      /\ out' = out_reset
      /\ from' = IF pc = "event" THEN NextFrom ELSE from
      /\ pc' \in {"parse", "failed"}
      /\ ReadInto(buf) \/ UNCHANGED <<buf, read_off>>
      /\ UNCHANGED <<log, retired, lex, start_of_log, skip, done, intact>>
  BY DEF ParseNextEvent
<1>2. /\ log \in Seq(Chars) /\ read_off \in 0 .. Len(log)
      /\ read_off \in Nat
      /\ IsBuffer(buf) /\ RingOf(buf, read_off)
      /\ Needed \in Int /\ KeepsFrom(buf, read_off, Needed)
      /\ buf.finished => read_off = Len(log)
      /\ buf.fully_consumed => at_end_of_log(buf)
      /\ buf.size \in Nat
      /\ from \in Nat /\ from <= NextFrom /\ NextFrom \in Int
      /\ NextFrom = Offset(Seam)
      /\ \A p \in 0 .. buf.size - 1 : Offset(p) \in Int
  BY SoundFacts
<1>3. PICK c, m : c = buf' /\ m = read_off'
  OBVIOUS
<1>4. /\ IsBuffer(c) /\ c.size = buf.size /\ c.pos = buf.pos
      /\ c.fully_consumed = buf.fully_consumed
      /\ RingOf(c, m) /\ KeepsFrom(c, m, Needed)
      /\ c.finished => m = Len(log)
      /\ buf.finished => c = buf /\ m = read_off
      /\ m \in Nat /\ read_off <= m
      /\ \A p \in 0 .. buf.size - 1 :
           Needed <= Offset(p) => OffsetOf(c, m, p) = Offset(p)
  <2>1. CASE ReadInto(buf)
    BY <1>2, <1>3, <2>1, ReadIntoKeeps DEF Offset
  <2>2. CASE UNCHANGED <<buf, read_off>>
    BY <1>2, <1>3, <2>2 DEF Offset
  <2>3. QED
    BY <1>1, <2>1, <2>2
<1>5. /\ retired \in Seq(Storages) /\ done \in BOOLEAN
      /\ RestInv /\ KeptInv
  BY DEF Sound, TextInv, LexerInv
<1>6. from' = NextFrom
  <2>1. CASE pc = "event"
    BY <1>1, <2>1
  <2>2. CASE pc # "event"
    <3>1. out = out_reset
      BY <1>1, <2>2 DEF Sound, TextInv, ViewInv
    <3>2. EventTokens = << >>
      BY <3>1, EmptyView DEF EventTokens
    <3>3. NextFrom = from
      BY <3>2 DEF NextFrom
    <3>4. QED
      BY <1>1, <2>2, <3>3
  <2>3. QED
    BY <2>1, <2>2
<1>7. EventTokens' = << >> /\ NextFrom' = NextFrom
  <2>1. EventTokens' = << >>
    BY <1>1, EmptyView DEF EventTokens
  <2>2. NextFrom' = from'
    BY <2>1 DEF NextFrom
  <2>3. QED
    BY <1>6, <2>1, <2>2
<1>8. Needed' = Needed
  BY <1>1, <1>7 DEF Needed
<1>9. BufferInv'
  <2>1. c.fully_consumed => at_end_of_log(c)
    BY <1>2, <1>4 DEF at_end_of_log
  <2>2. QED
    BY <1>1, <1>3, <1>4, <1>8, <2>1 DEF BufferInv
<1>10. LexerInv' /\ Pending' = Pending
  BY <1>1, <1>3, <1>4, ReadKeepsLexer
<1>11. TokenInv'
  BY <1>1 DEF TokenInv
<1>12. /\ Needed <= NextFrom /\ Offset(Seam)' = NextFrom /\ Seam' = Seam
  <2>1. Seam \in 0 .. buf.size - 1
    <3>1. start_of_log # NoToken => start_of_log.start_pos \in 0 .. buf.size - 1
      BY <1>2, <1>5 DEF KeptInv, Current, Tokens
    <3>2. QED
      BY <1>1, <3>1, PendingKept DEF Seam
  <2>2. Needed <= NextFrom
    BY <1>1, PendingKept
  <2>3. Seam' = Seam
    BY <1>1, <1>10 DEF Seam
  <2>4. Offset(Seam)' = OffsetOf(c, m, Seam)
    BY <1>3, <2>3 DEF Offset
  <2>5. QED
    BY <1>2, <1>4, <2>1, <2>2, <2>3, <2>4
<1>13. KeptInv'
  <2>1. CASE start_of_log = NoToken
    BY <1>1, <2>1 DEF KeptInv
  <2>2. CASE start_of_log # NoToken
    <3>1. PICK t : t = start_of_log
      OBVIOUS
    <3>2. /\ Current(t) /\ t.type # TokenEnd /\ t.end_pos = Pending
          /\ Offset(t.start_pos) <= Offset(t.end_pos)
          /\ Offset(t.start_pos) = NextFrom
      BY <1>1, <1>2, <1>5, <2>2, <3>1 DEF KeptInv, Seam
    <3>3. /\ t.start_pos \in 0 .. buf.size - 1
          /\ t.end_pos \in 0 .. buf.size - 1
      BY <1>2, <3>2 DEF Current, Tokens
    <3>4. OffsetOf(c, m, t.start_pos) = Offset(t.start_pos)
      BY <1>4, <1>12, <3>2, <3>3
    <3>5. OffsetOf(c, m, t.end_pos) = Offset(t.end_pos)
      BY <1>1, <1>4, <3>2, <3>3, PendingKept
    <3>6. Offset(t.start_pos)' <= Offset(t.end_pos)'
      BY <1>1, <1>3, <3>1, <3>2, <3>4, <3>5 DEF Offset
    <3>7. Current(t)'
      BY <1>1, <1>3, <1>4, <3>1, <3>2 DEF Current
    <3>8. ~out'.started
      BY <1>1, EmptyView
    <3>9. QED
      BY <1>1, <1>10, <3>1, <3>2, <3>6, <3>7, <3>8 DEF KeptInv, Current, Offset
  <2>3. QED
    BY <2>1, <2>2
<1>14. ViewInv'
  <2>1. Len(EventTokens') = 0
    BY <1>7
  <2>2. QED
    BY <1>1, <2>1, EmptyView DEF ViewInv, Views
<1>15. SeamInv'
  BY <1>1, <1>2, <1>6, <1>7, <1>12 DEF SeamInv
<1>16. QED
  BY <1>1, <1>5, <1>9, <1>10, <1>11, <1>13, <1>14, <1>15 DEF TextInv

\* What growth finds.
LEMMA OutOfBoundsFacts ==
  ASSUME Sound, pc = "oob"
  PROVE  /\ lex.asked /\ out_of_bounds(buf) /\ ~buf.fully_consumed
         /\ start_of_log = NoToken /\ ~done /\ done \in BOOLEAN
         /\ retired \in Seq(Storages)
         /\ Seam = lex.last_match_pos /\ Pending = lex.last_match_pos
         /\ Needed = NextFrom /\ Needed = Offset(lex.last_match_pos)
         /\ Offset(buf.pos) = read_off
         /\ MainInv
<1>1. /\ lex.asked /\ out_of_bounds(buf)
      /\ buf.fully_consumed => at_end_of_log(buf)
      /\ start_of_log = NoToken /\ ~done /\ done \in BOOLEAN
      /\ retired \in Seq(Storages) /\ MainInv
  BY DEF Sound, TextInv, LexerInv, BufferInv, KeptInv
<1>2. ~buf.fully_consumed
  BY <1>1 DEF out_of_bounds
<1>3. Seam = lex.last_match_pos /\ Pending = lex.last_match_pos
  BY <1>1 DEF Seam, Pending
<1>4. Needed = NextFrom /\ Needed = Offset(lex.last_match_pos)
  BY <1>1, <1>3, SoundFacts DEF Needed
<1>5. PICK n : n = read_off
  OBVIOUS
<1>6. /\ n \in Nat /\ RingOf(buf, n) /\ buf.pos \in 0 .. buf.size - 1
      /\ Needed \in Int /\ KeepsFrom(buf, n, Needed)
  BY <1>5, SoundFacts
<1>7. Needed <= OffsetOf(buf, n, buf.pos)
  <2>1. /\ Offset(lex.last_match_pos) <= Offset(lex.start_pos)
        /\ Offset(lex.start_pos) <= Offset(buf.pos)
    BY <1>1 DEF MainInv
  <2>2. /\ Offset(lex.last_match_pos) \in Int /\ Offset(lex.start_pos) \in Int
        /\ Offset(buf.pos) \in Int
    BY SoundFacts
  <2>3. Offset(lex.last_match_pos) <= Offset(buf.pos)
    BY <2>1, <2>2
  <2>4. QED
    BY <1>4, <1>5, <2>3 DEF Offset
<1>8. OffsetOf(buf, n, buf.pos) = n
  BY <1>1, <1>6, <1>7, PositionEnds
<1>9. QED
  BY <1>1, <1>2, <1>3, <1>4, <1>5, <1>8 DEF Offset

\* The fields of the lexer after growth.
LEMMA GrownFields ==
  ASSUME NEW x, x \in Lexers, NEW b,
         NEW y, y = increase_buffer_capacity(x, b),
         NEW h, h = b.size \div 2
  PROVE  /\ y.asked = x.asked /\ y.match = x.match /\ y.state = x.state
         /\ y.type = x.type /\ y.first_delim = x.first_delim
         /\ b.first_half =>
              /\ y.match_pos = IF x.match_pos >= h THEN x.match_pos - h ELSE x.match_pos + h
              /\ LET l == IF x.last_match_pos >= h THEN x.last_match_pos - h
                          ELSE x.last_match_pos + h
                     s == IF x.start_pos > h THEN x.start_pos - h ELSE x.start_pos + h
                 IN /\ y.last_match_pos = IF l = 0 THEN b.size ELSE l
                    /\ y.start_pos = IF l = 0 THEN b.size ELSE s
         /\ ~b.first_half =>
              /\ y.match_pos = x.match_pos
              /\ y.last_match_pos = IF x.last_match_pos = 0 THEN b.size ELSE x.last_match_pos
              /\ y.start_pos = IF x.last_match_pos = 0 THEN b.size ELSE x.start_pos
<1>1. x = [ asked |-> x.asked, match |-> x.match, match_pos |-> x.match_pos,
            start_pos |-> x.start_pos, last_match_pos |-> x.last_match_pos,
            first_delim |-> x.first_delim, state |-> x.state, type |-> x.type ]
  BY DEF Lexers
<1>2. CASE b.first_half
  <2>1. PICK k, l, s :
          /\ k = IF x.match_pos >= h THEN x.match_pos - h ELSE x.match_pos + h
          /\ l = IF x.last_match_pos >= h THEN x.last_match_pos - h ELSE x.last_match_pos + h
          /\ s = IF x.start_pos > h THEN x.start_pos - h ELSE x.start_pos + h
    OBVIOUS
  <2>2. PICK z : z = [x EXCEPT !.match_pos = k, !.start_pos = s, !.last_match_pos = l]
    OBVIOUS
  <2>3. flip_states(x, b.size) = z
    BY <1>1, <2>1, <2>2 DEF flip_states
  <2>4. y = IF z.last_match_pos = 0
            THEN [z EXCEPT !.last_match_pos = b.size, !.start_pos = b.size] ELSE z
    BY <1>2, <2>3 DEF increase_buffer_capacity, flipped_static_buffer
  <2>5. z = [ asked |-> x.asked, match |-> x.match, match_pos |-> k,
              start_pos |-> s, last_match_pos |-> l,
              first_delim |-> x.first_delim, state |-> x.state, type |-> x.type ]
    BY <1>1, <2>2
  <2>6. y = [ asked |-> x.asked, match |-> x.match, match_pos |-> k,
              start_pos |-> IF l = 0 THEN b.size ELSE s,
              last_match_pos |-> IF l = 0 THEN b.size ELSE l,
              first_delim |-> x.first_delim, state |-> x.state, type |-> x.type ]
    BY <2>4, <2>5
  <2>7. QED
    BY <1>2, <2>1, <2>6
<1>3. CASE ~b.first_half
  <2>1. y = IF x.last_match_pos = 0
            THEN [x EXCEPT !.last_match_pos = b.size, !.start_pos = b.size] ELSE x
    BY <1>3 DEF increase_buffer_capacity, flipped_static_buffer
  <2>2. y = [ asked |-> x.asked, match |-> x.match, match_pos |-> x.match_pos,
              start_pos |-> IF x.last_match_pos = 0 THEN b.size ELSE x.start_pos,
              last_match_pos |-> IF x.last_match_pos = 0 THEN b.size ELSE x.last_match_pos,
              first_delim |-> x.first_delim, state |-> x.state, type |-> x.type ]
    BY <1>1, <2>1
  <2>3. QED
    BY <1>3, <2>2
<1>4. QED
  BY <1>2, <1>3

\* The position in the grown buffer of the byte at position p.
Grown(b, p) ==
  IF b.first_half
  THEN IF p > Half(b) THEN p - Half(b) ELSE p + Half(b)
  ELSE IF p = 0 THEN b.size ELSE p

LEMMA GrownPosition ==
  ASSUME NEW b, NEW n \in Nat, RingOf(b, n),
         b.first_half => b.last_read = Half(b),
         ~b.first_half => b.last_read \in {0, b.size},
         NEW p \in 0 .. b.size - 1
  PROVE  /\ Grown(b, p) \in 1 .. b.size
         /\ (n - b.size) + Grown(b, p) = OffsetOf(b, n, p)
<1>1. /\ Half(b) \in Nat /\ Half(b) > 0 /\ b.size = 2 * Half(b) /\ b.size \in Nat
      /\ b.last_read = 0 => n = 0
  BY RingFacts
<1>2. CASE b.first_half
  BY <1>1, <1>2 DEF Grown, OffsetOf
<1>3. CASE ~b.first_half
  BY <1>1, <1>3 DEF Grown, OffsetOf
<1>4. QED
  BY <1>2, <1>3

\* As long as growth misplaces nothing, every position of the lexer stands for the
\* same offset afterwards.
LEMMA GrownLexer ==
  ASSUME Sound, pc = "oob", ~misplaced_by_growth(lex, buf),
         NEW x, x = lex,
         NEW y, y = increase_buffer_capacity(x, buf),
         buf.first_half => buf.last_read = Half(buf) /\ buf.pos = Half(buf),
         ~buf.first_half => buf.last_read \in {0, buf.size} /\ buf.pos = 0
  PROVE  /\ y.last_match_pos = Grown(buf, x.last_match_pos)
         /\ y.start_pos = Grown(buf, x.start_pos)
         /\ x.match => y.match_pos = Grown(buf, x.match_pos)
         /\ x.first_delim # Unset => y.first_delim = Grown(buf, x.first_delim)
         /\ Grown(buf, buf.pos) = buf.size
<1>1. /\ read_off \in Nat /\ RingOf(buf, read_off)
      /\ x \in Lexers
      /\ x.start_pos \in 0 .. buf.size - 1
      /\ x.match_pos \in 0 .. buf.size - 1
      /\ x.last_match_pos \in 0 .. buf.size - 1
      /\ x.first_delim # Unset => x.first_delim \in 0 .. buf.size - 1
      /\ buf.pos \in 0 .. buf.size - 1
      /\ \A p \in 0 .. buf.size - 1 : Offset(p) \in Int /\ Offset(p) <= read_off
  BY SoundFacts
<1>2. /\ out_of_bounds(buf) /\ Offset(buf.pos) = read_off
      /\ Offset(x.last_match_pos) <= Offset(x.start_pos)
      /\ x.start_pos = buf.pos => x.last_match_pos = buf.pos
      /\ x.first_delim # Unset => Offset(x.last_match_pos) < Offset(x.first_delim)
                                  /\ Offset(x.first_delim) < Offset(buf.pos)
  BY OutOfBoundsFacts DEF MainInv
<1>3. /\ Half(buf) \in Nat /\ Half(buf) > 0 /\ buf.size = 2 * Half(buf)
      /\ buf.size \in Nat
  BY <1>1, RingFacts
<1>4. x.last_match_pos = buf.pos => x.start_pos = buf.pos
  <2>1. SUFFICES ASSUME x.last_match_pos = buf.pos PROVE x.start_pos = buf.pos
    OBVIOUS
  <2>2. Offset(x.start_pos) = Offset(buf.pos)
    BY <1>1, <1>2, <2>1
  <2>3. QED
    BY <1>1, <2>2, OffsetInjective DEF Offset
<1>5. CASE buf.first_half
  <2>1. buf.pos = Half(buf) /\ buf.last_read = Half(buf)
    BY <1>5
  <2>2. ~(x.first_delim # Unset) /\ (x.match => x.match_pos # Half(buf))
    BY <1>5 DEF misplaced_by_growth, flipped_static_buffer
  <2>3. PICK h, l, s :
          /\ h = Half(buf)
          /\ l = IF x.last_match_pos >= h THEN x.last_match_pos - h ELSE x.last_match_pos + h
          /\ s = IF x.start_pos > h THEN x.start_pos - h ELSE x.start_pos + h
    OBVIOUS
  <2>4. /\ y.match_pos = IF x.match_pos >= h THEN x.match_pos - h ELSE x.match_pos + h
        /\ y.last_match_pos = IF l = 0 THEN buf.size ELSE l
        /\ y.start_pos = IF l = 0 THEN buf.size ELSE s
    BY <1>1, <1>5, <2>3, GrownFields DEF Half
  <2>5. x.match => y.match_pos = Grown(buf, x.match_pos)
    BY <1>1, <1>3, <1>5, <2>2, <2>3, <2>4 DEF Grown
  <2>6. l = 0 <=> x.last_match_pos = h
    BY <1>1, <1>3, <2>3
  <2>7. y.last_match_pos = Grown(buf, x.last_match_pos)
    BY <1>1, <1>3, <1>5, <2>3, <2>4, <2>6 DEF Grown
  <2>8. y.start_pos = Grown(buf, x.start_pos)
    BY <1>1, <1>3, <1>4, <1>5, <2>1, <2>3, <2>4, <2>6 DEF Grown
  <2>9. Grown(buf, buf.pos) = buf.size
    BY <1>3, <1>5, <2>1 DEF Grown
  <2>10. QED
    BY <2>2, <2>5, <2>7, <2>8, <2>9
<1>6. CASE ~buf.first_half
  <2>1. buf.pos = 0
    BY <1>6
  <2>2. x.match => x.match_pos # 0
    BY <1>6 DEF misplaced_by_growth, flipped_static_buffer
  <2>3. /\ y.match_pos = x.match_pos
        /\ y.last_match_pos = IF x.last_match_pos = 0 THEN buf.size ELSE x.last_match_pos
        /\ y.start_pos = IF x.last_match_pos = 0 THEN buf.size ELSE x.start_pos
        /\ y.first_delim = x.first_delim
    <3>1. PICK h : h = buf.size \div 2
      OBVIOUS
    <3>2. QED
      BY <1>1, <1>6, <3>1, GrownFields
  <2>4. x.first_delim # Unset => x.first_delim # 0
    BY <1>1, <1>2, <2>1
  <2>5. y.start_pos = Grown(buf, x.start_pos)
    BY <1>2, <1>4, <1>6, <2>1, <2>3 DEF Grown
  <2>6. QED
    BY <1>6, <2>1, <2>2, <2>3, <2>4, <2>5 DEF Grown
<1>7. QED
  BY <1>5, <1>6

\* The byte i positions behind the first one of a token lies in the storage.
TokenIndex(t, i) ==
  IF t.start_pos + i < t.buffer_size THEN t.start_pos + i
  ELSE t.start_pos + i - t.buffer_size

LEMMA WrappedIndex ==
  ASSUME NEW t, t.start_pos \in Nat, t.end_pos \in Nat, t.buffer_size \in Nat,
         t.start_pos < t.buffer_size, t.end_pos < t.buffer_size,
         NEW i \in Nat, i < TokenLength(t)
  PROVE  TokenIndex(t, i) \in Nat /\ TokenIndex(t, i) < t.buffer_size
<1>1. PICK u \in Nat, v \in Nat, z \in Nat :
        /\ u = t.start_pos /\ v = t.end_pos /\ z = t.buffer_size
        /\ u < z /\ v < z
  OBVIOUS
<1>2. i < IF u <= v THEN v - u ELSE (z - u) + v
  BY <1>1 DEF TokenLength
<1>3. PICK p : p = IF u + i < z THEN u + i ELSE (u + i) - z
  OBVIOUS
<1>4. p \in Nat /\ p < z
  <2>1. u < z /\ v < z
    BY <1>1
  <2>2. QED
    BY <1>2, <1>3, <2>1
<1>5. p = TokenIndex(t, i)
  BY <1>1, <1>3 DEF TokenIndex
<1>6. QED
  BY <1>1, <1>4, <1>5

\* The storage of buffer b is retired.
Retired(new, old, b) == new = Append(old, b.storage)

\* A byte of the storage that was active is found in the retired one.
LEMMA RetiredByte ==
  ASSUME NEW old \in Seq(Storages), NEW b, b.storage \in Storages,
         NEW new, Retired(new, old, b),
         NEW c, NEW t \in Tokens, NEW a, Spells(old, b, t, a),
         NEW p \in Nat, p < t.buffer_size
  PROVE  ByteIn(new, c, t, p) = ByteIn(old, b, t, p)
<1>1. PICK m \in Nat : m = Len(old)
  OBVIOUS
<1>2. PICK e \in Storages : e = b.storage
  OBVIOUS
<1>3. /\ Len(new) = m + 1 /\ new[m + 1] = b.storage
      /\ \A k \in 1 .. m : new[k] = old[k]
  BY <1>1, <1>2 DEF Retired
<1>4. /\ t.buffer \in Nat /\ 0 < t.buffer /\ t.buffer <= m + 1
      /\ t.buffer = m + 1 => t.buffer_size = b.size
  BY <1>1 DEF Spells, Tokens
<1>5. CASE t.buffer = m + 1
  <2>1. ByteIn(new, c, t, p) = b.storage[p]
    BY <1>3, <1>4, <1>5 DEF ByteIn
  <2>2. ByteIn(old, b, t, p) = b.storage[p]
    BY <1>1, <1>4, <1>5 DEF ByteIn
  <2>3. QED
    BY <2>1, <2>2
<1>6. CASE t.buffer # m + 1
  <2>1. t.buffer \in 1 .. m
    BY <1>1, <1>4, <1>6
  <2>2. QED
    BY <1>1, <1>3, <2>1 DEF ByteIn
<1>7. QED
  BY <1>5, <1>6

\* A token of the view is the same text when its storage has been retired.
LEMMA SpellsRetired ==
  ASSUME NEW old \in Seq(Storages), NEW b, b.storage \in Storages,
         NEW new, Retired(new, old, b),
         NEW c, NEW t, NEW a, Spells(old, b, t, a)
  PROVE  /\ Spells(new, c, t, a)
         /\ EndIn(new, c, t) = EndIn(old, b, t)
<1>1. PICK m \in Nat : m = Len(old)
  OBVIOUS
<1>2. PICK e \in Storages : e = b.storage
  OBVIOUS
<1>3. Len(new) = m + 1
  BY <1>1, <1>2 DEF Retired
<1>4. /\ t \in Tokens
      /\ t.start_pos \in Nat /\ t.end_pos \in Nat /\ t.buffer \in Nat
      /\ t.buffer_size \in Nat
      /\ t.start_pos < t.buffer_size /\ t.end_pos < t.buffer_size
      /\ 0 < t.buffer /\ t.buffer <= m + 1
  BY <1>1 DEF Spells, Tokens
<1>5. ASSUME NEW p \in Nat, p < t.buffer_size
      PROVE  ByteIn(new, c, t, p) = ByteIn(old, b, t, p)
  <2>1. PICK u \in Tokens : u = t
    BY <1>4
  <2>2. ByteIn(new, c, u, p) = ByteIn(old, b, u, p)
    BY <1>5, <2>1, RetiredByte
  <2>3. QED
    BY <2>1, <2>2
<1>6. EndIn(new, c, t) = EndIn(old, b, t)
  <2>1. PICK p : p = IF t.end_pos = 0 THEN t.buffer_size - 1 ELSE t.end_pos - 1
    OBVIOUS
  <2>2. p \in Nat /\ p < t.buffer_size
    BY <1>4, <2>1
  <2>3. ByteIn(new, c, t, p) = ByteIn(old, b, t, p)
    BY <1>5, <2>2
  <2>4. QED
    BY <2>1, <2>3 DEF EndIn
<1>7. ASSUME NEW i \in 0 .. TokenLength(t) - 1
      PROVE  ByteIn(new, c, t, IF t.start_pos + i < t.buffer_size THEN t.start_pos + i
                               ELSE t.start_pos + i - t.buffer_size) = a + i
  <2>1. PICK p : p = IF t.start_pos + i < t.buffer_size THEN t.start_pos + i
                     ELSE t.start_pos + i - t.buffer_size
    OBVIOUS
  <2>2. p \in Nat /\ p < t.buffer_size
    <3>1. PICK u \in Nat, v \in Nat, z \in Nat :
            /\ u = t.start_pos /\ v = t.end_pos /\ z = t.buffer_size
            /\ u < z /\ v < z
      BY <1>4
    <3>2. TokenLength(t) = IF u <= v THEN v - u ELSE (z - u) + v
      BY <3>1 DEF TokenLength
    <3>3. i < TokenLength(t) /\ i \in Nat
      BY <3>1, <3>2
    <3>4. TokenIndex(t, i) \in Nat /\ TokenIndex(t, i) < t.buffer_size
      BY <1>4, <3>3, WrappedIndex
    <3>5. p = TokenIndex(t, i)
      BY <2>1 DEF TokenIndex
    <3>6. QED
      BY <3>4, <3>5
  <2>3. ByteIn(old, b, t, p) = a + i
    BY <2>1 DEF Spells
  <2>4. QED
    BY <1>5, <2>1, <2>2, <2>3
<1>8. /\ t.buffer <= Len(new) + 1
      /\ t.buffer = Len(new) + 1 => t.buffer_size = c.size
  BY <1>3, <1>4
<1>9. EndIn(old, b, t) = a + TokenLength(t)
  BY DEF Spells
<1>10. QED
  BY <1>4, <1>6, <1>7, <1>8, <1>9 DEF Spells

\* ... and so is the view.
LEMMA ChainRetired ==
  ASSUME NEW old \in Seq(Storages), NEW b, b.storage \in Storages, NEW c,
         NEW new, Retired(new, old, b),
         NEW s \in Seq(Tokens), NEW f, Chain(old, b, s, f)
  PROVE  /\ Chain(new, c, s, f)
         /\ NextIn(new, c, s, f) = NextIn(old, b, s, f)
<1>1. \A t, a : Spells(old, b, t, a) => /\ Spells(new, c, t, a)
                                        /\ EndIn(new, c, t) = EndIn(old, b, t)
  BY SpellsRetired
<1>2. PICK m \in Nat : m = Len(s)
  OBVIOUS
<1>3. \A k \in 1 .. m : EndIn(new, c, s[k]) = EndIn(old, b, s[k])
  BY <1>1, <1>2 DEF Chain
<1>4. ASSUME NEW k \in 1 .. m
      PROVE  Spells(new, c, s[k], IF k = 1 THEN f ELSE EndIn(new, c, s[k - 1]))
  <2>1. Spells(new, c, s[k], IF k = 1 THEN f ELSE EndIn(old, b, s[k - 1]))
    BY <1>1, <1>2 DEF Chain
  <2>2. k # 1 => k - 1 \in 1 .. m
    BY <1>2
  <2>3. QED
    BY <1>3, <2>1, <2>2
<1>5. s # << >> => m \in 1 .. m
  BY <1>2
<1>6. QED
  BY <1>2, <1>3, <1>4, <1>5 DEF Chain, NextIn

\* The lexer in the grown buffer, whatever was read into it.
LEMMA GrowKeepsLexer ==
  ASSUME Sound, pc = "oob", ~misplaced_by_growth(lex, buf), pc' = "parse",
         lex' = increase_buffer_capacity(lex, buf),
         buf.first_half => buf.last_read = Half(buf) /\ buf.pos = Half(buf),
         ~buf.first_half => buf.last_read \in {0, buf.size} /\ buf.pos = 0,
         NEW c, c = buf', NEW m, m = read_off', c.pos = buf.size,
         \A p \in 0 .. buf.size :
           Needed <= (read_off - buf.size) + p => OffsetOf(c, m, p) = (read_off - buf.size) + p
  PROVE  /\ LexerInv'
         /\ Pending' = lex'.last_match_pos
         /\ lex'.asked /\ lex'.match = lex.match /\ lex'.state = lex.state
         /\ lex'.type = lex.type /\ lex'.first_delim = lex.first_delim
         /\ OffsetOf(c, m, lex'.last_match_pos) = Offset(lex.last_match_pos)
         /\ OffsetOf(c, m, lex'.start_pos) = Offset(lex.start_pos)
         /\ OffsetOf(c, m, c.pos) = Offset(buf.pos)
         /\ lex.match => OffsetOf(c, m, lex'.match_pos) = Offset(lex.match_pos)
         /\ lex.first_delim # Unset =>
              OffsetOf(c, m, lex'.first_delim) = Offset(lex.first_delim)
<1>1. PICK x, y : x = lex /\ y = lex'
  OBVIOUS
<1>2. /\ read_off \in Nat /\ RingOf(buf, read_off) /\ buf.size \in Nat
      /\ x \in Lexers
      /\ x.start_pos \in 0 .. buf.size - 1
      /\ x.match_pos \in 0 .. buf.size - 1
      /\ x.last_match_pos \in 0 .. buf.size - 1
      /\ x.first_delim # Unset => x.first_delim \in 0 .. buf.size - 1
      /\ buf.pos \in 0 .. buf.size - 1
      /\ \A p \in 0 .. buf.size - 1 : Offset(p) \in Int /\ Offset(p) <= read_off
  BY <1>1, SoundFacts
<1>3. /\ x.asked /\ Needed = Offset(x.last_match_pos)
      /\ out_of_bounds(buf)
      /\ Offset(buf.pos) = read_off
      /\ Offset(x.last_match_pos) <= Offset(x.start_pos)
      /\ Offset(x.start_pos) <= Offset(buf.pos)
      /\ x.match => /\ Offset(x.start_pos) < Offset(x.match_pos)
                    /\ Offset(x.match_pos) <= Offset(buf.pos)
                    /\ x.type \notin {NoType, TokenEnd}
      /\ x.start_pos = buf.pos => ~is_accepting(x.state) /\ x.last_match_pos = buf.pos
      /\ x.first_delim # Unset =>
           /\ Offset(x.last_match_pos) < Offset(x.first_delim)
           /\ Offset(x.first_delim) < Offset(buf.pos)
  BY <1>1, OutOfBoundsFacts DEF MainInv
<1>4. /\ y.last_match_pos = Grown(buf, x.last_match_pos)
      /\ y.start_pos = Grown(buf, x.start_pos)
      /\ x.match => y.match_pos = Grown(buf, x.match_pos)
      /\ x.first_delim # Unset => y.first_delim = Grown(buf, x.first_delim)
      /\ Grown(buf, buf.pos) = buf.size
  BY <1>1, GrownLexer
<1>5. /\ y.asked = x.asked /\ y.match = x.match /\ y.state = x.state
      /\ y.type = x.type /\ y.first_delim = x.first_delim
  <2>1. PICK h : h = buf.size \div 2
    OBVIOUS
  <2>2. QED
    BY <1>1, <1>2, <2>1, GrownFields
<1>6. ASSUME NEW p \in 0 .. buf.size - 1, Needed <= Offset(p)
      PROVE  OffsetOf(c, m, Grown(buf, p)) = Offset(p)
  <2>1. /\ Grown(buf, p) \in 1 .. buf.size
        /\ (read_off - buf.size) + Grown(buf, p) = OffsetOf(buf, read_off, p)
    BY <1>2, GrownPosition
  <2>2. Grown(buf, p) \in 0 .. buf.size
    BY <1>2, <2>1
  <2>3. QED
    BY <1>6, <2>1, <2>2 DEF Offset
<1>7. /\ OffsetOf(c, m, y.last_match_pos) = Offset(x.last_match_pos)
      /\ OffsetOf(c, m, y.start_pos) = Offset(x.start_pos)
      /\ OffsetOf(c, m, c.pos) = Offset(buf.pos)
      /\ x.match => OffsetOf(c, m, y.match_pos) = Offset(x.match_pos)
      /\ x.first_delim # Unset => OffsetOf(c, m, y.first_delim) = Offset(x.first_delim)
  <2>1. /\ Needed <= Offset(x.last_match_pos) /\ Needed <= Offset(x.start_pos)
        /\ Needed <= Offset(buf.pos)
        /\ x.match => Needed <= Offset(x.match_pos)
        /\ x.first_delim # Unset => Needed <= Offset(x.first_delim)
    BY <1>2, <1>3
  <2>2. QED
    BY <1>2, <1>4, <1>6, <2>1
<1>8. y.start_pos = c.pos =>
        /\ ~is_accepting(y.state)
        /\ y.last_match_pos = c.pos
  <2>1. SUFFICES ASSUME y.start_pos = c.pos
                 PROVE  ~is_accepting(y.state) /\ y.last_match_pos = c.pos
    OBVIOUS
  <2>2. Offset(x.start_pos) = Offset(buf.pos)
    BY <1>7, <2>1
  <2>3. x.start_pos = buf.pos
    BY <1>2, <2>2, OffsetInjective DEF Offset
  <2>4. QED
    BY <1>3, <1>4, <1>5, <2>3
<1>9. MainInv'
  <2>1. /\ OffsetOf(c, m, y.last_match_pos) <= OffsetOf(c, m, y.start_pos)
        /\ OffsetOf(c, m, y.start_pos) <= OffsetOf(c, m, c.pos)
        /\ y.match => /\ OffsetOf(c, m, y.start_pos) < OffsetOf(c, m, y.match_pos)
                      /\ OffsetOf(c, m, y.match_pos) <= OffsetOf(c, m, c.pos)
                      /\ y.type \notin {NoType, TokenEnd}
        /\ y.first_delim # Unset =>
             /\ OffsetOf(c, m, y.last_match_pos) < OffsetOf(c, m, y.first_delim)
             /\ OffsetOf(c, m, y.first_delim) < OffsetOf(c, m, c.pos)
    BY <1>3, <1>5, <1>7
  <2>2. QED
    BY <1>1, <1>8, <2>1 DEF MainInv, Offset
<1>10. LexerInv'
  BY <1>1, <1>3, <1>5, <1>9 DEF LexerInv, RestInv, SkipInv
<1>11. Pending' = lex'.last_match_pos
  BY <1>1, <1>3, <1>5 DEF Pending
<1>12. QED
  BY <1>1, <1>3, <1>5, <1>7, <1>10, <1>11

\* What growth leaves as it was, and what has moved.
LEMMA GrowthFacts ==
  ASSUME Sound, IncreaseCapacity, "text" \in intact'
  PROVE  /\ pc = "oob" /\ pc' = "parse"
         /\ UNCHANGED <<log, out, start_of_log, tok, done, from>>
         /\ buf'.fully_consumed = buf.fully_consumed
         /\ RingOf(buf', read_off') /\ KeepsFrom(buf', read_off', Needed)
         /\ buf'.finished => read_off' = Len(log)
         /\ LexerInv'
         /\ Pending' = lex'.last_match_pos
         /\ lex'.asked /\ lex'.match = lex.match /\ lex'.state = lex.state
         /\ lex'.type = lex.type /\ lex'.first_delim = lex.first_delim
         /\ OffsetOf(buf', read_off', lex'.last_match_pos) = Offset(lex.last_match_pos)
         /\ OffsetOf(buf', read_off', lex'.start_pos) = Offset(lex.start_pos)
         /\ OffsetOf(buf', read_off', buf'.pos) = Offset(buf.pos)
         /\ lex.match => OffsetOf(buf', read_off', lex'.match_pos) = Offset(lex.match_pos)
         /\ lex.first_delim # Unset =>
              OffsetOf(buf', read_off', lex'.first_delim) = Offset(lex.first_delim)
         /\ retired' \in Seq(Storages)
         /\ EventTokens' = EventTokens
         /\ Chain(retired', buf', EventTokens, from)
         /\ NextFrom' = NextFrom
<1>1. PICK g : g = increase_capacity(buf)
  OBVIOUS
<1>2. /\ pc = "oob"
      /\ lex' = increase_buffer_capacity(lex, buf)
      /\ retired' = Append(retired, buf.storage)
      /\ ReadInto(g) /\ pc' = "parse" /\ intact' = StillIntact
      /\ UNCHANGED <<log, out, start_of_log, tok, done, from>>
  BY <1>1 DEF IncreaseCapacity
<1>3. ~misplaced_by_growth(lex, buf)
  BY <1>2 DEF StillIntact
<1>4. /\ log \in Seq(Chars) /\ read_off \in 0 .. Len(log)
      /\ read_off \in Nat
      /\ IsBuffer(buf) /\ RingOf(buf, read_off)
      /\ Needed \in Int /\ Needed >= -1 /\ KeepsFrom(buf, read_off, Needed)
      /\ buf.finished => read_off = Len(log)
      /\ buf.size \in Nat /\ buf.pos \in 0 .. buf.size - 1
      /\ from \in Nat /\ from <= NextFrom /\ NextFrom \in Int
  BY SoundFacts
<1>5. /\ out_of_bounds(buf) /\ ~buf.fully_consumed
      /\ start_of_log = NoToken /\ ~done /\ done \in BOOLEAN
      /\ retired \in Seq(Storages)
      /\ Needed = NextFrom /\ Needed = Offset(lex.last_match_pos)
      /\ OffsetOf(buf, read_off, buf.pos) = read_off
  BY <1>2, OutOfBoundsFacts DEF Offset
<1>6. /\ IsBuffer(g) /\ g.size = 2 * buf.size /\ g.pos = buf.size
      /\ g.finished = buf.finished /\ g.fully_consumed = buf.fully_consumed
      /\ RingOf(g, read_off) /\ KeepsFrom(g, read_off, Needed)
      /\ \A p \in 0 .. buf.size : OffsetOf(g, read_off, p) = (read_off - buf.size) + p
      /\ buf.first_half => /\ buf.last_read = Half(buf) /\ buf.pos = Half(buf)
      /\ ~buf.first_half => /\ buf.last_read \in {0, buf.size} /\ buf.pos = 0
  BY <1>1, <1>4, <1>5, GrowKeeps
<1>7. PICK c, m : c = buf' /\ m = read_off'
  OBVIOUS
<1>8. /\ c.pos = buf.size
      /\ c.fully_consumed = buf.fully_consumed
      /\ RingOf(c, m) /\ KeepsFrom(c, m, Needed)
      /\ c.finished => m = Len(log)
      /\ \A p \in 0 .. g.size - 1 :
           Needed <= OffsetOf(g, read_off, p)
             => OffsetOf(c, m, p) = OffsetOf(g, read_off, p)
  BY <1>2, <1>4, <1>6, <1>7, ReadIntoKeeps
<1>9. \A p \in 0 .. buf.size :
        Needed <= (read_off - buf.size) + p
          => OffsetOf(c, m, p) = (read_off - buf.size) + p
  <2>1. SUFFICES ASSUME NEW p \in 0 .. buf.size, Needed <= (read_off - buf.size) + p
                 PROVE  OffsetOf(c, m, p) = (read_off - buf.size) + p
    OBVIOUS
  <2>2. p \in 0 .. g.size - 1
    BY <1>4, <1>6
  <2>3. QED
    BY <1>6, <1>8, <2>1, <2>2
<1>10. /\ LexerInv'
       /\ Pending' = lex'.last_match_pos
       /\ lex'.asked /\ lex'.match = lex.match /\ lex'.state = lex.state
       /\ lex'.type = lex.type /\ lex'.first_delim = lex.first_delim
       /\ OffsetOf(c, m, lex'.last_match_pos) = Offset(lex.last_match_pos)
       /\ OffsetOf(c, m, lex'.start_pos) = Offset(lex.start_pos)
       /\ OffsetOf(c, m, c.pos) = Offset(buf.pos)
       /\ lex.match => OffsetOf(c, m, lex'.match_pos) = Offset(lex.match_pos)
       /\ lex.first_delim # Unset =>
            OffsetOf(c, m, lex'.first_delim) = Offset(lex.first_delim)
  BY <1>2, <1>3, <1>6, <1>7, <1>8, <1>9, GrowKeepsLexer
<1>11. buf.storage \in Storages
  <2>1. buf.storage \in [0 .. buf.size - 1 -> Unset .. read_off - 1]
    BY DEF Sound, TypeInv, StorageOf
  <2>2. Unset .. read_off - 1 \subseteq Int
    BY <1>4 DEF Unset
  <2>3. buf.storage \in [0 .. buf.size - 1 -> Int]
    BY <2>1, <2>2
  <2>4. QED
    BY <1>4, <2>3 DEF Storages
<1>12. retired' \in Seq(Storages)
  BY <1>2, <1>5, <1>11
<1>13. /\ out \in Views
       /\ out.has_header => out.slot0 \in Tokens
       /\ ~out.started => out = out_reset
       /\ out.started => EventTokens # << >>
       /\ Chain(retired, buf, EventTokens, from)
  BY <1>2 DEF Sound, TextInv, ViewInv, Views, Chain
<1>14. EventTokens' = EventTokens
  BY <1>2 DEF EventTokens
<1>15. EventTokens \in Seq(Tokens)
  <2>1. out.rest \in Seq(Tokens)
    BY <1>13 DEF Views
  <2>2. out.has_header => <<out.slot0>> \o out.rest \in Seq(Tokens)
    BY <1>13, <2>1, HeaderFirst
  <2>3. QED
    BY <2>1, <2>2 DEF EventTokens
<1>16. /\ Chain(retired', c, EventTokens, from)
       /\ NextIn(retired', c, EventTokens, from) = NextFrom
  <2>1. PICK s \in Seq(Tokens), old \in Seq(Storages) : s = EventTokens /\ old = retired
    BY <1>5, <1>15
  <2>2. PICK new, b, f : new = retired' /\ b = buf /\ f = from
    OBVIOUS
  <2>3. Retired(new, old, b) /\ b.storage \in Storages /\ Chain(old, b, s, f)
    BY <1>2, <1>11, <1>13, <2>1, <2>2 DEF Retired
  <2>4. Chain(new, c, s, f) /\ NextIn(new, c, s, f) = NextIn(old, b, s, f)
    BY <2>3, ChainRetired
  <2>5. NextFrom = NextIn(old, b, s, f)
    BY <2>1, <2>2, NextFromIn
  <2>6. QED
    BY <2>1, <2>2, <2>4, <2>5
<1>17. NextFrom' = NextFrom
  BY <1>2, <1>7, <1>14, <1>16, NextFromIn
<1>18. QED
  BY <1>2, <1>7, <1>8, <1>10, <1>12, <1>14, <1>16, <1>17

\* parse_next_event grows the buffer and goes on.
LEMMA IncreaseCapacityText ==
  ASSUME Sound, IncreaseCapacity, "text" \in intact'
  PROVE  TextInv'
<1>1. PICK c, m : c = buf' /\ m = read_off'
  OBVIOUS
<1>2. /\ pc = "oob" /\ pc' = "parse"
      /\ UNCHANGED <<log, out, start_of_log, tok, done, from>>
      /\ c.fully_consumed = buf.fully_consumed
      /\ RingOf(c, m) /\ KeepsFrom(c, m, Needed)
      /\ c.finished => m = Len(log)
      /\ LexerInv'
      /\ Pending' = lex'.last_match_pos
      /\ OffsetOf(c, m, lex'.last_match_pos) = Offset(lex.last_match_pos)
      /\ retired' \in Seq(Storages)
      /\ EventTokens' = EventTokens
      /\ Chain(retired', c, EventTokens, from)
      /\ NextFrom' = NextFrom
  BY <1>1, GrowthFacts
<1>3. /\ ~buf.fully_consumed
      /\ start_of_log = NoToken /\ ~done /\ done \in BOOLEAN
      /\ Needed = NextFrom /\ Needed = Offset(lex.last_match_pos)
  BY <1>2, OutOfBoundsFacts
<1>4. Needed' = Needed
  BY <1>2 DEF Needed
<1>5. BufferInv'
  BY <1>1, <1>2, <1>3, <1>4 DEF BufferInv
<1>6. KeptInv' /\ TokenInv'
  BY <1>2, <1>3 DEF KeptInv, TokenInv
<1>7. ViewInv'
  <2>1. ViewInv
    BY DEF Sound, TextInv
  <2>2. QED
    BY <1>1, <1>2, <2>1 DEF ViewInv, Chain
<1>8. SeamInv'
  <2>1. Seam' = lex'.last_match_pos
    BY <1>2, <1>3 DEF Seam
  <2>2. Offset(Seam)' = NextFrom
    BY <1>1, <1>2, <1>3, <2>1 DEF Offset
  <2>3. from \in Nat /\ from <= NextFrom
    BY SoundFacts
  <2>4. QED
    BY <1>2, <1>3, <2>2, <2>3 DEF SeamInv
<1>9. QED
  BY <1>2, <1>3, <1>5, <1>6, <1>7, <1>8 DEF TextInv

\* The parser as reset leaves it, with a log and no token kept from another one.
FreshReader ==
  /\ log \in Seq(Chars) /\ read_off = 0
  /\ buf = reset(StaticSize)
  /\ retired = << >>
  /\ lex = prepend_start_of_file_char(lexer_reset, reset(StaticSize))
  /\ out = out_reset
  /\ start_of_log = NoToken
  /\ pc = "ready"
  /\ done = FALSE
  /\ from = 0

\* An empty buffer.
LEMMA FreshBuffer ==
  ASSUME NEW b, b = reset(StaticSize)
  PROVE  /\ IsBuffer(b) /\ RingOf(b, 0) /\ KeepsFrom(b, 0, 0)
         /\ b.size > 0 /\ b.size \in Nat /\ b.pos = 0
         /\ ~b.finished /\ ~b.fully_consumed
         /\ OffsetOf(b, 0, 0) = 0
<1>1. PICK h \in 1 .. StaticSize : StaticSize = 2 * h
  BY ReaderAssumption
<1>2. StaticSize \in Nat /\ h \in Nat /\ h > 0
  BY <1>1, ReaderAssumption
<1>3. /\ IsBuffer(b)
      /\ b.size = StaticSize /\ b.pos = 0 /\ b.last_read = 0
      /\ b.first_half = FALSE /\ b.finished = FALSE /\ b.fully_consumed = FALSE
      /\ b.consumed_pos = StaticSize - 1
  BY DEF reset, IsBuffer
<1>4. Half(b) = h
  BY <1>1, <1>2, <1>3 DEF Half
<1>5. TwoHalves(b)
  BY <1>1, <1>3 DEF TwoHalves
<1>6. RingOf(b, 0)
  <2>1. b.size \in Nat /\ b.last_read \in 0 .. b.size /\ b.consumed_pos \in 0 .. b.size
    BY <1>1, <1>2, <1>3
  <2>2. /\ b.first_half \in BOOLEAN /\ b.finished \in BOOLEAN
        /\ b.fully_consumed \in BOOLEAN
    BY <1>3
  <2>3. b.last_read = 0 /\ ~b.first_half
    BY <1>3
  <2>4. QED
    BY <1>5, <2>1, <2>2, <2>3 DEF RingOf
<1>7. KeepsFrom(b, 0, 0)
  <2>1. \A i \in 0 .. b.size - 1 :
          0 <= OffsetOf(b, 0, i) /\ OffsetOf(b, 0, i) < 0
            => b.storage[i] = OffsetOf(b, 0, i)
    BY <1>2, <1>3 DEF OffsetOf
  <2>2. 0 > 0 - Half(b)
    BY <1>2, <1>4
  <2>3. QED
    BY <1>3, <2>1, <2>2, KeepsFields
<1>8. OffsetOf(b, 0, 0) = 0
  BY <1>2, <1>3 DEF OffsetOf
<1>9. QED
  BY <1>2, <1>3, <1>6, <1>7, <1>8

\* A fresh reader satisfies the invariant.
LEMMA FreshText == FreshReader => TextInv
<1> SUFFICES ASSUME FreshReader PROVE TextInv
  OBVIOUS
<1> USE DEF FreshReader
<1>1. /\ RingOf(buf, 0) /\ KeepsFrom(buf, 0, 0)
      /\ buf.pos = 0 /\ ~buf.finished /\ ~buf.fully_consumed
      /\ OffsetOf(buf, 0, 0) = 0
  BY FreshBuffer
<1>2. Offset(0) = 0
  BY <1>1 DEF Offset
<1>3. /\ lex.asked /\ ~lex.match
      /\ lex.start_pos = 0 /\ lex.last_match_pos = 0
      /\ lex.first_delim = Unset /\ lex.state = StartOfFile
  <2>1. reset(StaticSize).pos = 0
    BY DEF reset
  <2>2. PICK z : z = lexer_reset
    OBVIOUS
  <2>3. lex = [z EXCEPT !.state = StartOfFile, !.asked = TRUE, !.start_pos = 0,
                        !.match_pos = 0, !.type = NoType]
    BY <2>1, <2>2 DEF prepend_start_of_file_char
  <2>4. QED
    BY <2>2, <2>3 DEF lexer_reset
<1>4. out \in Views /\ ~out.started /\ ~out.has_header /\ out.rest = << >>
  BY EmptyView
<1>5. EventTokens = << >>
  BY <1>4 DEF EventTokens
<1>6. NextFrom = 0 /\ Needed = 0
  <2>1. NextFrom = 0
    BY <1>5 DEF NextFrom
  <2>2. QED
    BY <2>1 DEF Needed
<1>7. BufferInv
  BY <1>1, <1>6 DEF BufferInv
<1>8. LexerInv
  <2>1. ~is_accepting(StartOfFile)
    BY RulesAssumption DEF is_accepting
  <2>2. MainInv
    BY <1>1, <1>2, <1>3, <2>1 DEF MainInv
  <2>3. QED
    BY <1>3, <2>2 DEF LexerInv, RestInv, SkipInv
<1>9. TokenInv /\ KeptInv
  BY DEF TokenInv, KeptInv
<1>10. ViewInv
  <2>1. Len(EventTokens) = 0
    BY <1>5
  <2>2. QED
    BY <1>4, <2>1 DEF ViewInv, Views
<1>11. SeamInv
  <2>1. Seam = 0
    BY <1>3 DEF Seam, Pending
  <2>2. QED
    BY <1>2, <1>6, <2>1 DEF SeamInv
<1>12. retired \in Seq(Storages) /\ done \in BOOLEAN /\ ~done
  <2>1. << >> \in Seq(Storages)
    OBVIOUS
  <2>2. QED
    BY <2>1
<1>13. QED
  BY <1>7, <1>8, <1>9, <1>10, <1>11, <1>12 DEF TextInv

\* The initial states.
LEMMA InitTextInv == Init => TextInv
<1>1. Init => FreshReader
  BY ReaderAssumption DEF Init, FreshReader
<1>2. QED
  BY <1>1, FreshText

\* Another reader is set while no token is kept from the log before.
LEMMA ResetText ==
  ASSUME ResetAndSetReader, "text" \in intact'
  PROVE  TextInv'
<1>1. PICK l \in NextLogs : ResetTo(l)
  BY DEF ResetAndSetReader
<1>2. log' \in Seq(Chars)
  BY <1>1, ReaderAssumption DEF ResetTo
<1>3. start_of_log = NoToken
  BY DEF ResetAndSetReader
<1>4. FreshReader'
  BY <1>1, <1>2, <1>3 DEF ResetAndSetReader, ResetTo, FreshReader
<1>5. FreshReader' => TextInv'
  BY FreshText, PTL
<1>6. QED
  BY <1>4, <1>5

-----------------------------------------------------------------------------
(***************************************************************************)
(* The text of the events.                                                 *)
(***************************************************************************)

\* Every step keeps the invariant.
LEMMA NextTextInv == TypeInv /\ TextInv /\ [Next]_vars => TextInv'
<1> SUFFICES ASSUME TypeInv, TextInv, [Next]_vars PROVE TextInv'
  OBVIOUS
<1>1. CASE "text" \notin intact'
  BY <1>1 DEF TextInv
<1>2. CASE "text" \in intact' /\ ResetAndSetReader
  BY <1>2, ResetText
<1>3. CASE "text" \in intact' /\ IncreaseCapacity
  <2>1. intact' = StillIntact \/ intact' = {}
    BY <1>3 DEF IncreaseCapacity
  <2>2. "text" \in intact
    BY <1>3, <2>1 DEF StillIntact
  <2>3. QED
    BY <1>3, <2>2, IncreaseCapacityText DEF Sound
<1>4. CASE "text" \in intact' /\ (ParseNextEvent \/ Scan \/ Parse)
  <2>1. intact' = intact
    <3>1. CASE ParseNextEvent
      BY <3>1 DEF ParseNextEvent
    <3>2. CASE Scan
      BY <3>2 DEF Scan, ScanResume, ScanPrepared, ScanFresh, ScanOutOfBounds, ScanNewline,
         ScanContinue, ScanMatch, ScanLastText, ScanEnd, ScanUncaught, ScanSkip,
         SkipCharacter, SkipOutOfBounds, SkipEnd, parse_vars, history
    <3>3. CASE Parse
      BY <3>3 DEF Parse, UseStartOfLog, GetNextSymbol, FirstTokenNewline, FirstToken,
         NextTokenEnd, NextTokenNewline, NextTokenStart, NextToken, parse_vars, history
    <3>4. QED
      BY <1>4, <3>1, <3>2, <3>3
  <2>2. Sound
    BY <1>4, <2>1 DEF Sound
  <2>3. QED
    BY <1>4, <2>2, ParseNextEventText, ScanText, ParseText
<1>5. CASE UNCHANGED vars
  <2>1. UNCHANGED <<log, read_off, buf, retired, lex, out, start_of_log, tok, skip, pc,
                    done, from, intact>>
    BY <1>5 DEF vars, history
  <2>2. /\ EventTokens' = EventTokens /\ Pending' = Pending /\ Seam' = Seam
        /\ NextFrom' = NextFrom /\ \A p : Offset(p)' = Offset(p)
    <3>1. EventTokens' = EventTokens /\ Pending' = Pending
      BY <2>1 DEF EventTokens, Pending
    <3>2. Seam' = Seam
      BY <2>1, <3>1 DEF Seam
    <3>3. NextFrom' = NextFrom
      BY <2>1, <3>1, NextFromIn DEF NextIn
    <3>4. \A p : Offset(p)' = Offset(p)
      BY <2>1 DEF Offset
    <3>5. QED
      BY <3>1, <3>2, <3>3, <3>4
  <2>3. BufferInv' = BufferInv
    BY <2>1, <2>2 DEF BufferInv, Needed
  <2>4. LexerInv' = LexerInv
    BY <2>1 DEF LexerInv, RestInv, MainInv, SkipInv, Offset
  <2>5. TokenInv' = TokenInv
    BY <2>1, <2>2 DEF TokenInv, Current, Offset
  <2>6. KeptInv' = KeptInv
    BY <2>1, <2>2 DEF KeptInv, Current, Offset
  <2>7. ViewInv' = ViewInv
    BY <2>1, <2>2 DEF ViewInv
  <2>8. SeamInv' = SeamInv
    BY <2>1, <2>2 DEF SeamInv, Offset
  <2>9. QED
    BY <2>1, <2>3, <2>4, <2>5, <2>6, <2>7, <2>8 DEF TextInv
<1>6. QED
  BY <1>1, <1>2, <1>3, <1>4, <1>5 DEF Next

\* A token that spells the text from offset a on has that text.
LEMMA SpelledText ==
  ASSUME NEW t, NEW a, Spells(retired, buf, t, a)
  PROVE  TokenText(t) = [i \in 1 .. TokenLength(t) |-> a + i - 1]
<1>1. \A p : TokenByte(t, p) = ByteIn(retired, buf, t, p)
  BY DEF TokenByte, ByteIn
<1>2. /\ t.start_pos \in Nat /\ t.end_pos \in Nat /\ t.buffer_size \in Nat
      /\ t.start_pos < t.buffer_size
  BY DEF Spells, Tokens
<1>3. TokenLength(t) \in Int
  BY <1>2 DEF TokenLength
<1>4. ASSUME NEW i \in 1 .. TokenLength(t)
      PROVE  TokenByte(t, LET p == t.start_pos + i - 1
                          IN IF p < t.buffer_size THEN p ELSE p - t.buffer_size) = a + i - 1
  <2>1. PICK j \in 0 .. TokenLength(t) - 1 : j = i - 1
    BY <1>3
  <2>2. ByteIn(retired, buf, t, TokenIndex(t, j)) = a + j
    BY DEF Spells, TokenIndex
  <2>3. TokenIndex(t, j) = LET p == t.start_pos + i - 1
                           IN IF p < t.buffer_size THEN p ELSE p - t.buffer_size
    BY <1>2, <1>3, <2>1 DEF TokenIndex
  <2>4. a + j = a + i - 1
    BY <2>1
  <2>5. QED
    BY <1>1, <2>2, <2>3, <2>4
<1>5. QED
  BY <1>4 DEF TokenText

\* As long as nothing has put the text in doubt, the events that parse_next_event
\* returns are the log, piece by piece: the text of every token of the view begins
\* where the one before it ended, the first one behind the previous event, whichever
\* half of the buffer it is in, whether it wraps, was kept from the call before, or is
\* in a storage that was active before the buffer grew; no read overwrites a byte that
\* is still needed; each event is longer than nothing, and with the last one the end
\* of the log is reached.  This holds for every schema, log and even static size, for
\* any number of growths, of readers and of read errors.
THEOREM EventsAreTheLog == Spec => []EventIsNextText
<1>1. ASSUME TextInv, pc = "event", "text" \in intact
      PROVE  /\ \A k \in 1 .. Len(EventTokens) :
                  TokenText(EventTokens[k]) =
                    [ i \in 1 .. TokenLength(EventTokens[k]) |->
                        (IF k = 1 THEN from ELSE EndOffset(EventTokens[k - 1])) + i - 1 ]
             /\ IF done THEN NextFrom = Len(log) ELSE NextFrom > from
  <2>1. /\ Chain(retired, buf, EventTokens, from)
        /\ from \in Nat /\ from <= NextFrom
        /\ ~done => from < NextFrom
        /\ done => NextFrom = Len(log)
        /\ out \in Views
    BY <1>1 DEF TextInv, ViewInv, SeamInv, Chain, Views
  <2>2. \A t : EndOffset(t) = EndIn(retired, buf, t)
    BY DEF EndOffset, EndIn, TokenByte, ByteIn
  <2>3. ASSUME NEW k \in 1 .. Len(EventTokens)
        PROVE  TokenText(EventTokens[k]) =
                 [ i \in 1 .. TokenLength(EventTokens[k]) |->
                     (IF k = 1 THEN from ELSE EndOffset(EventTokens[k - 1])) + i - 1 ]
    <3>1. PICK a : a = IF k = 1 THEN from ELSE EndOffset(EventTokens[k - 1])
      OBVIOUS
    <3>2. Spells(retired, buf, EventTokens[k], a)
      BY <2>1, <2>2, <3>1 DEF Chain
    <3>3. TokenText(EventTokens[k])
            = [i \in 1 .. TokenLength(EventTokens[k]) |-> a + i - 1]
      BY <3>2, SpelledText
    <3>4. QED
      BY <3>1, <3>3
  <2>4. IF done THEN NextFrom = Len(log) ELSE NextFrom > from
    BY <2>1
  <2>5. QED
    BY <2>3, <2>4
<1>2. TextInv => EventIsNextText
  BY <1>1 DEF EventIsNextText
<1>3. QED
  BY <1>2, InitTypeInv, NextTypeInv, InitTextInv, NextTextInv, PTL DEF Spec
=============================================================================
