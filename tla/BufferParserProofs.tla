------------------------- MODULE BufferParserProofs -------------------------
(***************************************************************************)
(* Proofs that BufferParser returns the log piece by piece, for every      *)
(* schema, every log and every size of the application's array.            *)
(***************************************************************************)
EXTENDS BufferParser, TLAPS

-----------------------------------------------------------------------------
(***************************************************************************)
(* The methods of the input buffer, over the application's array.          *)
(***************************************************************************)

\* The array never wraps: its end is the middle of the buffer.
LEMMA ArrayEnds ==
  ASSUME NEW b, NEW u \in Arrays, IsArray(b, u)
  PROVE  /\ Half(b) = u.size
         /\ b.pos \in Nat /\ b.pos <= u.size
         /\ at_end_of_log(b) <=> u.finished /\ b.pos = u.size
         /\ out_of_bounds(b) <=> ~u.finished /\ b.pos = u.size
<1>1. u.size \in Nat
  BY DEF Arrays
<1>2. Half(b) = u.size
  BY <1>1 DEF IsArray, Half
<1>3. QED
  BY <1>1, <1>2 DEF IsArray, at_end_of_log, out_of_bounds

\* get_next_character moves to the next byte or stays at the end.
LEMMA TakenFields ==
  ASSUME NEW b, NEW u \in Arrays, IsBuffer(b), IsArray(b, u), ~out_of_bounds(b),
         NEW c, c = taken(b)
  PROVE  /\ IsBuffer(c) /\ IsArray(c, u)
         /\ c.pos = IF at_end_of_log(b) THEN b.pos ELSE b.pos + 1
         /\ c.fully_consumed <=> at_end_of_log(b)
<1>1. u.size \in Nat
  BY DEF Arrays
<1>2. /\ b.pos \in Nat /\ b.pos <= u.size
      /\ at_end_of_log(b) <=> u.finished /\ b.pos = u.size
      /\ out_of_bounds(b) <=> ~u.finished /\ b.pos = u.size
  BY ArrayEnds
<1>3. CASE at_end_of_log(b)
  <2>1. c = [b EXCEPT !.fully_consumed = TRUE]
    BY <1>3 DEF taken, consume_log
  <2>2. QED
    BY <1>2, <1>3, <2>1 DEF IsBuffer, IsArray
<1>4. CASE ~at_end_of_log(b)
  <2>1. b.pos < u.size
    BY <1>1, <1>2, <1>4 DEF Arrays
  <2>2. next_pos(b, b.pos) = b.pos + 1
    BY <1>1, <1>2, <2>1 DEF next_pos, IsArray
  <2>3. c = [b EXCEPT !.pos = b.pos + 1]
    BY <1>4, <2>2 DEF taken, advance
  <2>4. ~b.fully_consumed
    BY <1>1, <1>2, <2>1 DEF IsArray
  <2>5. QED
    BY <1>1, <1>2, <1>4, <2>1, <2>3, <2>4 DEF IsBuffer, IsArray
<1>5. QED
  BY <1>3, <1>4

\* The lexer goes back to a position of the array.
LEMMA MovedFields ==
  ASSUME NEW b, NEW u \in Arrays, IsBuffer(b), IsArray(b, u),
         NEW p \in Nat, p <= u.size,
         NEW c, c = go_back(b, p)
  PROVE  IsBuffer(c) /\ IsArray(c, u) /\ c.pos = p
<1>1. /\ IsBuffer(c)
      /\ c.size = b.size
      /\ c.storage = b.storage
      /\ c.pos = p
      /\ c.last_read = b.last_read
      /\ c.first_half = b.first_half
      /\ c.finished = b.finished
      /\ c.fully_consumed = FALSE
  BY DEF IsBuffer, go_back, set_pos, set_log_fully_consumed
<1>2. p \in 0 .. u.size
  BY DEF Arrays
<1>3. QED
  BY <1>1, <1>2 DEF IsArray

\* set_consumed_pos changes a position that is not looked at here.
LEMMA ConsumedFields ==
  ASSUME NEW b, NEW u, IsBuffer(b), IsArray(b, u),
         NEW p, NEW c, c = set_consumed_pos(b, p)
  PROVE  IsBuffer(c) /\ IsArray(c, u) /\ c.pos = b.pos
BY DEF IsBuffer, IsArray, set_consumed_pos

\* The input buffer at the start of a call.
LEMMA UserBufferFields ==
  ASSUME user \in Arrays, user.offset <= user.size, NEW c, c = UserBuffer
  PROVE  IsBuffer(c) /\ IsArray(c, user) /\ c.pos = user.offset
<1>1. PICK b : b = set_storage(StaticSize, user.size, user.offset, user.finished)
  OBVIOUS
<1>2. PICK bytes : bytes = [i \in 0 .. 2 * user.size - 1 |->
                              IF i < user.size THEN user.base + i ELSE Unset]
  OBVIOUS
<1>3. c = [b EXCEPT !.storage = bytes]
  BY <1>1, <1>2 DEF UserBuffer
<1>4. /\ IsBuffer(b)
      /\ b.size = 2 * user.size
      /\ b.pos = user.offset
      /\ b.last_read = user.size
      /\ b.first_half = TRUE
      /\ b.finished = user.finished
      /\ b.fully_consumed = FALSE
  BY <1>1 DEF set_storage, reset, IsBuffer
<1>5. /\ IsBuffer(c)
      /\ c.size = 2 * user.size
      /\ c.storage = bytes
      /\ c.pos = user.offset
      /\ c.last_read = user.size
      /\ c.first_half = TRUE
      /\ c.finished = user.finished
      /\ c.fully_consumed = FALSE
  BY <1>3, <1>4 DEF IsBuffer
<1>6. user.offset \in 0 .. user.size
  BY DEF Arrays
<1>7. QED
  BY <1>2, <1>5, <1>6 DEF IsArray

\* What get_next_character delivers.
LEMMA NextChar ==
  ASSUME log \in Seq(Chars), user \in Arrays, user.base + user.size <= Len(log),
         IsArray(buf, user), ~out_of_bounds(buf), NEW c \in NextChars
  PROVE  IF at_end_of_log(buf) THEN c = CharEOF ELSE c \in Chars /\ c # CharEOF
<1>1. CASE at_end_of_log(buf)
  BY <1>1 DEF NextChars
<1>2. CASE ~at_end_of_log(buf)
  <2>1. user.size \in Nat /\ user.base \in Nat
    BY DEF Arrays
  <2>2. buf.pos \in Nat /\ buf.pos < user.size
    BY <1>2, <2>1, ArrayEnds DEF Arrays
  <2>3. curr_value(buf) = user.base + buf.pos
    BY <2>1, <2>2 DEF curr_value, IsArray
  <2>4. c = log[user.base + buf.pos + 1]
    BY <1>2, <2>1, <2>2, <2>3 DEF NextChars, CharsOf, Unset
  <2>5. user.base + buf.pos + 1 \in 1 .. Len(log)
    BY <2>1, <2>2
  <2>6. QED
    BY <1>2, <2>4, <2>5, SchemaAssumption
<1>3. QED
  BY <1>1, <1>2

-----------------------------------------------------------------------------
(***************************************************************************)
(* The parts of scan.                                                      *)
(***************************************************************************)

\* What the lexer keeps from the characters before the one it takes now, and
\* what the main loop adds for that one: a delimiter and a match lie behind
\* the text that was returned and are not ahead of the position.
LEMMA SeenFields ==
  ASSUME TextInv, pc = "main", NEW c \in NextChars, ~out_of_bounds(buf),
         NEW y, y = Seen(c)
  PROVE  /\ y \in Lexers
         /\ ~y.asked
         /\ y.start_pos = lex.start_pos
         /\ y.last_match_pos = lex.last_match_pos
         /\ y.match => /\ y.start_pos < y.match_pos /\ y.match_pos <= buf.pos
                       /\ y.type \notin {NoType, TokenEnd}
         /\ y.first_delim # Unset =>
              /\ y.last_match_pos < y.first_delim
              /\ y.first_delim < taken(buf).pos
<1>1. /\ lex \in Lexers /\ user \in Arrays /\ IsBuffer(buf) /\ IsArray(buf, user)
      /\ MainInv
  BY DEF TextInv, LexerInv, ArrayInv, BufferInv, Calls
<1>2. IF at_end_of_log(buf) THEN c = CharEOF ELSE c \in Chars /\ c # CharEOF
  BY <1>1, NextChar DEF TextInv, ArrayInv
<1>3. buf.pos \in Nat
  BY <1>1, ArrayEnds
<1>4. taken(buf).pos = IF at_end_of_log(buf) THEN buf.pos ELSE buf.pos + 1
  BY <1>1, TakenFields
<1>5. PICK x : x = note_delimiter(lex, buf, c)
  OBVIOUS
<1>6. /\ x \in Lexers
      /\ x.asked = lex.asked
      /\ x.match = lex.match
      /\ x.match_pos = lex.match_pos
      /\ x.start_pos = lex.start_pos
      /\ x.last_match_pos = lex.last_match_pos
      /\ x.state = lex.state
      /\ x.type = lex.type
      /\ \/ x.first_delim = lex.first_delim
         \/ x.first_delim = buf.pos /\ c \in Delims /\ buf.pos # lex.last_match_pos
  BY <1>1, <1>3, <1>5 DEF note_delimiter, Lexers
<1>7. PICK z : z = note_match(x, buf, c)
  OBVIOUS
<1>8. /\ z \in Lexers
      /\ z.asked = x.asked
      /\ z.start_pos = x.start_pos
      /\ z.last_match_pos = x.last_match_pos
      /\ z.first_delim = x.first_delim
      /\ z.state = x.state
      /\ \/ z.match = x.match /\ z.match_pos = x.match_pos /\ z.type = x.type
         \/ /\ is_accepting(x.state)
            /\ z.match_pos = buf.pos
            /\ z.type = TypeIds[x.state]
  <2>1. is_accepting(x.state) => x.state \in DfaStates /\ TypeIds[x.state] \in Types
    BY <1>6 DEF is_accepting, Lexers, Types
  <2>2. CASE (c \in Delims \/ taken(buf).fully_consumed) /\ is_accepting(x.state)
    <3>1. z = [x EXCEPT !.match = TRUE, !.type = TypeIds[x.state],
                        !.match_pos = buf.pos]
      BY <1>7, <2>2 DEF note_match
    <3>2. QED
      BY <1>3, <1>6, <2>1, <2>2, <3>1 DEF Lexers
  <2>3. CASE ~((c \in Delims \/ taken(buf).fully_consumed) /\ is_accepting(x.state))
    <3>1. z = x
      BY <1>7, <2>3 DEF note_match
    <3>2. QED
      BY <1>6, <3>1
  <2>4. QED
    BY <2>2, <2>3
<1>9. y = process_char(z, c)
  BY <1>5, <1>7 DEF Seen, see_character
<1>10. /\ y \in Lexers
       /\ y.asked = z.asked
       /\ y.match = z.match
       /\ y.match_pos = z.match_pos
       /\ y.start_pos = z.start_pos
       /\ y.last_match_pos = z.last_match_pos
       /\ y.first_delim = z.first_delim
       /\ y.type = z.type
  <2>1. PICK s : s = IF z.state = Null \/ c = CharEOF THEN Null
                     ELSE Transition[z.state][c]
    OBVIOUS
  <2>2. s \in DfaStates \cup {Null}
    <3>1. z.state \in DfaStates \cup {Null}
      BY <1>8 DEF Lexers
    <3>2. QED
      BY <1>2, <2>1, <3>1, SchemaAssumption
  <2>3. y = [z EXCEPT !.state = s]
    BY <1>9, <2>1 DEF process_char
  <2>4. QED
    BY <1>8, <2>2, <2>3 DEF Lexers
<1>11. ~y.asked
  BY <1>1, <1>6, <1>8, <1>10 DEF MainInv
<1>12. ASSUME y.match
       PROVE  /\ y.start_pos < y.match_pos /\ y.match_pos <= buf.pos
              /\ y.type \notin {NoType, TokenEnd}
  <2>1. CASE z.match = x.match /\ z.match_pos = x.match_pos /\ z.type = x.type
    BY <1>1, <1>6, <1>8, <1>10, <1>12, <2>1 DEF MainInv
  <2>2. CASE /\ is_accepting(x.state)
             /\ z.match_pos = buf.pos
             /\ z.type = TypeIds[x.state]
    <3>1. lex.start_pos < buf.pos
      BY <1>1, <1>3, <1>6, <2>2 DEF MainInv, Lexers
    <3>2. y.type # NoType /\ y.type # TokenEnd
      BY <1>6, <1>10, <2>2, RulesAssumption DEF is_accepting, Lexers
    <3>3. QED
      BY <1>3, <1>6, <1>8, <1>10, <2>2, <3>1, <3>2
  <2>3. QED
    BY <1>8, <2>1, <2>2
<1>13. ASSUME y.first_delim # Unset
       PROVE  /\ y.last_match_pos < y.first_delim
              /\ y.first_delim < taken(buf).pos
  <2>1. /\ y.last_match_pos = lex.last_match_pos
        /\ y.first_delim = x.first_delim
        /\ lex.last_match_pos \in Nat /\ lex.start_pos \in Nat
        /\ lex.last_match_pos <= buf.pos
    BY <1>1, <1>3, <1>6, <1>8, <1>10, pc = "main" DEF Lexers, MainInv
  <2>2. CASE x.first_delim = lex.first_delim
    BY <1>1, <1>3, <1>4, <1>13, <2>1, <2>2 DEF MainInv, Lexers, Unset
  <2>3. CASE x.first_delim = buf.pos /\ c \in Delims /\ buf.pos # lex.last_match_pos
    <3>1. ~at_end_of_log(buf)
      BY <1>2, <2>3, SchemaAssumption
    <3>2. QED
      BY <1>3, <1>4, <2>1, <2>3, <3>1
  <2>4. QED
    BY <1>6, <2>2, <2>3
<1>14. QED
  BY <1>6, <1>8, <1>10, <1>11, <1>12, <1>13

-----------------------------------------------------------------------------
(***************************************************************************)
(* Lexer::scan: one lemma per step.                                        *)
(***************************************************************************)
Scanning == {"scan", "main", "skip"}

\* What a step of scan leaves alone.
ScanFrame ==
  /\ UNCHANGED <<log, read_off, retired, out, start_of_log, done, from, intact>>
  /\ UNCHANGED <<user, slot0>>

\* The view is the same and the next token still begins where it ends.
LEMMA ScanKeepsView ==
  ASSUME TextInv, ScanFrame, pc \in Scanning, pc' \in Scanning \cup {"token", "oob"},
         pc' # "oob" => Seam' = Seam
  PROVE  ArrayInv' /\ KeptInv' /\ ViewInv' /\ SeamInv' /\ OffsetInv'
<1> USE DEF TextInv, ScanFrame, Scanning
<1>1. ArrayInv'
  BY DEF ArrayInv, Calls
<1>2. KeptInv'
  BY DEF KeptInv
<1>3. EventTokens' = EventTokens
  BY DEF EventTokens
<1>4. ViewInv'
  BY <1>3 DEF ViewInv, Calls
<1>5. ~done
  BY DEF ArrayInv
<1>6. SeamInv'
  BY <1>3, <1>5 DEF SeamInv, Calls
<1>7. OffsetInv'
  BY <1>5 DEF OffsetInv, Calls
<1>8. QED
  BY <1>1, <1>2, <1>4, <1>6, <1>7

\* While scan runs, no token is kept.
LEMMA ScanSeam ==
  ASSUME TextInv, pc \in Scanning
  PROVE  /\ start_of_log = NoToken
         /\ Seam = Pending
BY DEF TextInv, KeptInv, Scanning, Seam

\* The facts that the steps of scan start from.
LEMMA ScanFacts ==
  ASSUME TextInv, pc \in Scanning
  PROVE  /\ lex \in Lexers /\ user \in Arrays
         /\ IsBuffer(buf) /\ IsArray(buf, user)
         /\ user.size \in Nat
         /\ buf.pos \in Nat /\ buf.pos <= user.size
         /\ RestInv /\ MainInv /\ SkipInv
<1>1. /\ lex \in Lexers /\ user \in Arrays
      /\ IsBuffer(buf) /\ IsArray(buf, user)
      /\ RestInv /\ MainInv /\ SkipInv
  BY DEF TextInv, LexerInv, ArrayInv, BufferInv, Calls, Scanning
<1>2. QED
  BY <1>1, ArrayEnds DEF Arrays

\* Scan starts at the start of a file.
LEMMA ScanResumeStep ==
  ASSUME TextInv, ScanResume, UNCHANGED <<user, slot0>>
  PROVE  TextInv'
<1> USE DEF ScanResume, input_vars, parse_vars, history
<1>1. ScanFrame /\ pc \in Scanning /\ pc' \in Scanning /\ pc' = "main"
  BY DEF ScanFrame, Scanning
<1>2. /\ lex \in Lexers /\ IsBuffer(buf) /\ IsArray(buf, user)
      /\ buf.pos \in Nat
      /\ RestInv
  BY <1>1, ScanFacts
<1>3. FreshLexer /\ buf.pos = 0
  BY <1>2 DEF RestInv, Pos
<1>4. /\ lex.match = FALSE
      /\ lex.start_pos = 0
      /\ lex.last_match_pos = 0
      /\ lex.first_delim = Unset
      /\ lex.state = StartOfFile
  BY <1>3 DEF FreshLexer, prepend_start_of_file_char, lexer_reset, reset
<1>5. /\ lex' \in Lexers
      /\ ~lex'.asked
      /\ lex'.match = FALSE
      /\ lex'.start_pos = 0
      /\ lex'.last_match_pos = 0
      /\ lex'.first_delim = Unset
      /\ lex'.state = StartOfFile
  BY <1>2, <1>4 DEF resume_scan, Lexers
<1>6. LexerInv'
  <2>1. MainInv'
    BY <1>3, <1>5, RulesAssumption DEF MainInv, is_accepting
  <2>2. QED
    BY <1>5, <2>1 DEF LexerInv, RestInv, SkipInv
<1>7. BufferInv' /\ TokenInv'
  BY <1>2 DEF BufferInv, TokenInv, Calls
<1>8. Seam' = Seam
  BY <1>1, <1>4, <1>5, ScanSeam DEF Seam, Pending
<1>9. QED
  BY <1>1, <1>6, <1>7, <1>8, ScanKeepsView DEF TextInv

\* Scan returns the match that was prepared.
LEMMA ScanPreparedStep ==
  ASSUME TextInv, ScanPrepared, UNCHANGED <<user, slot0>>
  PROVE  TextInv'
<1> USE DEF ScanPrepared, Return, input_vars, parse_vars, history
<1>1. ScanFrame /\ pc \in Scanning /\ pc' = "token"
  BY DEF ScanFrame, Scanning
<1>2. /\ lex \in Lexers /\ user \in Arrays
      /\ IsBuffer(buf) /\ IsArray(buf, user)
      /\ user.size \in Nat /\ buf.pos \in Nat /\ buf.pos <= user.size
      /\ RestInv
  BY <1>1, ScanFacts
<1>3. /\ buf.pos = lex.match_pos
      /\ lex.type # NoType
      /\ lex.type # TokenEnd => lex.start_pos < lex.match_pos
      /\ lex.type = TokenEnd =>
           lex.start_pos = user.size /\ buf.pos = user.size /\ user.finished
  <2>1. ~FreshLexer
    BY DEF FreshLexer, prepend_start_of_file_char, lexer_reset
  <2>2. QED
    BY <1>2, <2>1 DEF RestInv, Pos
<1>4. /\ lex' \in Lexers
      /\ lex'.asked = FALSE
      /\ lex'.match = FALSE
      /\ lex'.first_delim = Unset
      /\ lex'.last_match_pos = lex.match_pos
  BY <1>2, SchemaAssumption DEF take_match, Lexers
<1>5. LexerInv'
  BY <1>2, <1>3, <1>4 DEF LexerInv, RestInv, MainInv, SkipInv, Pos
<1>6. tok' = [ start_pos |-> lex.start_pos, end_pos |-> lex.match_pos,
               type |-> lex.type, buffer |-> 1, buffer_size |-> 2 * user.size ]
  BY <1>2 DEF NewToken, TextInv, ArrayInv, IsArray
<1>7. TokenInv'
  <2>1. tok' \in Tokens(user.size)
    BY <1>2, <1>6 DEF Tokens, Lexers
  <2>2. Pending' = lex.match_pos
    BY <1>4 DEF Pending
  <2>3. QED
    BY <1>2, <1>3, <1>4, <1>6, <2>1, <2>2 DEF TokenInv, Lexers
<1>8. BufferInv'
  BY <1>2 DEF BufferInv, Calls
<1>9. Seam' = Seam
  BY <1>1, <1>6, ScanSeam DEF Seam, Pending
<1>10. QED
  BY <1>1, <1>5, <1>7, <1>8, <1>9, ScanKeepsView DEF TextInv

\* Scan starts behind the text that was returned, at the delimiter it has
\* passed if there is one.
LEMMA ScanFreshStep ==
  ASSUME TextInv, ScanFresh, UNCHANGED <<user, slot0>>
  PROVE  TextInv'
<1> USE DEF ScanFresh, input_vars, parse_vars, history
<1>1. ScanFrame /\ pc \in Scanning /\ pc' \in Scanning /\ pc' = "main"
  BY DEF ScanFrame, Scanning
<1>2. /\ lex \in Lexers /\ user \in Arrays
      /\ IsBuffer(buf) /\ IsArray(buf, user)
      /\ user.size \in Nat /\ buf.pos \in Nat /\ buf.pos <= user.size
      /\ RestInv
  BY <1>1, ScanFacts
<1>3. /\ lex.last_match_pos \in Nat
      /\ IF lex.first_delim = Unset THEN buf.pos = lex.last_match_pos
         ELSE lex.first_delim = lex.last_match_pos /\ lex.first_delim <= user.size
  <2>1. ~FreshLexer
    BY DEF FreshLexer, prepend_start_of_file_char, lexer_reset
  <2>2. QED
    BY <1>2, <2>1 DEF RestInv, Pos, Lexers
<1>4. /\ IsBuffer(buf') /\ IsArray(buf', user)
      /\ buf'.pos = lex.last_match_pos
  <2>1. CASE lex.first_delim = Unset
    BY <1>2, <1>3, <2>1 DEF rewind
  <2>2. CASE lex.first_delim # Unset
    <3>1. buf' = go_back(buf, lex.last_match_pos)
      BY <1>3, <2>2 DEF rewind
    <3>2. lex.last_match_pos \in Nat /\ lex.last_match_pos <= user.size
      BY <1>3, <2>2
    <3>3. user \in Arrays /\ IsBuffer(buf) /\ IsArray(buf, user)
      BY <1>2
    <3>4. QED
      BY <3>1, <3>2, <3>3, MovedFields
  <2>3. QED
    BY <2>1, <2>2
<1>5. lex' = [lex EXCEPT !.state = Root, !.start_pos = lex.last_match_pos,
                         !.match_pos = lex.last_match_pos,
                         !.type = NoType, !.first_delim = Unset]
  BY <1>4 DEF start_scan
<1>6. /\ lex' \in Lexers
      /\ ~lex'.asked
      /\ ~lex'.match
      /\ lex'.start_pos = lex.last_match_pos
      /\ lex'.last_match_pos = lex.last_match_pos
      /\ lex'.first_delim = Unset
      /\ lex'.state = Root
  <2>1. Root \in DfaStates /\ NoType \in Types
    BY SchemaAssumption DEF Types
  <2>2. QED
    BY <1>2, <1>3, <1>5, <2>1 DEF Lexers
<1>7. LexerInv'
  <2>1. MainInv'
    BY <1>3, <1>4, <1>6, RulesAssumption DEF MainInv, is_accepting
  <2>2. QED
    BY <1>6, <2>1 DEF LexerInv, RestInv, SkipInv
<1>8. BufferInv' /\ TokenInv'
  BY <1>4 DEF BufferInv, TokenInv, Calls
<1>9. Seam' = Seam
  BY <1>1, <1>6, ScanSeam DEF Seam, Pending
<1>10. QED
  BY <1>1, <1>7, <1>8, <1>9, ScanKeepsView DEF TextInv

\* Scan has run into the end of the array, in the main loop or in the skip
\* loop.
LEMMA ScanOutOfBoundsStep ==
  ASSUME TextInv, ScanOutOfBounds \/ SkipOutOfBounds, UNCHANGED <<user, slot0>>
  PROVE  TextInv'
<1> USE DEF ScanOutOfBounds, SkipOutOfBounds, input_vars, parse_vars, history
<1>1. ScanFrame /\ pc \in Scanning /\ pc' = "oob"
  BY DEF ScanFrame, Scanning
<1>2. lex \in Lexers /\ IsBuffer(buf) /\ IsArray(buf, user)
  BY <1>1, ScanFacts
<1>3. lex' \in Lexers
  BY <1>2 DEF Lexers
<1>4. LexerInv' /\ BufferInv' /\ TokenInv'
  BY <1>1, <1>2, <1>3
    DEF LexerInv, RestInv, MainInv, SkipInv, BufferInv, TokenInv, Calls
<1>5. QED
  BY <1>1, <1>4, ScanKeepsView DEF TextInv

\* One iteration of the main loop takes a character c at buf.pos and leaves
\* the lexer in y and the buffer in b.
LEMMA MainFacts ==
  ASSUME TextInv, NEW c \in NextChars, MainLoop(c),
         NEW y, y = Seen(c), NEW b, b = taken(buf)
  PROVE  /\ y \in Lexers
         /\ ~y.asked
         /\ y.match => /\ y.start_pos < y.match_pos /\ y.match_pos <= buf.pos
                       /\ y.type \notin {NoType, TokenEnd}
         /\ y.first_delim # Unset =>
              y.last_match_pos < y.first_delim /\ y.first_delim < b.pos
         /\ y.last_match_pos = lex.last_match_pos
         /\ y.last_match_pos <= y.start_pos /\ y.start_pos <= buf.pos
         /\ buf.pos \in Nat /\ user.size \in Nat /\ b.pos \in Nat
         /\ b.pos <= user.size
         /\ IsBuffer(b) /\ IsArray(b, user) /\ user \in Arrays
         /\ b.fully_consumed <=> at_end_of_log(buf)
         /\ IF at_end_of_log(buf)
            THEN c = CharEOF /\ b.pos = buf.pos /\ buf.pos = user.size /\ user.finished
            ELSE c \in Chars /\ b.pos = buf.pos + 1
<1>1. pc = "main" /\ ~out_of_bounds(buf)
  BY DEF MainLoop
<1>2. /\ y \in Lexers
      /\ ~y.asked
      /\ y.start_pos = lex.start_pos
      /\ y.last_match_pos = lex.last_match_pos
      /\ y.match => /\ y.start_pos < y.match_pos /\ y.match_pos <= buf.pos
                    /\ y.type \notin {NoType, TokenEnd}
      /\ y.first_delim # Unset =>
           /\ y.last_match_pos < y.first_delim
           /\ y.first_delim < taken(buf).pos
  BY <1>1, SeenFields
<1>3. /\ user \in Arrays /\ IsBuffer(buf) /\ IsArray(buf, user)
      /\ user.size \in Nat /\ buf.pos \in Nat /\ buf.pos <= user.size
      /\ MainInv
  BY <1>1, ScanFacts DEF Scanning
<1>4. /\ IsBuffer(b) /\ IsArray(b, user)
      /\ b.pos = IF at_end_of_log(buf) THEN buf.pos ELSE buf.pos + 1
      /\ b.fully_consumed <=> at_end_of_log(buf)
  BY <1>1, <1>3, TakenFields
<1>5. at_end_of_log(buf) <=> user.finished /\ buf.pos = user.size
  BY <1>3, ArrayEnds
<1>6. IF at_end_of_log(buf) THEN c = CharEOF ELSE c \in Chars /\ c # CharEOF
  BY <1>1, <1>3, NextChar DEF TextInv, ArrayInv
<1>7. b.pos \in Nat /\ b.pos <= user.size
  BY <1>3, <1>4, ArrayEnds
<1>8. y.last_match_pos <= y.start_pos /\ y.start_pos <= buf.pos
  BY <1>1, <1>2, <1>3 DEF MainInv
<1>9. QED
  BY <1>2, <1>3, <1>4, <1>5, <1>6, <1>7, <1>8

\* A newline that is a token of its own, or the beginning of one.
LEMMA ScanNewlineStep ==
  ASSUME TextInv, ScanNewline, UNCHANGED <<user, slot0>>
  PROVE  TextInv'
<1> USE DEF ScanNewline, input_vars, parse_vars, history
<1>1. PICK c \in NextChars :
        /\ MainLoop(c)
        /\ newline_is_match(Seen(c), buf, c)
        /\ lex' = match_newline(Seen(c), buf)
        /\ buf' = taken(buf)
  OBVIOUS
<1>2. ScanFrame /\ pc \in Scanning /\ pc' \in Scanning /\ pc = "main" /\ pc' = "main"
  BY <1>1 DEF ScanFrame, Scanning, MainLoop
<1>3. PICK y : y = Seen(c)
  OBVIOUS
<1>4. /\ y \in Lexers
      /\ ~y.asked
      /\ y.first_delim # Unset =>
           y.last_match_pos < y.first_delim /\ y.first_delim < buf'.pos
      /\ y.last_match_pos = lex.last_match_pos
      /\ y.last_match_pos <= y.start_pos /\ y.start_pos <= buf.pos
      /\ buf.pos \in Nat /\ IsBuffer(buf') /\ IsArray(buf', user)
      /\ at_end_of_log(buf) => c = CharEOF
      /\ ~at_end_of_log(buf) => buf'.pos = buf.pos + 1
  BY <1>1, <1>3, MainFacts
<1>5. c = Newline /\ Newline # CharEOF /\ Newline \in Chars /\ Root # Null
  BY <1>1, SchemaAssumption DEF newline_is_match
<1>6. buf'.pos = buf.pos + 1
  BY <1>4, <1>5
<1>7. lex' = [ [y EXCEPT !.state = Transition[Root][Newline]] EXCEPT
                 !.match = TRUE, !.type = TokenNewline,
                 !.start_pos = buf.pos, !.match_pos = buf.pos + 1 ]
  <2>1. process_char([y EXCEPT !.state = Root], Newline)
          = [y EXCEPT !.state = Transition[Root][Newline]]
    BY <1>4, <1>5 DEF process_char, Lexers
  <2>2. taken(buf).pos = buf.pos + 1
    BY <1>1, <1>6
  <2>3. QED
    BY <1>1, <1>3, <2>1, <2>2, SchemaAssumption DEF match_newline
<1>8. /\ lex' \in Lexers
      /\ ~lex'.asked
      /\ lex'.type = TokenNewline
      /\ lex'.start_pos = buf.pos
      /\ lex'.match_pos = buf.pos + 1
      /\ lex'.last_match_pos = y.last_match_pos
      /\ lex'.first_delim = y.first_delim
  <2>1. TokenNewline \in Types /\ Transition[Root][Newline] \in DfaStates
    BY SchemaAssumption DEF Types
  <2>2. PICK z : z = [y EXCEPT !.state = Transition[Root][Newline]]
    OBVIOUS
  <2>3. /\ z \in Lexers
        /\ z.asked = y.asked
        /\ z.last_match_pos = y.last_match_pos
        /\ z.first_delim = y.first_delim
    BY <1>4, <2>1, <2>2 DEF Lexers
  <2>4. lex' = [ z EXCEPT !.match = TRUE, !.type = TokenNewline,
                          !.start_pos = buf.pos, !.match_pos = buf.pos + 1 ]
    BY <1>7, <2>2
  <2>5. buf.pos + 1 \in Nat
    BY <1>4
  <2>6. lex' \in Lexers
    BY <1>4, <2>1, <2>3, <2>4, <2>5 DEF Lexers
  <2>7. QED
    BY <1>4, <2>3, <2>4, <2>6 DEF Lexers
<1>9. LexerInv'
  <2>1. MainInv'
    <3>1. y.last_match_pos \in Nat /\ y.start_pos \in Nat
      BY <1>4 DEF Lexers
    <3>2. QED
      BY <1>4, <1>6, <1>8, <3>1 DEF MainInv, TokenNewline, NoType, TokenEnd
  <2>2. QED
    BY <1>2, <1>8, <2>1 DEF LexerInv, RestInv, SkipInv
<1>10. BufferInv' /\ TokenInv'
  BY <1>2, <1>4 DEF BufferInv, TokenInv, Calls
<1>11. Seam' = Seam
  BY <1>2, <1>4, <1>8, ScanSeam DEF Seam, Pending
<1>12. QED
  BY <1>2, <1>9, <1>10, <1>11, ScanKeepsView DEF TextInv

\* Any other character that the automaton can go on with.
LEMMA ScanContinueStep ==
  ASSUME TextInv, ScanContinue, UNCHANGED <<user, slot0>>
  PROVE  TextInv'
<1> USE DEF ScanContinue, input_vars, parse_vars, history
<1>1. PICK c \in NextChars :
        /\ MainLoop(c)
        /\ ~taken(buf).fully_consumed
        /\ lex' = Seen(c)
        /\ buf' = taken(buf)
  OBVIOUS
<1>2. ScanFrame /\ pc \in Scanning /\ pc' \in Scanning /\ pc = "main" /\ pc' = "main"
  BY <1>1 DEF ScanFrame, Scanning, MainLoop
<1>3. /\ lex' \in Lexers
      /\ ~lex'.asked
      /\ lex'.match => /\ lex'.start_pos < lex'.match_pos /\ lex'.match_pos <= buf.pos
                       /\ lex'.type \notin {NoType, TokenEnd}
      /\ lex'.first_delim # Unset =>
           lex'.last_match_pos < lex'.first_delim /\ lex'.first_delim < buf'.pos
      /\ lex'.last_match_pos = lex.last_match_pos
      /\ lex'.last_match_pos <= lex'.start_pos /\ lex'.start_pos <= buf.pos
      /\ buf.pos \in Nat /\ IsBuffer(buf') /\ IsArray(buf', user)
      /\ buf'.fully_consumed <=> at_end_of_log(buf)
      /\ ~at_end_of_log(buf) => buf'.pos = buf.pos + 1
  BY <1>1, MainFacts
<1>4. buf'.pos = buf.pos + 1
  BY <1>1, <1>3
<1>5. LexerInv'
  <2>1. MainInv'
    BY <1>3, <1>4 DEF MainInv, Lexers
  <2>2. QED
    BY <1>2, <1>3, <2>1 DEF LexerInv, RestInv, SkipInv
<1>6. BufferInv' /\ TokenInv'
  BY <1>2, <1>3 DEF BufferInv, TokenInv, Calls
<1>7. Seam' = Seam
  BY <1>2, <1>3, ScanSeam DEF Seam, Pending
<1>8. QED
  BY <1>2, <1>5, <1>6, <1>7, ScanKeepsView DEF TextInv

\* A token of the array, made by a step that changes only lex, buf and tok.
LEMMA NewTokenFields ==
  ASSUME TextInv, pc \in Calls,
         NEW i \in Nat, NEW k \in Nat, NEW type \in Types,
         NEW t, t = NewToken(i, k, type)
  PROVE  /\ t \in Tokens(user.size)
         /\ t.start_pos = i /\ t.end_pos = k /\ t.type = type
BY DEF TextInv, ArrayInv, BufferInv, IsArray, NewToken, Tokens

\* The types of a lexer's fields.
LEMMA LexerTypes ==
  ASSUME NEW x \in Lexers
  PROVE  /\ x.match_pos \in Nat /\ x.start_pos \in Nat /\ x.last_match_pos \in Nat
         /\ x.type \in Types
         /\ x.first_delim \in Nat \cup {Unset}
         /\ TokenUncaughtString \in Types /\ TokenEnd \in Types
BY DEF Lexers, Types

\* The match is returned, or first the text before it.
LEMMA ScanMatchStep ==
  ASSUME TextInv, ScanMatch, UNCHANGED <<user, slot0>>
  PROVE  TextInv'
<1> USE DEF ScanMatch, Return, input_vars, parse_vars, history
<1>1. PICK c, y :
        /\ c \in NextChars
        /\ y = Seen(c)
        /\ Stuck(c)
        /\ y.match
        /\ buf' = go_back(taken(buf), y.match_pos)
        /\ pc' = "token"
        /\ \/ /\ y.last_match_pos # y.start_pos
              /\ lex' = y
              /\ tok' = NewToken(y.last_match_pos, y.start_pos, TokenUncaughtString)
           \/ /\ y.last_match_pos = y.start_pos
              /\ lex' = take_match(y)
              /\ tok' = NewToken(y.start_pos, y.match_pos, y.type)
  BY DEF Stuck
<1>2. ScanFrame /\ pc \in Scanning /\ pc = "main" /\ pc \in Calls /\ MainLoop(c)
  BY <1>1 DEF ScanFrame, Scanning, MainLoop, Stuck, Calls
<1>3. PICK b : b = taken(buf)
  OBVIOUS
<1>4. /\ y \in Lexers
      /\ ~y.asked
      /\ y.match => /\ y.start_pos < y.match_pos /\ y.match_pos <= buf.pos
                    /\ y.type \notin {NoType, TokenEnd}
      /\ y.first_delim # Unset =>
           y.last_match_pos < y.first_delim /\ y.first_delim < b.pos
      /\ y.last_match_pos = lex.last_match_pos
      /\ y.last_match_pos <= y.start_pos /\ y.start_pos <= buf.pos
      /\ buf.pos \in Nat /\ user.size \in Nat /\ b.pos \in Nat
      /\ b.pos <= user.size
      /\ IsBuffer(b) /\ IsArray(b, user) /\ user \in Arrays
      /\ b.fully_consumed <=> at_end_of_log(buf)
      /\ IF at_end_of_log(buf)
         THEN c = CharEOF /\ b.pos = buf.pos /\ buf.pos = user.size /\ user.finished
         ELSE c \in Chars /\ b.pos = buf.pos + 1
  BY <1>1, <1>2, <1>3, MainFacts
<1>5. /\ y.match_pos \in Nat /\ y.start_pos \in Nat /\ y.last_match_pos \in Nat
      /\ y.type \in Types
      /\ TokenUncaughtString \in Types
  BY <1>4, LexerTypes
<1>6. y.match_pos <= user.size
  BY <1>1, <1>4, <1>5
<1>7. IsBuffer(buf') /\ IsArray(buf', user) /\ buf'.pos = y.match_pos
  <2>1. buf' = go_back(b, y.match_pos)
    BY <1>1, <1>3
  <2>2. user \in Arrays /\ IsBuffer(b) /\ IsArray(b, user)
    BY <1>4
  <2>3. QED
    BY <1>5, <1>6, <2>1, <2>2, MovedFields
<1>8. BufferInv'
  BY <1>1, <1>7 DEF BufferInv, Calls
<1>9. LexerInv' /\ TokenInv' /\ Seam' = Seam
  <2>1. CASE /\ y.last_match_pos # y.start_pos
             /\ lex' = y
             /\ tok' = NewToken(y.last_match_pos, y.start_pos, TokenUncaughtString)
    <3>1. /\ tok' \in Tokens(user.size)
          /\ tok'.start_pos = y.last_match_pos
          /\ tok'.end_pos = y.start_pos
          /\ tok'.type = TokenUncaughtString
      BY <1>2, <1>5, <2>1, NewTokenFields
    <3>2. LexerInv'
      BY <1>1, <1>4, <1>6, <1>7, <2>1 DEF LexerInv, RestInv, MainInv, SkipInv, Pos
    <3>3. TokenInv'
      <4>1. Pending' = y.start_pos
        BY <1>1, <2>1 DEF Pending
      <4>2. QED
        BY <1>1, <1>4, <1>5, <1>6, <2>1, <3>1, <4>1
          DEF TokenInv, TokenUncaughtString, TokenEnd, NoType
    <3>4. Seam' = Seam
      BY <1>1, <1>2, <1>4, <3>1, ScanSeam DEF Seam, Pending
    <3>5. QED
      BY <3>2, <3>3, <3>4
  <2>2. CASE /\ y.last_match_pos = y.start_pos
             /\ lex' = take_match(y)
             /\ tok' = NewToken(y.start_pos, y.match_pos, y.type)
    <3>1. /\ tok' \in Tokens(user.size)
          /\ tok'.start_pos = y.start_pos
          /\ tok'.end_pos = y.match_pos
          /\ tok'.type = y.type
      BY <1>2, <1>5, <2>2, NewTokenFields
    <3>2. /\ lex' \in Lexers
          /\ ~lex'.asked /\ ~lex'.match
          /\ lex'.first_delim = Unset
          /\ lex'.last_match_pos = y.match_pos
      BY <1>4, <1>5, <2>2 DEF take_match, Lexers
    <3>3. LexerInv'
      BY <1>1, <1>6, <1>7, <3>2 DEF LexerInv, RestInv, MainInv, SkipInv, Pos
    <3>4. TokenInv'
      <4>1. Pending' = y.match_pos
        BY <3>2 DEF Pending
      <4>2. QED
        BY <1>1, <1>4, <1>5, <1>6, <2>2, <3>1, <3>2, <4>1 DEF TokenInv
    <3>5. Seam' = Seam
      BY <1>1, <1>2, <1>4, <2>2, <3>1, ScanSeam DEF Seam, Pending
    <3>6. QED
      BY <3>3, <3>4, <3>5
  <2>3. QED
    BY <1>1, <2>1, <2>2
<1>10. QED
  BY <1>1, <1>2, <1>8, <1>9, ScanKeepsView DEF TextInv

\* The last text of the log is returned and the end is prepared.
LEMMA ScanLastTextStep ==
  ASSUME TextInv, ScanLastText, UNCHANGED <<user, slot0>>
  PROVE  TextInv'
<1> USE DEF ScanLastText, Return, input_vars, parse_vars, history
<1>1. PICK c, y :
        /\ c \in NextChars
        /\ y = Seen(c)
        /\ Stuck(c)
        /\ AtEnd(y)
        /\ y.last_match_pos # y.start_pos
        /\ lex' = [y EXCEPT !.match = TRUE, !.match_pos = taken(buf).pos,
                            !.type = TokenEnd]
        /\ buf' = taken(buf)
        /\ tok' = NewToken(y.last_match_pos, y.start_pos, TokenUncaughtString)
        /\ pc' = "token"
  OBVIOUS
<1>2. ScanFrame /\ pc \in Scanning /\ pc = "main" /\ pc \in Calls /\ MainLoop(c)
  BY <1>1 DEF ScanFrame, Scanning, MainLoop, Stuck, Calls
<1>3. PICK b : b = taken(buf)
  OBVIOUS
<1>4. /\ y \in Lexers
      /\ ~y.asked
      /\ y.match => /\ y.start_pos < y.match_pos /\ y.match_pos <= buf.pos
                    /\ y.type \notin {NoType, TokenEnd}
      /\ y.first_delim # Unset =>
           y.last_match_pos < y.first_delim /\ y.first_delim < b.pos
      /\ y.last_match_pos = lex.last_match_pos
      /\ y.last_match_pos <= y.start_pos /\ y.start_pos <= buf.pos
      /\ buf.pos \in Nat /\ user.size \in Nat /\ b.pos \in Nat
      /\ b.pos <= user.size
      /\ IsBuffer(b) /\ IsArray(b, user) /\ user \in Arrays
      /\ b.fully_consumed <=> at_end_of_log(buf)
      /\ IF at_end_of_log(buf)
         THEN c = CharEOF /\ b.pos = buf.pos /\ buf.pos = user.size /\ user.finished
         ELSE c \in Chars /\ b.pos = buf.pos + 1
  BY <1>1, <1>2, <1>3, MainFacts
<1>5. /\ y.start_pos \in Nat /\ y.last_match_pos \in Nat
      /\ TokenUncaughtString \in Types /\ TokenEnd \in Types
  BY <1>4, LexerTypes
<1>6. b.pos = y.start_pos /\ b.pos = user.size /\ user.finished
  BY <1>1, <1>3, <1>4 DEF AtEnd
<1>7. BufferInv'
  BY <1>1, <1>3, <1>4 DEF BufferInv, Calls
<1>8. /\ lex' \in Lexers
      /\ ~lex'.asked /\ lex'.match
      /\ lex'.match_pos = b.pos
      /\ lex'.start_pos = y.start_pos
      /\ lex'.type = TokenEnd
  BY <1>1, <1>3, <1>4, <1>5 DEF Lexers
<1>9. /\ tok' \in Tokens(user.size)
      /\ tok'.start_pos = y.last_match_pos
      /\ tok'.end_pos = y.start_pos
      /\ tok'.type = TokenUncaughtString
  BY <1>1, <1>2, <1>5, NewTokenFields
<1>10. LexerInv'
  BY <1>1, <1>3, <1>4, <1>6, <1>8
    DEF LexerInv, RestInv, MainInv, SkipInv, Pos, NoType, TokenEnd
<1>11. TokenInv'
  <2>1. Pending' = y.start_pos
    BY <1>1, <1>8 DEF Pending
  <2>2. y.last_match_pos < y.start_pos /\ y.start_pos <= user.size
    BY <1>1, <1>4, <1>5, <1>6
  <2>3. QED
    BY <1>9, <2>1, <2>2 DEF TokenInv, TokenUncaughtString, TokenEnd, NoType
<1>12. Seam' = Seam
  BY <1>1, <1>2, <1>4, <1>9, ScanSeam DEF Seam, Pending
<1>13. QED
  BY <1>1, <1>2, <1>7, <1>10, <1>11, <1>12, ScanKeepsView DEF TextInv

\* The end of the log is returned.
LEMMA ScanEndStep ==
  ASSUME TextInv, ScanEnd, UNCHANGED <<user, slot0>>
  PROVE  TextInv'
<1> USE DEF ScanEnd, Return, input_vars, parse_vars, history
<1>1. PICK c, y :
        /\ c \in NextChars
        /\ y = Seen(c)
        /\ Stuck(c)
        /\ ~y.match
        /\ AtEnd(y)
        /\ y.last_match_pos = y.start_pos
        /\ lex' = y
        /\ buf' = taken(buf)
        /\ tok' = NewToken(taken(buf).pos, taken(buf).pos, TokenEnd)
        /\ pc' = "token"
  OBVIOUS
<1>2. ScanFrame /\ pc \in Scanning /\ pc = "main" /\ pc \in Calls /\ MainLoop(c)
  BY <1>1 DEF ScanFrame, Scanning, MainLoop, Stuck, Calls
<1>3. PICK b : b = taken(buf)
  OBVIOUS
<1>4. /\ y \in Lexers
      /\ ~y.asked
      /\ y.match => /\ y.start_pos < y.match_pos /\ y.match_pos <= buf.pos
                    /\ y.type \notin {NoType, TokenEnd}
      /\ y.first_delim # Unset =>
           y.last_match_pos < y.first_delim /\ y.first_delim < b.pos
      /\ y.last_match_pos = lex.last_match_pos
      /\ y.last_match_pos <= y.start_pos /\ y.start_pos <= buf.pos
      /\ buf.pos \in Nat /\ user.size \in Nat /\ b.pos \in Nat
      /\ b.pos <= user.size
      /\ IsBuffer(b) /\ IsArray(b, user) /\ user \in Arrays
      /\ b.fully_consumed <=> at_end_of_log(buf)
      /\ IF at_end_of_log(buf)
         THEN c = CharEOF /\ b.pos = buf.pos /\ buf.pos = user.size /\ user.finished
         ELSE c \in Chars /\ b.pos = buf.pos + 1
  BY <1>1, <1>2, <1>3, MainFacts
<1>5. y.last_match_pos \in Nat /\ TokenEnd \in Types
  BY <1>4, LexerTypes
<1>6. b.pos = y.last_match_pos /\ b.pos = user.size /\ user.finished
  BY <1>1, <1>3, <1>4 DEF AtEnd
<1>7. y.first_delim = Unset
  BY <1>4, <1>5, <1>6, LexerTypes DEF Unset
<1>8. BufferInv'
  BY <1>1, <1>3, <1>4 DEF BufferInv, Calls
<1>9. /\ tok' \in Tokens(user.size)
      /\ tok'.start_pos = b.pos
      /\ tok'.end_pos = b.pos
      /\ tok'.type = TokenEnd
  BY <1>1, <1>2, <1>3, <1>4, <1>5, NewTokenFields
<1>10. LexerInv'
  BY <1>1, <1>3, <1>4, <1>6, <1>7 DEF LexerInv, RestInv, MainInv, SkipInv, Pos
<1>11. TokenInv'
  <2>1. Pending' = y.last_match_pos
    BY <1>1 DEF Pending
  <2>2. QED
    BY <1>1, <1>4, <1>5, <1>6, <1>9, <2>1 DEF TokenInv, TokenEnd, NoType
<1>12. Seam' = Seam
  BY <1>1, <1>2, <1>4, <1>6, <1>9, ScanSeam DEF Seam, Pending
<1>13. QED
  BY <1>1, <1>2, <1>8, <1>10, <1>11, <1>12, ScanKeepsView DEF TextInv

\* The text before the first delimiter is returned; scan will go on there.
LEMMA ScanUncaughtStep ==
  ASSUME TextInv, ScanUncaught, UNCHANGED <<user, slot0>>
  PROVE  TextInv'
<1> USE DEF ScanUncaught, Return, input_vars, parse_vars, history
<1>1. PICK c, y :
        /\ c \in NextChars
        /\ y = Seen(c)
        /\ Stuck(c)
        /\ ~y.match
        /\ y.first_delim # Unset
        /\ lex' = [y EXCEPT !.last_match_pos = y.first_delim]
        /\ buf' = taken(buf)
        /\ tok' = NewToken(y.last_match_pos, y.first_delim, TokenUncaughtString)
        /\ pc' = "token"
  OBVIOUS
<1>2. ScanFrame /\ pc \in Scanning /\ pc = "main" /\ pc \in Calls /\ MainLoop(c)
  BY <1>1 DEF ScanFrame, Scanning, MainLoop, Stuck, Calls
<1>3. PICK b : b = taken(buf)
  OBVIOUS
<1>4. /\ y \in Lexers
      /\ ~y.asked
      /\ y.match => /\ y.start_pos < y.match_pos /\ y.match_pos <= buf.pos
                    /\ y.type \notin {NoType, TokenEnd}
      /\ y.first_delim # Unset =>
           y.last_match_pos < y.first_delim /\ y.first_delim < b.pos
      /\ y.last_match_pos = lex.last_match_pos
      /\ y.last_match_pos <= y.start_pos /\ y.start_pos <= buf.pos
      /\ buf.pos \in Nat /\ user.size \in Nat /\ b.pos \in Nat
      /\ b.pos <= user.size
      /\ IsBuffer(b) /\ IsArray(b, user) /\ user \in Arrays
      /\ b.fully_consumed <=> at_end_of_log(buf)
      /\ IF at_end_of_log(buf)
         THEN c = CharEOF /\ b.pos = buf.pos /\ buf.pos = user.size /\ user.finished
         ELSE c \in Chars /\ b.pos = buf.pos + 1
  BY <1>1, <1>2, <1>3, MainFacts
<1>5. /\ y.first_delim \in Nat /\ y.last_match_pos \in Nat
      /\ TokenUncaughtString \in Types
  BY <1>1, <1>4, LexerTypes
<1>6. y.last_match_pos < y.first_delim /\ y.first_delim <= user.size
  BY <1>1, <1>4, <1>5
<1>7. BufferInv'
  BY <1>1, <1>3, <1>4 DEF BufferInv, Calls
<1>8. /\ lex' \in Lexers
      /\ ~lex'.asked /\ ~lex'.match
      /\ lex'.first_delim = y.first_delim
      /\ lex'.last_match_pos = y.first_delim
  BY <1>1, <1>4, <1>5 DEF Lexers
<1>9. /\ tok' \in Tokens(user.size)
      /\ tok'.start_pos = y.last_match_pos
      /\ tok'.end_pos = y.first_delim
      /\ tok'.type = TokenUncaughtString
  BY <1>1, <1>2, <1>5, NewTokenFields
<1>10. LexerInv'
  BY <1>1, <1>3, <1>4, <1>6, <1>8 DEF LexerInv, RestInv, MainInv, SkipInv, Pos
<1>11. TokenInv'
  <2>1. Pending' = y.first_delim
    BY <1>8 DEF Pending
  <2>2. QED
    BY <1>6, <1>9, <2>1 DEF TokenInv, TokenUncaughtString, TokenEnd, NoType
<1>12. Seam' = Seam
  BY <1>1, <1>2, <1>4, <1>9, ScanSeam DEF Seam, Pending
<1>13. QED
  BY <1>1, <1>2, <1>7, <1>10, <1>11, <1>12, ScanKeepsView DEF TextInv

\* Scan goes on to the skip loop.
LEMMA ScanSkipStep ==
  ASSUME TextInv, ScanSkip, UNCHANGED <<user, slot0>>
  PROVE  TextInv'
<1> USE DEF ScanSkip, input_vars, parse_vars, history
<1>1. PICK c, y :
        /\ c \in NextChars
        /\ y = Seen(c)
        /\ Stuck(c)
        /\ ~y.match
        /\ y.first_delim = Unset
        /\ lex' = [y EXCEPT !.state = Root]
        /\ buf' = taken(buf)
        /\ skip' = [prev |-> buf.pos, c |-> c]
        /\ pc' = "skip"
  OBVIOUS
<1>2. ScanFrame /\ pc \in Scanning /\ pc' \in Scanning /\ pc = "main" /\ MainLoop(c)
  BY <1>1 DEF ScanFrame, Scanning, MainLoop, Stuck
<1>3. PICK b : b = taken(buf)
  OBVIOUS
<1>4. /\ y \in Lexers
      /\ ~y.asked
      /\ y.match => /\ y.start_pos < y.match_pos /\ y.match_pos <= buf.pos
                    /\ y.type \notin {NoType, TokenEnd}
      /\ y.first_delim # Unset =>
           y.last_match_pos < y.first_delim /\ y.first_delim < b.pos
      /\ y.last_match_pos = lex.last_match_pos
      /\ y.last_match_pos <= y.start_pos /\ y.start_pos <= buf.pos
      /\ buf.pos \in Nat /\ user.size \in Nat /\ b.pos \in Nat
      /\ b.pos <= user.size
      /\ IsBuffer(b) /\ IsArray(b, user) /\ user \in Arrays
      /\ b.fully_consumed <=> at_end_of_log(buf)
      /\ IF at_end_of_log(buf)
         THEN c = CharEOF /\ b.pos = buf.pos /\ buf.pos = user.size /\ user.finished
         ELSE c \in Chars /\ b.pos = buf.pos + 1
  BY <1>1, <1>2, <1>3, MainFacts
<1>5. /\ lex' \in Lexers
      /\ ~lex'.asked /\ ~lex'.match
      /\ lex'.first_delim = Unset
      /\ lex'.last_match_pos = y.last_match_pos
      /\ lex'.state = Root
  BY <1>1, <1>4, SchemaAssumption DEF Lexers
<1>6. y.last_match_pos \in Nat /\ y.start_pos \in Nat
  BY <1>4, LexerTypes
<1>7. LexerInv'
  <2>1. skip'.prev = buf.pos
    BY <1>1
  <2>2. /\ y.last_match_pos <= buf.pos /\ buf.pos <= b.pos
        /\ b.fully_consumed => buf.pos = user.size
    BY <1>4, <1>6
  <2>3. SkipInv'
    BY <1>1, <1>3, <1>4, <1>5, <2>1, <2>2 DEF SkipInv
  <2>4. QED
    BY <1>1, <1>5, <2>3 DEF LexerInv, RestInv, MainInv
<1>8. BufferInv' /\ TokenInv'
  BY <1>1, <1>3, <1>4 DEF BufferInv, TokenInv, Calls
<1>9. Seam' = Seam
  BY <1>1, <1>2, <1>4, <1>5, ScanSeam DEF Seam, Pending
<1>10. QED
  BY <1>2, <1>7, <1>8, <1>9, ScanKeepsView DEF TextInv

\* One more character is skipped.
LEMMA SkipCharacterStep ==
  ASSUME TextInv, SkipCharacter, UNCHANGED <<user, slot0>>
  PROVE  TextInv'
<1> USE DEF SkipCharacter, input_vars, parse_vars, history
<1>1. ScanFrame /\ pc \in Scanning /\ pc' \in Scanning /\ pc' = "skip"
  BY DEF ScanFrame, Scanning
<1>2. /\ lex \in Lexers /\ user \in Arrays
      /\ IsBuffer(buf) /\ IsArray(buf, user)
      /\ user.size \in Nat /\ buf.pos \in Nat /\ buf.pos <= user.size
      /\ SkipInv
  BY <1>1, ScanFacts
<1>3. /\ IsBuffer(buf') /\ IsArray(buf', user)
      /\ buf'.pos = IF at_end_of_log(buf) THEN buf.pos ELSE buf.pos + 1
      /\ buf'.fully_consumed <=> at_end_of_log(buf)
  BY <1>2, TakenFields
<1>4. at_end_of_log(buf) <=> user.finished /\ buf.pos = user.size
  BY <1>2, ArrayEnds
<1>5. skip'.prev = buf.pos
  OBVIOUS
<1>6. LexerInv'
  <2>1. lex.last_match_pos \in Nat
    BY <1>2, LexerTypes
  <2>2. SkipInv'
    BY <1>2, <1>3, <1>4, <1>5, <2>1 DEF SkipInv
  <2>3. QED
    BY <1>2, <2>2 DEF LexerInv, RestInv, MainInv
<1>7. BufferInv' /\ TokenInv'
  BY <1>3 DEF BufferInv, TokenInv, Calls
<1>8. Seam' = Seam
  BY <1>1, ScanSeam DEF Seam, Pending
<1>9. QED
  BY <1>1, <1>6, <1>7, <1>8, ScanKeepsView DEF TextInv

\* Scan leaves the skip loop in front of the character that ended it.
LEMMA SkipEndStep ==
  ASSUME TextInv, SkipEnd, UNCHANGED <<user, slot0>>
  PROVE  TextInv'
<1> USE DEF SkipEnd, input_vars, parse_vars, history
<1>1. ScanFrame /\ pc \in Scanning /\ pc' \in Scanning /\ pc' = "main"
  BY DEF ScanFrame, Scanning
<1>2. /\ lex \in Lexers /\ user \in Arrays
      /\ IsBuffer(buf) /\ IsArray(buf, user)
      /\ user.size \in Nat /\ buf.pos \in Nat /\ buf.pos <= user.size
      /\ SkipInv
  BY <1>1, ScanFacts
<1>3. /\ IsBuffer(buf')
      /\ buf'.size = buf.size
      /\ buf'.storage = buf.storage
      /\ buf'.pos = skip.prev
      /\ buf'.last_read = buf.last_read
      /\ buf'.first_half = buf.first_half
      /\ buf'.finished = buf.finished
      /\ buf'.fully_consumed = buf.fully_consumed
  BY <1>2 DEF IsBuffer, set_pos
<1>4. /\ skip.prev \in 0 .. user.size
      /\ buf.fully_consumed => skip.prev = user.size
  BY <1>2 DEF SkipInv
<1>5. IsArray(buf', user)
  BY <1>2, <1>3, <1>4 DEF IsArray
<1>6. /\ lex' \in Lexers
      /\ lex'.asked = lex.asked /\ lex'.match = lex.match
      /\ lex'.first_delim = lex.first_delim
      /\ lex'.start_pos = skip.prev
      /\ lex'.last_match_pos = lex.last_match_pos
      /\ lex'.state = lex.state
  BY <1>2, <1>4 DEF Lexers
<1>7. LexerInv'
  <2>1. MainInv'
    BY <1>2, <1>3, <1>4, <1>6, RulesAssumption DEF SkipInv, MainInv, is_accepting
  <2>2. QED
    BY <1>6, <2>1 DEF LexerInv, RestInv, SkipInv
<1>8. BufferInv' /\ TokenInv'
  BY <1>3, <1>5 DEF BufferInv, TokenInv, Calls
<1>9. Seam' = Seam
  BY <1>1, <1>6, ScanSeam DEF Seam, Pending
<1>10. QED
  BY <1>1, <1>7, <1>8, <1>9, ScanKeepsView DEF TextInv

\* Every step of scan preserves the invariant.
LEMMA ScanStep ==
  ASSUME TextInv, Scan, UNCHANGED <<user, slot0>>
  PROVE  TextInv'
BY ScanResumeStep, ScanPreparedStep, ScanFreshStep, ScanOutOfBoundsStep,
   ScanNewlineStep, ScanContinueStep, ScanMatchStep, ScanLastTextStep,
   ScanEndStep, ScanUncaughtStep, ScanSkipStep, SkipCharacterStep, SkipEndStep
   DEF Scan

-----------------------------------------------------------------------------
(***************************************************************************)
(* The view.                                                               *)
(***************************************************************************)

\* Appending behind a first element.
LEMMA AppendBehind ==
  ASSUME NEW T, NEW a \in T, NEW r \in Seq(T), NEW t \in T
  PROVE  <<a>> \o Append(r, t) = Append(<<a>> \o r, t)
OBVIOUS

\* A token in the header's slot comes first.
LEMMA HeaderFirst ==
  ASSUME NEW T, NEW a \in T, NEW r \in Seq(T)
  PROVE  /\ <<a>> \o r \in Seq(T)
         /\ Len(<<a>> \o r) = Len(r) + 1
         /\ (<<a>> \o r)[1] = a
         /\ <<a>> \o << >> = <<a>>
OBVIOUS

\* What a view consists of.
LEMMA ViewRecord ==
  ASSUME NEW n, NEW h \in BOOLEAN, NEW f \in Tokens(n) \cup {NoToken},
         NEW r \in Seq(Tokens(n)), NEW v,
         v = [has_header |-> h, started |-> TRUE, slot0 |-> f, rest |-> r]
  PROVE  v \in Views(n)
BY Zenon DEF Views

\* The first token of an event.
LEMMA BeginView ==
  ASSUME NEW n, out \in Views(n), NEW t \in Tokens(n),
         out' = IF t.type = TokenHeader THEN set_header(out, t) ELSE set_first(out, t)
  PROVE  /\ out' \in Views(n)
         /\ out'.started
         /\ out'.has_header => out'.slot0.type = TokenHeader
         /\ EventTokens' = <<t>>
<1>1. /\ out = [ has_header |-> out.has_header, started |-> out.started,
                 slot0 |-> out.slot0, rest |-> out.rest ]
      /\ out.slot0 \in Tokens(n) \cup {NoToken}
  BY DEF Views
<1>2. PICK none \in Seq(Tokens(n)) : none = << >>
  <2>1. << >> \in Seq(Tokens(n))
    OBVIOUS
  <2>2. QED
    BY <2>1
<1>3. PICK one \in Seq(Tokens(n)) : one = <<t>>
  <2>1. <<t>> \in Seq(Tokens(n))
    OBVIOUS
  <2>2. QED
    BY <2>1
<1>4. CASE t.type = TokenHeader
  <2>1. out' = [has_header |-> TRUE, started |-> TRUE, slot0 |-> t, rest |-> none]
    BY <1>1, <1>2, <1>4 DEF set_header
  <2>2. out' \in Views(n)
    BY <1>2, <2>1, ViewRecord, Zenon
  <2>3. /\ out'.started
        /\ out'.has_header
        /\ out'.slot0 = t
        /\ out'.rest = << >>
    BY <1>2, <2>1
  <2>4. <<t>> \o << >> = <<t>>
    BY <1>2, HeaderFirst
  <2>5. EventTokens' = <<t>>
    BY <2>3, <2>4 DEF EventTokens
  <2>6. QED
    BY <1>4, <2>2, <2>3, <2>5
<1>5. CASE t.type # TokenHeader
  <2>1. out' = [has_header |-> FALSE, started |-> TRUE, slot0 |-> out.slot0, rest |-> one]
    BY <1>1, <1>3, <1>5 DEF set_first
  <2>2. out' \in Views(n)
    BY <1>1, <1>3, <2>1, ViewRecord, Zenon
  <2>3. /\ out'.started
        /\ ~out'.has_header
        /\ out'.rest = <<t>>
    BY <1>3, <2>1
  <2>4. QED
    BY <2>2, <2>3 DEF EventTokens
<1>6. QED
  BY <1>4, <1>5

\* Another token.
LEMMA AddView ==
  ASSUME NEW n, out \in Views(n), NEW t \in Tokens(n),
         out.has_header => out.slot0 \in Tokens(n),
         out' = add_token(out, t)
  PROVE  /\ out' \in Views(n)
         /\ out'.started = out.started
         /\ out'.has_header = out.has_header
         /\ out'.slot0 = out.slot0
         /\ EventTokens \in Seq(Tokens(n))
         /\ EventTokens' = Append(EventTokens, t)
<1>1. out' = [out EXCEPT !.rest = Append(out.rest, t)]
  BY DEF add_token
<1>2. out.rest \in Seq(Tokens(n))
  BY DEF Views
<1>3. Append(out.rest, t) \in Seq(Tokens(n))
  BY <1>2
<1>4. /\ out' \in Views(n)
      /\ out'.started = out.started
      /\ out'.has_header = out.has_header
      /\ out'.slot0 = out.slot0
      /\ out'.rest = Append(out.rest, t)
  BY <1>1, <1>3 DEF Views
<1>5. CASE out.has_header
  BY <1>2, <1>4, <1>5, AppendBehind, HeaderFirst DEF EventTokens
<1>6. CASE ~out.has_header
  BY <1>2, <1>4, <1>6 DEF EventTokens
<1>7. QED
  BY <1>4, <1>5, <1>6

-----------------------------------------------------------------------------
(***************************************************************************)
(* LogParser::parse: what its steps have in common, and one lemma per step.*)
(***************************************************************************)

\* What a step of parse leaves alone.
ParseFrame ==
  /\ UNCHANGED <<log, read_off, retired, lex, skip, from, intact>>
  /\ UNCHANGED <<user, slot0>>

\* The facts that the steps of parse start from.
LEMMA ParseFacts ==
  ASSUME TextInv, pc \in {"parse", "token"}
  PROVE  /\ lex \in Lexers /\ user \in Arrays
         /\ user.size \in Nat /\ user.base \in Nat /\ user.offset \in Nat
         /\ IsBuffer(buf) /\ IsArray(buf, user)
         /\ buf.pos \in Nat /\ buf.pos <= user.size
         /\ out \in Views(user.size)
         /\ ~done /\ retired = << >>
<1>1. /\ lex \in Lexers /\ user \in Arrays
      /\ IsBuffer(buf) /\ IsArray(buf, user)
      /\ out \in Views(user.size)
      /\ ~done /\ retired = << >>
  BY DEF TextInv, LexerInv, ArrayInv, BufferInv, ViewInv, Calls
<1>2. QED
  BY <1>1, ArrayEnds DEF Arrays

\* The lexer, the array and the positions in it stay what they are.
LEMMA ParseKeepsLexer ==
  ASSUME TextInv, ParseFrame, pc \in {"parse", "token"}, pc' \in {"scan", "event"},
         IsBuffer(buf'), IsArray(buf', user), buf'.pos = buf.pos,
         done' \in BOOLEAN, done' => pc' = "event"
  PROVE  /\ ArrayInv' /\ BufferInv' /\ LexerInv' /\ TokenInv'
         /\ Pending' = Pending
<1> USE DEF TextInv, ParseFrame
<1>1. ArrayInv'
  BY DEF ArrayInv, Calls
<1>2. BufferInv'
  BY DEF BufferInv
<1>3. Pos' = Pos /\ FreshLexer' = FreshLexer
  BY DEF Pos, FreshLexer
<1>4. LexerInv'
  <2>1. RestInv'
    BY <1>3 DEF LexerInv, RestInv
  <2>2. QED
    BY <2>1 DEF LexerInv, MainInv, SkipInv
<1>5. TokenInv'
  BY DEF TokenInv
<1>6. Pending' = Pending
  BY DEF Pending
<1>7. QED
  BY <1>1, <1>2, <1>4, <1>5, <1>6

\* Token t is added to the view.
AddedToView(t) ==
  \/ /\ ~out.started
     /\ out' = IF t.type = TokenHeader THEN set_header(out, t) ELSE set_first(out, t)
  \/ out.started /\ out' = add_token(out, t)

\* A token that begins where the next one should is added: the tokens of the
\* view still follow each other.
LEMMA GrowView ==
  ASSUME TextInv, ParseFrame, pc \in {"parse", "token"}, pc' \in {"scan", "event"},
         NEW t, Placed(t, user.size), t.start_pos = Seam, AddedToView(t)
  PROVE  /\ ViewInv'
         /\ out'.started
         /\ EventTokens' # << >>
         /\ EventTokens'[Len(EventTokens')] = t
<1>1. /\ out \in Views(user.size)
      /\ pc = "parse" => ~out.started
      /\ user.size \in Nat
  BY ParseFacts DEF TextInv, ViewInv, Calls
<1>2. t \in Tokens(user.size)
  BY DEF Placed
<1>3. CASE ~out.started
  <2>1. /\ out' \in Views(user.size)
        /\ out'.started
        /\ out'.has_header => out'.slot0.type = TokenHeader
        /\ EventTokens' = <<t>>
    BY <1>1, <1>2, <1>3, BeginView DEF AddedToView
  <2>2. EventTokens = << >>
    BY <1>3 DEF TextInv, ViewInv, Calls, out_reset, EventTokens
  <2>3. "text" \in intact => from = user.base + Seam
    BY <2>2 DEF TextInv, SeamInv, Calls
  <2>4. out'.slot0 # NoToken => out'.slot0.start_pos \in Nat
    BY <2>1 DEF Views, Tokens
  <2>5. /\ EventTokens' # << >>
        /\ Len(EventTokens') = 1
        /\ EventTokens'[1] = t
    BY <2>1
  <2>6. ViewInv'
    BY <2>1, <2>3, <2>4, <2>5 DEF ViewInv, ParseFrame
  <2>7. QED
    BY <2>1, <2>5, <2>6
<1>4. CASE out.started
  <2>1. pc = "token" /\ out' = add_token(out, t)
    BY <1>1, <1>4 DEF AddedToView
  <2>2. /\ EventTokens # << >>
        /\ out.has_header => out.slot0.type = TokenHeader
        /\ \A k \in 1 .. Len(EventTokens) : Placed(EventTokens[k], user.size)
        /\ \A k \in 2 .. Len(EventTokens) :
             EventTokens[k].start_pos = EventTokens[k - 1].end_pos
        /\ EventTokens # << >> /\ "text" \in intact =>
             user.base + EventTokens[1].start_pos = from
    BY <1>4, <2>1 DEF TextInv, ViewInv, Calls
  <2>3. out.has_header => out.slot0 \in Tokens(user.size)
    <3>1. NoToken.type = NoType /\ NoType # TokenHeader
      BY DEF NoToken, NoType, TokenHeader
    <3>2. QED
      BY <1>1, <2>2, <3>1 DEF Views
  <2>4. /\ out' \in Views(user.size)
        /\ out'.started = out.started
        /\ out'.has_header = out.has_header
        /\ out'.slot0 = out.slot0
        /\ EventTokens \in Seq(Tokens(user.size))
        /\ EventTokens' = Append(EventTokens, t)
    BY <1>1, <1>2, <2>1, <2>3, AddView
  <2>5. EventTokens[Len(EventTokens)].end_pos = Seam
    BY <2>1, <2>2 DEF TextInv, SeamInv, Calls
  <2>6. PICK m \in Nat : m = Len(EventTokens) /\ m >= 1
    BY <2>2, <2>4
  <2>7. /\ Len(EventTokens') = m + 1
        /\ EventTokens'[m + 1] = t
        /\ \A k \in 1 .. m : EventTokens'[k] = EventTokens[k]
        /\ EventTokens' # << >>
    BY <2>4, <2>6
  <2>8. \A k \in 1 .. Len(EventTokens') : Placed(EventTokens'[k], user.size)
    BY <2>2, <2>6, <2>7
  <2>9. \A k \in 2 .. Len(EventTokens') :
          EventTokens'[k].start_pos = EventTokens'[k - 1].end_pos
    BY <2>2, <2>5, <2>6, <2>7
  <2>10. "text" \in intact => user.base + EventTokens'[1].start_pos = from
    BY <2>2, <2>6, <2>7
  <2>11. out'.slot0 # NoToken => out'.slot0.start_pos \in Nat
    BY <2>4 DEF Views, Tokens
  <2>12. ViewInv'
    BY <1>4, <2>2, <2>4, <2>7, <2>8, <2>9, <2>10, <2>11 DEF ViewInv, ParseFrame
  <2>13. QED
    BY <1>4, <2>4, <2>6, <2>7, <2>12
<1>5. QED
  BY <1>3, <1>4

\* The whole invariant after such a step.
LEMMA GrowStep ==
  ASSUME TextInv, ParseFrame, pc \in {"parse", "token"}, pc' \in {"scan", "event"},
         IsBuffer(buf'), IsArray(buf', user), buf'.pos = buf.pos, done' = done,
         NEW t, Placed(t, user.size), t.start_pos = Seam, AddedToView(t),
         KeptInv', Seam' = t.end_pos,
         pc' = "event" => /\ t.start_pos < t.end_pos
                          /\ start_of_log' = NoToken => buf'.pos = Pending
  PROVE  TextInv'
<1>1. ~done /\ ~done' /\ done' \in BOOLEAN
  BY ParseFacts DEF TextInv, ArrayInv
<1>2. /\ ArrayInv' /\ BufferInv' /\ LexerInv' /\ TokenInv'
      /\ Pending' = Pending
  BY <1>1, ParseKeepsLexer
<1>3. /\ ViewInv'
      /\ out'.started
      /\ EventTokens' # << >>
      /\ EventTokens'[Len(EventTokens')] = t
  BY GrowView
<1>4. SeamInv'
  <2>1. /\ t.start_pos \in Nat /\ t.end_pos \in Nat /\ t.start_pos <= t.end_pos
        /\ user.base \in Nat
    BY ParseFacts DEF Placed, Tokens
  <2>2. "text" \in intact => /\ from \in Nat /\ from <= Len(log)
                             /\ from <= user.base + t.start_pos
    BY DEF TextInv, SeamInv
  <2>3. QED
    BY <1>1, <1>3, <2>1, <2>2 DEF SeamInv, ParseFrame
<1>5. OffsetInv'
  <2>1. "text" \in intact => user.offset <= user.size
    BY DEF TextInv, OffsetInv
  <2>2. QED
    BY <1>2, <1>3, <2>1 DEF OffsetInv, ParseFrame
<1>6. QED
  BY <1>2, <1>3, <1>4, <1>5 DEF TextInv

\* The output buffer's position is 0 as long as the event has no token.
LEMMA OutPosition ==
  ASSUME TextInv, pc \in {"parse", "token"}
  PROVE  out_pos(out) = 0 <=> ~out.started
<1>1. Len(out.rest) \in Nat
  BY ParseFacts DEF Views
<1>2. QED
  BY <1>1 DEF out_pos

\* The token that scan has returned lies in the array and begins where the
\* view ends.
LEMMA ScannedToken ==
  ASSUME TextInv, pc = "token", tok.type # TokenEnd
  PROVE  /\ Placed(tok, user.size)
         /\ tok.start_pos < tok.end_pos
         /\ tok.start_pos = Seam /\ tok.end_pos = Pending
         /\ start_of_log = NoToken
<1>1. /\ tok \in Tokens(user.size)
      /\ tok.end_pos = Pending /\ tok.end_pos <= user.size
      /\ tok.type # NoType
      /\ tok.start_pos < tok.end_pos
  BY DEF TextInv, TokenInv
<1>2. tok.start_pos \in Nat /\ tok.end_pos \in Nat
  BY <1>1 DEF Tokens
<1>3. Placed(tok, user.size)
  BY <1>1, <1>2 DEF Placed
<1>4. tok.start_pos = Seam
  BY DEF Seam
<1>5. start_of_log = NoToken
  BY DEF TextInv, KeptInv
<1>6. QED
  BY <1>1, <1>3, <1>4, <1>5

\* parse goes on with the token that the last call kept.
LEMMA UseStartOfLogStep ==
  ASSUME TextInv, UseStartOfLog, UNCHANGED <<user, slot0>>
  PROVE  TextInv'
<1>1. PICK t : t = start_of_log
  OBVIOUS
<1>2. /\ pc = "parse" /\ out_pos(out) = 0
      /\ BeginEvent(t)
      /\ UNCHANGED buf
      /\ ParseFrame
  BY <1>1 DEF UseStartOfLog, ParseFrame, history, input_vars
<1>3. /\ Placed(t, user.size)
      /\ t.type # TokenEnd
      /\ t.end_pos = Pending
      /\ t.start_pos = Seam
  BY <1>1, <1>2 DEF TextInv, KeptInv, Seam, UseStartOfLog
<1>4. /\ out' = IF t.type = TokenHeader THEN set_header(out, t) ELSE set_first(out, t)
      /\ start_of_log' = NoToken
      /\ pc' = "scan"
      /\ done' = done
  BY <1>2, <1>3 DEF BeginEvent
<1>5. AddedToView(t)
  BY <1>2, <1>4, OutPosition DEF AddedToView
<1>6. IsBuffer(buf') /\ IsArray(buf', user) /\ buf'.pos = buf.pos
  BY <1>2, ParseFacts
<1>7. KeptInv'
  BY <1>4 DEF KeptInv
<1>8. Seam' = t.end_pos
  <2>1. Pending' = Pending
    BY <1>2, <1>4 DEF Pending, ParseFrame
  <2>2. QED
    BY <1>3, <1>4, <2>1 DEF Seam
<1>9. QED
  BY <1>2, <1>3, <1>4, <1>5, <1>6, <1>7, <1>8, GrowStep

\* parse calls scan.
LEMMA GetNextSymbolStep ==
  ASSUME TextInv, GetNextSymbol, UNCHANGED <<user, slot0>>
  PROVE  TextInv'
<1>1. /\ pc = "parse" /\ pc' = "scan"
      /\ UNCHANGED <<buf, lex, tok, out, start_of_log, done>>
      /\ ParseFrame
  BY DEF GetNextSymbol, ParseFrame, parse_vars, history, input_vars
<1>2. ~out.started /\ start_of_log = NoToken /\ ~done
  <2>1. ~out.started
    BY <1>1 DEF TextInv, ViewInv, Calls
  <2>2. QED
    BY <1>1, <2>1, OutPosition, ParseFacts DEF GetNextSymbol
<1>3. /\ ArrayInv' /\ BufferInv' /\ LexerInv' /\ TokenInv'
      /\ Pending' = Pending
  <2>1. done' \in BOOLEAN /\ ~done'
    BY <1>1, <1>2 DEF TextInv, ArrayInv
  <2>2. QED
    BY <1>1, <2>1, ParseFacts, ParseKeepsLexer
<1>4. KeptInv'
  BY <1>1, <1>2 DEF KeptInv
<1>5. EventTokens' = EventTokens /\ Seam' = Seam
  BY <1>1, <1>2, <1>3 DEF EventTokens, Seam
<1>6. ViewInv'
  BY <1>1, <1>2, <1>5 DEF TextInv, ViewInv, Calls, ParseFrame
<1>7. SeamInv'
  BY <1>1, <1>2, <1>5 DEF TextInv, SeamInv, Calls, ParseFrame
<1>8. OffsetInv'
  BY <1>1, <1>2 DEF TextInv, OffsetInv, Calls, ParseFrame
<1>9. QED
  BY <1>3, <1>4, <1>6, <1>7, <1>8 DEF TextInv

\* '\n' and the rest of the token it begins.
LEMMA NewlineParts ==
  ASSUME TextInv, pc = "token", tok.type # TokenEnd,
         NEW t, t = NewlineOf(tok),
         NEW r, r = [tok EXCEPT !.start_pos = TokenNextPos(tok)]
  PROVE  /\ Placed(t, user.size)
         /\ t.type = TokenUncaughtString
         /\ t.start_pos = tok.start_pos /\ t.end_pos = tok.start_pos + 1
         /\ Placed(r, user.size)
         /\ r.type = tok.type
         /\ r.start_pos = tok.start_pos + 1 /\ r.end_pos = tok.end_pos
         /\ r # NoToken
<1>1. /\ tok \in Tokens(user.size)
      /\ tok.start_pos \in Nat /\ tok.end_pos \in Nat /\ user.size \in Nat
      /\ tok.start_pos < tok.end_pos /\ tok.end_pos <= user.size
      /\ tok.type # NoType
      /\ tok.buffer_size = 2 * user.size
  BY ScannedToken, ParseFacts DEF Placed, Tokens
<1>2. TokenNextPos(tok) = tok.start_pos + 1
  BY <1>1 DEF TokenNextPos
<1>3. TokenUncaughtString \in Types /\ TokenUncaughtString # NoType
  BY DEF Types, TokenUncaughtString, NoType
<1>4. PICK q \in Nat : q = tok.start_pos + 1
  BY <1>1
<1>5. /\ t \in Tokens(user.size)
      /\ t.start_pos = tok.start_pos
      /\ t.end_pos = q
      /\ t.type = TokenUncaughtString
  BY <1>1, <1>2, <1>3, <1>4 DEF NewlineOf, Tokens
<1>6. /\ r \in Tokens(user.size)
      /\ r.start_pos = q
      /\ r.end_pos = tok.end_pos
      /\ r.type = tok.type
  BY <1>1, <1>2, <1>4 DEF Tokens
<1>7. Placed(t, user.size)
  BY <1>1, <1>3, <1>4, <1>5 DEF Placed
<1>8. Placed(r, user.size)
  BY <1>1, <1>4, <1>6 DEF Placed
<1>9. r # NoToken
  BY <1>1, <1>6 DEF NoToken
<1>10. QED
  BY <1>4, <1>5, <1>6, <1>7, <1>8, <1>9

\* '\n' ends the event and the rest of the token is kept for the next one.
LEMMA SplitStep ==
  ASSUME TextInv, ParseFrame, pc = "token", tok.type # TokenEnd,
         AddedToView(NewlineOf(tok)), SplitAtNewline(tok), done' = done
  PROVE  TextInv'
<1>1. PICK t : t = NewlineOf(tok)
  OBVIOUS
<1>2. PICK r : r = [tok EXCEPT !.start_pos = TokenNextPos(tok)]
  OBVIOUS
<1>3. /\ start_of_log' = r
      /\ buf' = set_consumed_pos(buf, tok.start_pos)
      /\ pc' = "event"
  BY <1>2 DEF SplitAtNewline
<1>4. /\ Placed(t, user.size)
      /\ t.start_pos = tok.start_pos /\ t.end_pos = tok.start_pos + 1
      /\ Placed(r, user.size)
      /\ r.type = tok.type
      /\ r.start_pos = tok.start_pos + 1 /\ r.end_pos = tok.end_pos
      /\ r # NoToken
  BY <1>1, <1>2, NewlineParts
<1>5. /\ tok.start_pos \in Nat
      /\ tok.start_pos = Seam /\ tok.end_pos = Pending
      /\ ~done
  BY ScannedToken, ParseFacts DEF Placed, Tokens
<1>6. IsBuffer(buf') /\ IsArray(buf', user) /\ buf'.pos = buf.pos
  BY <1>3, ParseFacts, ConsumedFields
<1>7. Pending' = Pending
  BY <1>3 DEF Pending, ParseFrame
<1>8. KeptInv'
  BY <1>3, <1>4, <1>5, <1>7 DEF KeptInv, ParseFrame
<1>9. Seam' = t.end_pos
  BY <1>3, <1>4 DEF Seam
<1>10. t.start_pos < t.end_pos
  BY <1>4, <1>5
<1>11. QED
  BY <1>1, <1>3, <1>4, <1>5, <1>6, <1>8, <1>9, <1>10, GrowStep

\* "make a message with just the '\n' character".
LEMMA FirstTokenNewlineStep ==
  ASSUME TextInv, FirstTokenNewline, UNCHANGED <<user, slot0>>
  PROVE  TextInv'
<1>1. /\ pc = "token" /\ out_pos(out) = 0
      /\ tok.type # TokenEnd
      /\ out' = set_first(out, NewlineOf(tok))
      /\ SplitAtNewline(tok)
      /\ done' = done
      /\ ParseFrame
  BY DEF FirstTokenNewline, ParseFrame, history, input_vars, TokenHeader, TokenEnd
<1>2. NewlineOf(tok).type # TokenHeader
  BY <1>1, NewlineParts DEF TokenUncaughtString, TokenHeader
<1>3. AddedToView(NewlineOf(tok))
  BY <1>1, <1>2, OutPosition DEF AddedToView
<1>4. QED
  BY <1>1, <1>3, SplitStep

\* '\n' before the next event.
LEMMA NextTokenStartStep ==
  ASSUME TextInv, NextTokenStart, UNCHANGED <<user, slot0>>
  PROVE  TextInv'
<1>1. /\ pc = "token" /\ out_pos(out) # 0
      /\ tok.type # TokenEnd
      /\ out' = add_token(out, NewlineOf(tok))
      /\ SplitAtNewline(tok)
      /\ done' = done
      /\ ParseFrame
  BY DEF NextTokenStart, ParseFrame, history, input_vars
<1>2. AddedToView(NewlineOf(tok))
  BY <1>1, OutPosition DEF AddedToView
<1>3. QED
  BY <1>1, <1>2, SplitStep

\* The token goes to the view and parse goes on.
LEMMA WholeTokenStep ==
  ASSUME TextInv, ParseFrame, pc = "token", tok.type # TokenEnd,
         AddedToView(tok), done' = done,
         start_of_log' = NoToken, pc' \in {"scan", "event"},
         IsBuffer(buf'), IsArray(buf', user), buf'.pos = buf.pos,
         pc' = "event" => buf'.pos = Pending
  PROVE  TextInv'
<1>1. /\ Placed(tok, user.size)
      /\ tok.start_pos < tok.end_pos
      /\ tok.start_pos = Seam /\ tok.end_pos = Pending
  BY ScannedToken
<1>2. KeptInv'
  BY DEF KeptInv
<1>3. Seam' = tok.end_pos
  <2>1. Pending' = Pending
    BY DEF Pending, ParseFrame
  <2>2. QED
    BY <1>1, <2>1 DEF Seam
<1>4. PICK t : t = tok
  OBVIOUS
<1>5. /\ Placed(t, user.size)
      /\ t.start_pos < t.end_pos
      /\ t.start_pos = Seam
      /\ Seam' = t.end_pos
      /\ AddedToView(t)
  BY <1>1, <1>3, <1>4
<1>6. QED
  BY <1>2, <1>5, GrowStep

\* The first token of an event, or the end of the log.
LEMMA FirstTokenStep ==
  ASSUME TextInv, FirstToken, UNCHANGED <<user, slot0>>
  PROVE  TextInv'
<1>1. /\ pc = "token" /\ out_pos(out) = 0
      /\ BeginEvent(tok)
      /\ UNCHANGED <<buf, tok>>
      /\ ParseFrame
  BY DEF FirstToken, ParseFrame, history, input_vars
<1>2. ~out.started
  BY <1>1, OutPosition
<1>3. IsBuffer(buf') /\ IsArray(buf', user) /\ buf'.pos = buf.pos
  BY <1>1, ParseFacts
<1>4. CASE tok.type # TokenEnd
  <2>1. /\ out' = IF tok.type = TokenHeader THEN set_header(out, tok) ELSE set_first(out, tok)
        /\ start_of_log' = NoToken
        /\ pc' = "scan"
        /\ done' = done
    BY <1>1, <1>4 DEF BeginEvent
  <2>2. AddedToView(tok)
    BY <1>2, <2>1 DEF AddedToView
  <2>3. QED
    BY <1>1, <1>3, <1>4, <2>1, <2>2, WholeTokenStep
<1>5. CASE tok.type = TokenEnd
  <2>1. /\ out' = set_end(out, tok)
        /\ done' = TRUE /\ pc' = "event"
        /\ UNCHANGED start_of_log
    BY <1>1, <1>5 DEF BeginEvent, Finish
  <2>2. /\ tok \in Tokens(user.size)
        /\ tok.start_pos = user.size /\ tok.end_pos = user.size
        /\ tok.end_pos = Pending /\ user.finished
        /\ Seam = tok.start_pos
        /\ start_of_log = NoToken
    BY <1>1, <1>5 DEF TextInv, TokenInv, KeptInv, Seam
  <2>3. /\ out = out_reset
        /\ out \in Views(user.size)
        /\ user.size \in Nat /\ user.base \in Nat
        /\ Len(log) = user.base + user.size
    <3>1. out = out_reset /\ out \in Views(user.size)
      BY <1>1, <1>2 DEF TextInv, ViewInv, Calls
    <3>2. Len(log) = user.base + user.size
      BY <2>2 DEF TextInv, ArrayInv
    <3>3. QED
      BY <1>1, <3>1, <3>2, ParseFacts
  <2>4. out' = [has_header |-> FALSE, started |-> TRUE, slot0 |-> tok, rest |-> << >>]
    BY <2>1, <2>3 DEF set_end, out_reset
  <2>5. out' \in Views(user.size)
    <3>1. << >> \in Seq(Tokens(user.size))
      OBVIOUS
    <3>2. FALSE \in BOOLEAN
      OBVIOUS
    <3>3. QED
      BY <2>2, <2>4, <3>1, <3>2, ViewRecord, Zenon
  <2>6. /\ ~out'.has_header
        /\ out'.started
        /\ out'.slot0 = tok
        /\ out'.rest = << >>
    BY <2>4
  <2>7. EventTokens' = << >> /\ EventTokens = << >>
    BY <2>3, <2>6 DEF EventTokens, out_reset
  <2>8. /\ ArrayInv' /\ BufferInv' /\ LexerInv' /\ TokenInv'
        /\ Pending' = Pending
    BY <1>1, <1>3, <2>1, ParseKeepsLexer
  <2>9. KeptInv'
    BY <2>1, <2>2 DEF KeptInv
  <2>10. Seam' = user.size
    BY <2>1, <2>2, <2>8 DEF Seam
  <2>11. ViewInv'
    <3>1. tok.start_pos \in Nat
      BY <2>2 DEF Tokens
    <3>2. Len(EventTokens') = 0
      BY <2>7
    <3>3. QED
      BY <1>1, <2>1, <2>5, <2>6, <2>7, <3>1, <3>2 DEF ViewInv, ParseFrame
  <2>12. SeamInv'
    <3>1. "text" \in intact => from = user.base + user.size
      BY <1>1, <2>2, <2>7 DEF TextInv, SeamInv, Calls
    <3>2. QED
      BY <1>1, <2>1, <2>3, <2>7, <2>10, <3>1 DEF SeamInv, ParseFrame
  <2>13. OffsetInv'
    BY <1>1, <2>1 DEF TextInv, OffsetInv, ParseFrame
  <2>14. QED
    BY <2>8, <2>9, <2>11, <2>12, <2>13 DEF TextInv
<1>6. QED
  BY <1>4, <1>5

\* The log ends with an event.
LEMMA NextTokenEndStep ==
  ASSUME TextInv, NextTokenEnd, UNCHANGED <<user, slot0>>
  PROVE  TextInv'
<1>1. /\ pc = "token" /\ out_pos(out) # 0
      /\ tok.type = TokenEnd
      /\ done' = TRUE /\ pc' = "event"
      /\ UNCHANGED <<buf, tok, out, start_of_log>>
      /\ ParseFrame
  BY DEF NextTokenEnd, Finish, ParseFrame, history, input_vars
<1>2. out.started /\ EventTokens # << >>
  BY <1>1, OutPosition DEF TextInv, ViewInv, Calls
<1>3. /\ tok.start_pos = user.size /\ tok.end_pos = user.size
      /\ tok.end_pos = Pending /\ user.finished
      /\ Seam = tok.start_pos
      /\ start_of_log = NoToken
  BY <1>1 DEF TextInv, TokenInv, KeptInv, Seam
<1>4. Len(log) = user.base + user.size
  BY <1>3 DEF TextInv, ArrayInv
<1>5. /\ ArrayInv' /\ BufferInv' /\ LexerInv' /\ TokenInv'
      /\ Pending' = Pending
  BY <1>1, ParseFacts, ParseKeepsLexer
<1>6. KeptInv'
  BY <1>1, <1>3 DEF KeptInv
<1>7. Seam' = Seam /\ EventTokens' = EventTokens
  BY <1>1, <1>3, <1>5 DEF Seam, EventTokens
<1>8. ViewInv'
  BY <1>1, <1>7 DEF TextInv, ViewInv, Calls, ParseFrame
<1>9. SeamInv'
  BY <1>1, <1>2, <1>3, <1>4, <1>7 DEF TextInv, SeamInv, Calls, ParseFrame
<1>10. OffsetInv'
  BY <1>1 DEF TextInv, OffsetInv, ParseFrame
<1>11. QED
  BY <1>5, <1>6, <1>8, <1>9, <1>10 DEF TextInv

\* '\n' ends an event without a header.
LEMMA NextTokenNewlineStep ==
  ASSUME TextInv, NextTokenNewline, UNCHANGED <<user, slot0>>
  PROVE  TextInv'
<1>1. /\ pc = "token" /\ out_pos(out) # 0
      /\ tok.type = TokenNewline /\ tok.type # TokenEnd
      /\ buf' = set_consumed_pos(buf, tok.end_pos)
      /\ out' = add_token(out, tok)
      /\ pc' = "event"
      /\ UNCHANGED <<start_of_log, done>>
      /\ ParseFrame
  BY DEF NextTokenNewline, ParseFrame, history, input_vars, TokenNewline, TokenEnd
<1>2. IsBuffer(buf') /\ IsArray(buf', user) /\ buf'.pos = buf.pos
  BY <1>1, ParseFacts, ConsumedFields
<1>3. AddedToView(tok)
  BY <1>1, OutPosition DEF AddedToView
<1>4. start_of_log = NoToken
  BY <1>1, ScannedToken
<1>5. buf.pos = Pending
  <2>1. ~lex.asked /\ ~lex.match /\ lex.first_delim = Unset
    BY <1>1 DEF TextInv, TokenInv, TokenNewline, TokenUncaughtString, TokenEnd
  <2>2. ~FreshLexer
    BY <2>1 DEF FreshLexer, prepend_start_of_file_char, lexer_reset
  <2>3. QED
    BY <1>1, <2>1, <2>2 DEF TextInv, LexerInv, RestInv, Pos, Pending
<1>6. QED
  BY <1>1, <1>2, <1>3, <1>4, <1>5, WholeTokenStep

\* One more token of the event.
LEMMA NextTokenStep ==
  ASSUME TextInv, NextToken, UNCHANGED <<user, slot0>>
  PROVE  TextInv'
<1>1. /\ pc = "token" /\ out_pos(out) # 0
      /\ tok.type # TokenEnd
      /\ out' = add_token(out, tok)
      /\ pc' = "scan"
      /\ UNCHANGED <<buf, start_of_log, done>>
      /\ ParseFrame
  BY DEF NextToken, ParseFrame, history, input_vars
<1>2. AddedToView(tok)
  BY <1>1, OutPosition DEF AddedToView
<1>3. start_of_log = NoToken
  BY <1>1, ScannedToken
<1>4. QED
  BY <1>1, <1>2, <1>3, ParseFacts, WholeTokenStep

\* Every step of parse preserves the invariant.
LEMMA ParseStep ==
  ASSUME TextInv, Parse, UNCHANGED <<user, slot0>>
  PROVE  TextInv'
BY UseStartOfLogStep, GetNextSymbolStep, FirstTokenNewlineStep, FirstTokenStep,
   NextTokenEndStep, NextTokenNewlineStep, NextTokenStartStep, NextTokenStep
   DEF Parse

-----------------------------------------------------------------------------
(***************************************************************************)
(* BufferParser::parse_next_event and the application.                     *)
(***************************************************************************)

\* The lexer after a reset.
LEMMA FreshFields ==
  ASSUME NEW x, x = prepend_start_of_file_char(lexer_reset, reset(StaticSize))
  PROVE  /\ x \in Lexers
         /\ x.asked /\ ~x.match
         /\ x.last_match_pos = 0 /\ x.first_delim = Unset
<1>1. PICK z : z = lexer_reset
  OBVIOUS
<1>2. reset(StaticSize).pos = 0
  BY DEF reset
<1>3. x = [z EXCEPT !.state = StartOfFile, !.asked = TRUE, !.start_pos = 0,
                    !.match_pos = 0, !.type = NoType]
  BY <1>1, <1>2 DEF prepend_start_of_file_char
<1>4. x = [ asked |-> TRUE, match |-> FALSE, match_pos |-> 0, start_pos |-> 0,
            last_match_pos |-> 0, first_delim |-> Unset, state |-> StartOfFile,
            type |-> NoType ]
  BY <1>1, <1>3 DEF lexer_reset
<1>5. StartOfFile \in DfaStates /\ NoType \in Types
  BY SchemaAssumption DEF Types
<1>6. x \in Lexers
  BY <1>4, <1>5 DEF Lexers
<1>7. QED
  BY <1>4, <1>6

\* The input buffer after a reset.
LEMMA ResetBuffer ==
  ASSUME NEW b, b = reset(StaticSize)
  PROVE  IsBuffer(b)
BY DEF reset, IsBuffer

\* What the application's array consists of.
LEMMA ArrayRecord ==
  ASSUME NEW c \in Nat, NEW b \in Nat, NEW n \in Nat, NEW o \in Nat, NEW f \in BOOLEAN,
         NEW u, u = [cap |-> c, base |-> b, size |-> n, offset |-> o, finished |-> f]
  PROVE  u \in Arrays
BY Zenon DEF Arrays

\* The application has a new log and the parser is as reset leaves it.
NewLog ==
  /\ log \in Seq(Chars)
  /\ user = NewArray(log)
  /\ slot0 \in Nat
  /\ retired = << >>
  /\ buf = reset(StaticSize)
  /\ FreshLexer
  /\ out = out_reset
  /\ start_of_log = NoToken
  /\ pc = "ready"
  /\ done = FALSE
  /\ from = 0

\* Such a state satisfies the invariant.
LEMMA NewLogInv == NewLog => TextInv
<1> SUFFICES ASSUME NewLog PROVE TextInv
  OBVIOUS
<1> USE DEF NewLog
<1>1. PICK n \in Nat : n = Len(log)
  OBVIOUS
<1>2. FirstCap \in Nat
  BY InputAssumption
<1>3. PICK m \in Nat : m = IF n < FirstCap THEN n ELSE FirstCap
  BY <1>2
<1>4. PICK f \in BOOLEAN : f <=> n < FirstCap
  <2>1. (n < FirstCap) \in BOOLEAN
    OBVIOUS
  <2>2. QED
    BY <2>1, Zenon
<1>5. user = [cap |-> FirstCap, base |-> 0, size |-> m, offset |-> 0, finished |-> f]
  BY <1>1, <1>3, <1>4 DEF NewArray
<1>6. /\ user \in Arrays
      /\ user.size = m /\ user.cap = FirstCap /\ user.base = 0 /\ user.offset = 0
      /\ user.finished = f
  <2>1. 0 \in Nat
    OBVIOUS
  <2>2. user \in Arrays
    BY <1>2, <1>5, <2>1, ArrayRecord
  <2>3. QED
    BY <1>5, <2>2
<1>7. ArrayInv
  <2>1. user.size <= user.cap /\ user.base + user.size <= Len(log)
    BY <1>1, <1>2, <1>3, <1>6
  <2>2. user.finished => user.base + user.size = Len(log)
    BY <1>1, <1>2, <1>3, <1>4, <1>6
  <2>3. done \in BOOLEAN /\ ~done
    OBVIOUS
  <2>4. QED
    BY <1>6, <2>1, <2>2, <2>3 DEF ArrayInv, Calls
<1>8. BufferInv
  BY ResetBuffer DEF BufferInv, Calls
<1>9. /\ lex \in Lexers
      /\ ~lex.match /\ lex.last_match_pos = 0
  BY FreshFields DEF FreshLexer
<1>10. Pos = 0
  BY <1>6 DEF Pos
<1>11. LexerInv
  BY <1>3, <1>6, <1>9, <1>10 DEF LexerInv, RestInv, MainInv, SkipInv
<1>12. TokenInv /\ KeptInv
  BY DEF TokenInv, KeptInv
<1>13. ViewInv
  BY DEF ViewInv, out_reset, Calls
<1>14. Seam = 0
  BY <1>9 DEF Seam, Pending
<1>15. SeamInv
  BY <1>1, <1>6, <1>14 DEF SeamInv, Calls
<1>16. OffsetInv
  BY <1>3, <1>6 DEF OffsetInv, Calls
<1>17. QED
  BY <1>7, <1>8, <1>11, <1>12, <1>13, <1>15, <1>16 DEF TextInv

\* The initial states are such states.
LEMMA InitTextInv == Init => TextInv
<1>1. Init => NewLog
  BY InputAssumption DEF Init, NewLog, FreshLexer
<1>2. QED
  BY <1>1, NewLogInv

\* What get_token(0) may be.
LEMMA FirstSlotNat ==
  ASSUME TextInv
  PROVE  FirstSlot \in Nat
BY DEF TextInv, ArrayInv, ViewInv, FirstSlot

\* The application starts with another log.
LEMMA ResetStep ==
  ASSUME TextInv, Reset
  PROVE  TextInv'
<1>1. start_of_log = NoToken
  BY DEF Reset, TextInv, KeptInv
<1>2. retired = << >>
  BY DEF TextInv, ArrayInv
<1>3. log' \in Seq(Chars) /\ user' = NewArray(log')
  <2>1. PICK l \in NextLogs : log' = l /\ user' = NewArray(l)
    BY DEF Reset
  <2>2. QED
    BY <2>1, InputAssumption
<1>4. slot0' \in Nat
  BY FirstSlotNat DEF Reset
<1>5. NewLog'
  BY <1>1, <1>2, <1>3, <1>4 DEF Reset, ResetParser, NewLog, FreshLexer
<1>6. NewLog' => TextInv'
  BY NewLogInv, PTL
<1>7. QED
  BY <1>5, <1>6

\* parse_next_event starts.
LEMMA ParseNextEventStep ==
  ASSUME TextInv, ParseNextEvent
  PROVE  TextInv'
<1>1. /\ pc = "ready" /\ pc' = "parse" /\ ~done
      /\ slot0' = FirstSlot
      /\ out' = out_reset
      /\ buf' = UserBuffer
      /\ UNCHANGED <<log, read_off, retired, lex, start_of_log, done, from, intact, user>>
  BY DEF ParseNextEvent, history, input_vars
<1>2. /\ user \in Arrays /\ user.size \in Nat /\ user.base \in Nat
      /\ Pos = user.offset /\ user.offset <= user.size
  BY <1>1 DEF TextInv, ArrayInv, LexerInv, RestInv, Pos, Arrays
<1>3. IsBuffer(buf') /\ IsArray(buf', user) /\ buf'.pos = user.offset
  BY <1>1, <1>2, UserBufferFields
<1>4. slot0' \in Nat
  BY <1>1, FirstSlotNat
<1>5. ArrayInv'
  BY <1>1, <1>4 DEF TextInv, ArrayInv, Calls
<1>6. BufferInv'
  BY <1>1, <1>3 DEF BufferInv
<1>7. LexerInv'
  <2>1. Pos' = Pos /\ FreshLexer' = FreshLexer
    BY <1>1, <1>2, <1>3 DEF Pos, FreshLexer
  <2>2. RestInv'
    BY <1>1, <2>1 DEF TextInv, LexerInv, RestInv
  <2>3. QED
    BY <1>1, <2>2 DEF TextInv, LexerInv, MainInv, SkipInv
<1>8. Pending' = Pending
  BY <1>1 DEF Pending
<1>9. TokenInv' /\ KeptInv'
  BY <1>1, <1>8 DEF TextInv, TokenInv, KeptInv
<1>10. Seam' = Seam
  BY <1>1, <1>8 DEF Seam
<1>11. EventTokens' = << >> /\ Len(EventTokens') = 0
  BY <1>1 DEF EventTokens, out_reset
<1>12. ViewInv'
  <2>1. PICK none \in Seq(Tokens(user.size)) : none = << >>
    <3>1. << >> \in Seq(Tokens(user.size))
      OBVIOUS
    <3>2. QED
      BY <3>1
  <2>2. out' = [has_header |-> FALSE, started |-> FALSE, slot0 |-> NoToken, rest |-> none]
    BY <1>1, <2>1 DEF out_reset
  <2>3. out' \in Views(user.size)
    BY <2>1, <2>2, Zenon DEF Views
  <2>4. ~out'.has_header /\ ~out'.started /\ out'.slot0 = NoToken
    BY <2>2
  <2>5. QED
    BY <1>1, <1>11, <2>3, <2>4 DEF ViewInv
<1>13. SeamInv'
  BY <1>1, <1>10, <1>11 DEF TextInv, SeamInv
<1>14. OffsetInv'
  BY <1>1 DEF TextInv, OffsetInv, Calls
<1>15. QED
  BY <1>5, <1>6, <1>7, <1>9, <1>12, <1>13, <1>14 DEF TextInv

\* A token of the view, read from the array.
LEMMA TokenOfArray ==
  ASSUME TextInv, pc = "event", NEW t, Placed(t, user.size)
  PROVE  /\ t.start_pos \in Nat /\ t.end_pos \in Nat /\ user.base \in Nat
         /\ TokenLength(t) = t.end_pos - t.start_pos
         /\ TokenText(t) = [i \in 1 .. TokenLength(t) |-> user.base + t.start_pos + i - 1]
         /\ EndOffset(t) = user.base + t.end_pos
<1>1. /\ user \in Arrays /\ IsArray(buf, user) /\ retired = << >>
  BY DEF TextInv, ArrayInv, BufferInv, Calls
<1>2. /\ user.size \in Nat /\ user.base \in Nat
      /\ buf.size = 2 * user.size
      /\ \A i \in 0 .. user.size - 1 : buf.storage[i] = user.base + i
  <2>1. user.size \in Nat /\ user.base \in Nat
    BY <1>1 DEF Arrays
  <2>2. /\ buf.size = 2 * user.size
        /\ buf.storage = [i \in 0 .. 2 * user.size - 1 |->
                            IF i < user.size THEN user.base + i ELSE Unset]
    BY <1>1 DEF IsArray
  <2>3. ASSUME NEW i \in 0 .. user.size - 1
        PROVE  buf.storage[i] = user.base + i
    <3>1. i \in 0 .. 2 * user.size - 1 /\ i < user.size
      BY <2>1
    <3>2. QED
      BY <2>2, <3>1
  <2>4. QED
    BY <2>1, <2>2, <2>3
<1>3. /\ t.start_pos \in Nat /\ t.end_pos \in Nat
      /\ t.start_pos <= t.end_pos /\ 0 < t.end_pos /\ t.end_pos <= user.size
      /\ t.buffer = 1 /\ t.buffer_size = 2 * user.size
  BY DEF Placed, Tokens
<1>4. \A i \in 0 .. user.size - 1 : TokenByte(t, i) = user.base + i
  <2>1. Len(retired) = 0
    BY <1>1
  <2>2. QED
    BY <1>2, <1>3, <2>1 DEF TokenByte
<1>5. TokenLength(t) = t.end_pos - t.start_pos
  BY <1>3 DEF TokenLength
<1>6. ASSUME NEW i \in 1 .. TokenLength(t)
      PROVE  TokenByte(t, LET p == t.start_pos + i - 1
                          IN IF p < t.buffer_size THEN p ELSE p - t.buffer_size)
               = user.base + t.start_pos + i - 1
  <2>1. PICK p : p = t.start_pos + i - 1
    OBVIOUS
  <2>2. p \in 0 .. user.size - 1 /\ p < t.buffer_size
    BY <1>2, <1>3, <1>5, <1>6, <2>1
  <2>3. TokenByte(t, p) = user.base + p
    BY <1>4, <2>2
  <2>4. user.base + p = user.base + t.start_pos + i - 1
    BY <1>2, <1>3, <1>5, <1>6, <2>1
  <2>5. QED
    BY <2>1, <2>2, <2>3, <2>4
<1>7. TokenText(t) = [i \in 1 .. TokenLength(t) |-> user.base + t.start_pos + i - 1]
  BY <1>6, Zenon DEF TokenText
<1>8. EndOffset(t) = user.base + t.end_pos
  <2>1. t.end_pos - 1 \in 0 .. user.size - 1 /\ t.end_pos # 0
    BY <1>2, <1>3
  <2>2. TokenByte(t, t.end_pos - 1) = user.base + (t.end_pos - 1)
    BY <1>4, <2>1
  <2>3. QED
    BY <1>2, <1>3, <2>1, <2>2 DEF EndOffset
<1>9. QED
  BY <1>2, <1>3, <1>5, <1>7, <1>8

\* The view is a sequence of tokens in the array.
LEMMA ViewTokens ==
  ASSUME TextInv, pc = "event"
  PROVE  /\ \A k \in 1 .. Len(EventTokens) : Placed(EventTokens[k], user.size)
         /\ EventTokens = << >> \/ Len(EventTokens) \in Nat \ {0}
<1>1. /\ out \in Views(user.size)
      /\ out.has_header => out.slot0.type = TokenHeader
      /\ \A k \in 1 .. Len(EventTokens) : Placed(EventTokens[k], user.size)
  BY DEF TextInv, ViewInv, Calls
<1>2. out.rest \in Seq(Tokens(user.size))
  BY <1>1 DEF Views
<1>3. out.has_header => out.slot0 \in Tokens(user.size)
  <2>1. NoToken.type = NoType /\ NoType # TokenHeader
    BY DEF NoToken, NoType, TokenHeader
  <2>2. QED
    BY <1>1, <2>1 DEF Views
<1>4. EventTokens \in Seq(Tokens(user.size))
  <2>1. CASE out.has_header
    BY <1>2, <1>3, <2>1, HeaderFirst DEF EventTokens
  <2>2. CASE ~out.has_header
    BY <1>2, <2>2 DEF EventTokens
  <2>3. QED
    BY <2>1, <2>2
<1>5. QED
  BY <1>1, <1>4

\* The next event begins where the text of this one ends.
LEMMA NextFromSeam ==
  ASSUME TextInv, pc = "event", "text" \in intact
  PROVE  NextFrom = user.base + Seam
<1>1. CASE EventTokens = << >>
  BY <1>1 DEF TextInv, SeamInv, NextFrom, Calls
<1>2. CASE EventTokens # << >>
  <2>1. PICK m \in Nat \ {0} : m = Len(EventTokens)
    BY <1>2, ViewTokens
  <2>2. PICK t : t = EventTokens[m]
    OBVIOUS
  <2>3. Placed(t, user.size)
    BY <2>1, <2>2, ViewTokens
  <2>4. t.end_pos = Seam
    BY <1>2, <2>1, <2>2 DEF TextInv, SeamInv, Calls
  <2>5. EndOffset(t) = user.base + t.end_pos
    BY <2>3, TokenOfArray
  <2>6. QED
    BY <1>2, <2>1, <2>2, <2>4, <2>5 DEF NextFrom
<1>3. QED
  BY <1>1, <1>2

\* What was returned and what is kept lies in the array.
LEMMA SeamInArray ==
  ASSUME TextInv, pc = "event"
  PROVE  Seam \in Nat /\ Seam <= user.size
<1>1. /\ lex \in Lexers /\ user \in Arrays /\ RestInv
  BY DEF TextInv, ArrayInv, LexerInv
<1>2. user.size \in Nat /\ lex.start_pos \in Nat /\ lex.last_match_pos \in Nat
      /\ lex.match_pos \in Nat
  BY <1>1 DEF Arrays, Lexers
<1>3. Pending \in Nat /\ Pending <= user.size
  <2>1. CASE FreshLexer
    <3>1. ~lex.match /\ lex.last_match_pos = 0
      BY <2>1, FreshFields DEF FreshLexer
    <3>2. QED
      BY <1>2, <3>1 DEF Pending
  <2>2. CASE ~FreshLexer /\ lex.match
    <3>1. Pending = lex.start_pos
      BY <2>2 DEF Pending
    <3>2. QED
      BY <1>1, <1>2, <2>2, <3>1 DEF RestInv
  <2>3. CASE ~FreshLexer /\ ~lex.match
    <3>1. Pending = lex.last_match_pos
      BY <2>3 DEF Pending
    <3>2. QED
      BY <1>1, <1>2, <2>3, <3>1 DEF RestInv
  <2>4. QED
    BY <2>1, <2>2, <2>3
<1>4. CASE start_of_log = NoToken
  BY <1>3, <1>4 DEF Seam
<1>5. CASE start_of_log # NoToken
  <2>1. Placed(start_of_log, user.size)
    BY <1>5 DEF TextInv, KeptInv
  <2>2. QED
    BY <1>2, <1>5, <2>1 DEF Placed, Tokens, Seam
<1>6. QED
  BY <1>4, <1>5

\* parse_next_event returns an event.
LEMMA ReturnEventStep ==
  ASSUME TextInv, ReturnEvent
  PROVE  TextInv'
<1>1. /\ pc = "event" /\ pc' = "ready"
      /\ user' = [user EXCEPT !.offset = buf.pos]
      /\ from' = NextFrom
      /\ UNCHANGED <<log, retired, buf, lex, out, start_of_log, tok, skip, done,
                     intact, slot0>>
  BY DEF ReturnEvent, input_vars
<1>2. /\ user \in Arrays /\ user.size \in Nat /\ user.base \in Nat
      /\ IsBuffer(buf) /\ IsArray(buf, user)
      /\ user.base + user.size <= Len(log)
  BY <1>1 DEF TextInv, ArrayInv, BufferInv, Calls, Arrays
<1>3. buf.pos \in Nat /\ buf.pos <= user.size
  BY <1>2, ArrayEnds
<1>4. /\ user' \in Arrays
      /\ user'.size = user.size /\ user'.base = user.base /\ user'.cap = user.cap
      /\ user'.finished = user.finished
      /\ user'.offset = buf.pos
  BY <1>1, <1>2, <1>3 DEF Arrays
<1>5. ArrayInv'
  BY <1>1, <1>4 DEF TextInv, ArrayInv, Calls
<1>6. BufferInv'
  BY <1>1, <1>2 DEF BufferInv, Calls
<1>7. Pos' = Pos /\ FreshLexer' = FreshLexer /\ Pending' = Pending
  BY <1>1, <1>4 DEF Pos, FreshLexer, Pending
<1>8. LexerInv'
  <2>1. RestInv'
    BY <1>1, <1>4, <1>7 DEF TextInv, LexerInv, RestInv
  <2>2. QED
    BY <1>1, <2>1 DEF TextInv, LexerInv, MainInv, SkipInv
<1>9. TokenInv' /\ KeptInv'
  BY <1>1, <1>4, <1>7 DEF TextInv, TokenInv, KeptInv
<1>10. ViewInv'
  BY <1>1 DEF TextInv, ViewInv, Calls
<1>11. Seam' = Seam
  BY <1>1, <1>7 DEF Seam
<1>12. "text" \in intact => from' = user.base + Seam
  BY <1>1, NextFromSeam
<1>13. SeamInv'
  <2>1. Seam \in Nat /\ Seam <= user.size
    BY <1>1, SeamInArray
  <2>2. Len(log) \in Nat
    BY DEF TextInv, ArrayInv
  <2>3. "text" \in intact => from' \in Nat /\ from' <= Len(log)
    BY <1>2, <1>12, <2>1, <2>2
  <2>4. "text" \in intact /\ done => user.base + Seam = Len(log)
    BY DEF TextInv, SeamInv
  <2>5. QED
    BY <1>1, <1>2, <1>4, <1>11, <1>12, <2>1, <2>3, <2>4 DEF SeamInv, Calls
<1>14. OffsetInv'
  <2>1. ~done /\ start_of_log = NoToken => buf.pos = Seam
    BY <1>1 DEF TextInv, OffsetInv, Seam
  <2>2. QED
    BY <1>1, <1>3, <1>4, <1>12, <2>1 DEF OffsetInv, Calls
<1>15. QED
  BY <1>5, <1>6, <1>8, <1>9, <1>10, <1>13, <1>14 DEF TextInv

\* parse_next_event asks for more of the log: the bytes to keep begin with
\* the event that was cut.
LEMMA ReturnOutOfBoundsStep ==
  ASSUME TextInv, ReturnOutOfBounds
  PROVE  TextInv'
<1>1. /\ pc = "oob" /\ pc' = "full"
      /\ user' = [user EXCEPT !.offset = PartialOffset]
      /\ buf' = reset(StaticSize)
      /\ lex' = prepend_start_of_file_char(lexer_reset, reset(StaticSize))
      /\ done' = FALSE
      /\ "text" \in intact' => "text" \in intact /\ (out_pos(out) # 0 => out.has_header)
      /\ UNCHANGED <<log, retired, out, start_of_log, from, slot0>>
  BY DEF ReturnOutOfBounds, ResetParser, input_vars
<1>2. /\ user \in Arrays /\ user.size \in Nat /\ user.base \in Nat
      /\ user.offset \in Nat
  BY DEF TextInv, ArrayInv, Arrays
<1>3. PartialOffset \in Nat
  BY <1>2, FirstSlotNat DEF PartialOffset
<1>4. /\ user' \in Arrays
      /\ user'.size = user.size /\ user'.base = user.base /\ user'.cap = user.cap
      /\ user'.finished = user.finished
      /\ user'.offset = PartialOffset
  BY <1>1, <1>2, <1>3 DEF Arrays
<1>5. ArrayInv'
  <2>1. done' \in BOOLEAN /\ ~done'
    BY <1>1
  <2>2. QED
    BY <1>1, <1>4, <2>1 DEF TextInv, ArrayInv, Calls
<1>6. BufferInv'
  BY <1>1, ResetBuffer DEF BufferInv, Calls
<1>7. LexerInv'
  <2>1. lex' \in Lexers
    BY <1>1, FreshFields
  <2>2. FreshLexer'
    BY <1>1 DEF FreshLexer
  <2>3. QED
    BY <1>1, <2>1, <2>2 DEF LexerInv, RestInv, MainInv, SkipInv
<1>8. TokenInv' /\ KeptInv'
  BY <1>1 DEF TextInv, TokenInv, KeptInv
<1>9. ViewInv'
  BY <1>1 DEF TextInv, ViewInv, Calls
<1>10. SeamInv'
  BY <1>1 DEF TextInv, SeamInv, Calls
<1>11. OffsetInv'
  <2>1. "text" \in intact' => user.base + PartialOffset = from /\ PartialOffset <= user.size
    <3>1. CASE out_pos(out) = 0
      <4>1. ~out.started
        <5>1. Len(out.rest) \in Nat
          BY <1>1 DEF TextInv, ViewInv, Calls, Views
        <5>2. QED
          BY <3>1, <5>1 DEF out_pos
      <4>2. QED
        BY <1>1, <3>1, <4>1 DEF TextInv, OffsetInv, Calls, PartialOffset
    <3>2. CASE out_pos(out) # 0 /\ "text" \in intact'
      <4>1. out.started /\ out.has_header
        BY <1>1, <3>2 DEF out_pos
      <4>2. /\ out \in Views(user.size)
            /\ EventTokens # << >>
            /\ out.slot0.type = TokenHeader
            /\ \A k \in 1 .. Len(EventTokens) : Placed(EventTokens[k], user.size)
            /\ user.base + EventTokens[1].start_pos = from
        BY <1>1, <3>2, <4>1 DEF TextInv, ViewInv, Calls
      <4>3. out.rest \in Seq(Tokens(user.size))
        BY <4>2 DEF Views
      <4>4. out.slot0 # NoToken /\ out.slot0 \in Tokens(user.size)
        BY <4>2 DEF Views, NoToken, NoType, TokenHeader
      <4>5. EventTokens = <<out.slot0>> \o out.rest
        BY <4>1 DEF EventTokens
      <4>6. Len(EventTokens) \in Nat /\ Len(EventTokens) >= 1 /\ EventTokens[1] = out.slot0
        BY <4>3, <4>4, <4>5, HeaderFirst
      <4>7. Placed(out.slot0, user.size)
        BY <4>2, <4>6
      <4>8. PartialOffset = out.slot0.start_pos
        BY <3>2, <4>4 DEF PartialOffset, FirstSlot
      <4>9. out.slot0.start_pos <= user.size
        BY <1>2, <4>7 DEF Placed, Tokens
      <4>10. QED
        BY <4>2, <4>6, <4>8, <4>9
    <3>3. QED
      BY <3>1, <3>2
  <2>2. QED
    BY <1>1, <1>4, <2>1 DEF OffsetInv
<1>12. QED
  BY <1>5, <1>6, <1>7, <1>8, <1>9, <1>10, <1>11 DEF TextInv

\* The free part of the array gets the next bytes of the log.
LEMMA FilledFields ==
  ASSUME log \in Seq(Chars), NEW u \in Arrays,
         u.size <= u.cap, u.base + u.size <= Len(log),
         NEW v, v = Filled(u)
  PROVE  /\ v \in Arrays
         /\ v.base = u.base /\ v.offset = u.offset
         /\ v.size <= v.cap
         /\ v.base + v.size <= Len(log)
         /\ v.finished => v.base + v.size = Len(log)
<1>1. /\ u.cap \in Nat /\ u.size \in Nat /\ u.base \in Nat /\ u.offset \in Nat
      /\ Len(log) \in Nat
  BY DEF Arrays
<1>2. PICK left \in Nat : left = Len(log) - (u.base + u.size)
  BY <1>1
<1>3. PICK free \in Nat : free = u.cap - u.size
  BY <1>1
<1>4. CASE left < free
  <2>1. PICK n \in Nat : n = u.size + left
    BY <1>1
  <2>2. v = [u EXCEPT !.size = n, !.finished = TRUE]
    BY <1>2, <1>3, <1>4, <2>1 DEF Filled
  <2>3. /\ v \in Arrays
        /\ v.cap = u.cap /\ v.base = u.base /\ v.offset = u.offset
        /\ v.size = n
    BY <2>2 DEF Arrays
  <2>4. v.size <= v.cap
    BY <1>1, <1>3, <1>4, <2>1, <2>3
  <2>5. v.base + v.size = Len(log)
    BY <1>1, <1>2, <2>1, <2>3
  <2>6. QED
    BY <1>1, <2>3, <2>4, <2>5
<1>5. CASE ~(left < free)
  <2>1. PICK n \in Nat : n = u.size + free
    BY <1>1
  <2>2. v = [u EXCEPT !.size = n, !.finished = (left < free)]
    BY <1>2, <1>3, <1>5, <2>1 DEF Filled
  <2>3. (left < free) \in BOOLEAN
    OBVIOUS
  <2>4. /\ v \in Arrays
        /\ v.cap = u.cap /\ v.base = u.base /\ v.offset = u.offset
        /\ v.size = n
        /\ v.finished <=> left < free
    BY <2>2, <2>3 DEF Arrays
  <2>5. v.size <= v.cap /\ v.base + v.size <= Len(log)
    BY <1>1, <1>2, <1>3, <1>5, <2>1, <2>4
  <2>6. QED
    BY <1>5, <2>4, <2>5
<1>6. QED
  BY <1>4, <1>5

\* The application keeps the bytes from offset on: the event that was cut is now
\* at the front, where the fresh lexer begins.
LEMMA RefillStep ==
  ASSUME TextInv, Refill
  PROVE  TextInv'
<1>1. PICK u : u = IF user.offset = 0
                   THEN [user EXCEPT !.cap = 2 * user.cap]
                   ELSE [user EXCEPT !.base = user.base + user.offset,
                                     !.size = user.size - user.offset, !.offset = 0]
  OBVIOUS
<1>2. /\ pc = "full" /\ pc' = "ready"
      /\ user.offset <= user.size
      /\ user' = Filled(u)
      /\ UNCHANGED <<log, retired, buf, lex, out, start_of_log, done, from, intact, slot0>>
  BY <1>1 DEF Refill, history, input_vars
<1>3. /\ user \in Arrays
      /\ user.cap \in Nat /\ user.base \in Nat /\ user.size \in Nat /\ user.offset \in Nat
      /\ log \in Seq(Chars)
      /\ user.size <= user.cap /\ user.base + user.size <= Len(log)
      /\ done \in BOOLEAN /\ ~done
  BY <1>2 DEF TextInv, ArrayInv, Arrays
<1>4. /\ u \in Arrays
      /\ u.offset = 0
      /\ u.base = user.base + user.offset
      /\ u.size <= u.cap /\ u.base + u.size <= Len(log)
  <2>1. CASE user.offset = 0
    <3>1. u = [user EXCEPT !.cap = 2 * user.cap]
      BY <1>1, <2>1
    <3>2. 2 * user.cap \in Nat
      BY <1>3
    <3>3. /\ u \in Arrays /\ u.offset = user.offset
          /\ u.base = user.base /\ u.size = user.size /\ u.cap = 2 * user.cap
      BY <1>3, <3>1, <3>2 DEF Arrays
    <3>4. QED
      BY <1>3, <2>1, <3>3
  <2>2. CASE user.offset # 0
    <3>1. u = [user EXCEPT !.base = user.base + user.offset,
                           !.size = user.size - user.offset, !.offset = 0]
      BY <1>1, <2>2
    <3>2. user.base + user.offset \in Nat /\ user.size - user.offset \in Nat
      BY <1>2, <1>3
    <3>3. /\ u \in Arrays /\ u.offset = 0 /\ u.cap = user.cap
          /\ u.base = user.base + user.offset /\ u.size = user.size - user.offset
      BY <1>3, <3>1, <3>2 DEF Arrays
    <3>4. Len(log) \in Nat
      BY <1>3
    <3>5. QED
      BY <1>2, <1>3, <3>3, <3>4
  <2>3. QED
    BY <2>1, <2>2
<1>5. /\ user' \in Arrays
      /\ user'.base = user.base + user.offset /\ user'.offset = 0
      /\ user'.size <= user'.cap
      /\ user'.base + user'.size <= Len(log)
      /\ user'.finished => user'.base + user'.size = Len(log)
  BY <1>2, <1>3, <1>4, FilledFields
<1>6. ArrayInv'
  BY <1>2, <1>3, <1>5 DEF TextInv, ArrayInv, Calls
<1>7. BufferInv'
  BY <1>2 DEF TextInv, BufferInv, Calls
<1>8. FreshLexer /\ FreshLexer' /\ lex' = lex /\ lex \in Lexers
  BY <1>2 DEF TextInv, LexerInv, FreshLexer
<1>9. Pos' = 0 /\ user'.size \in Nat
  BY <1>2, <1>5 DEF Pos, Arrays
<1>10. LexerInv'
  BY <1>2, <1>8, <1>9 DEF LexerInv, RestInv, MainInv, SkipInv
<1>11. TokenInv' /\ KeptInv' /\ start_of_log = NoToken
  BY <1>2 DEF TextInv, TokenInv, KeptInv
<1>12. ViewInv'
  BY <1>2 DEF TextInv, ViewInv, Calls
<1>13. Seam' = 0
  <2>1. ~lex.match /\ lex.last_match_pos = 0
    BY <1>8, FreshFields DEF FreshLexer
  <2>2. QED
    BY <1>2, <1>11, <2>1 DEF Seam, Pending
<1>14. "text" \in intact => from = user'.base
  BY <1>2, <1>5 DEF TextInv, OffsetInv
<1>15. SeamInv'
  <2>1. "text" \in intact => from \in Nat /\ from <= Len(log)
    BY DEF TextInv, SeamInv
  <2>2. user'.base \in Nat
    BY <1>5 DEF Arrays
  <2>3. QED
    BY <1>2, <1>3, <1>13, <1>14, <2>1, <2>2 DEF SeamInv, Calls
<1>16. OffsetInv'
  <2>1. user'.base \in Nat
    BY <1>5 DEF Arrays
  <2>2. QED
    BY <1>2, <1>5, <1>9, <1>14, <2>1 DEF OffsetInv, Calls
<1>17. QED
  BY <1>6, <1>7, <1>10, <1>11, <1>12, <1>15, <1>16 DEF TextInv

\* No step leaves the invariant.
LEMMA NextTextInv == TextInv /\ [Next]_bvars => TextInv'
<1> SUFFICES ASSUME TextInv, [Next]_bvars PROVE TextInv'
  OBVIOUS
<1>1. CASE UNCHANGED bvars
  BY <1>1 DEF bvars, vars, history, TextInv, ArrayInv, BufferInv, LexerInv, RestInv,
     MainInv, SkipInv, FreshLexer, Pos, Pending, TokenInv, KeptInv, Seam, ViewInv,
     EventTokens, SeamInv, OffsetInv
<1>2. QED
  BY <1>1, ResetStep, ParseNextEventStep, ReturnEventStep, ReturnOutOfBoundsStep,
     RefillStep, ScanStep, ParseStep DEF Next

\* TextInv is an invariant of every schema, every log and every size of the
\* application's array that satisfy the assumptions.
LEMMA InductiveInvariant == Spec => []TextInv
BY InitTextInv, NextTextInv, PTL DEF Spec

-----------------------------------------------------------------------------
(***************************************************************************)
(* The theorems.                                                           *)
(***************************************************************************)

\* BufferParser never reads or hands back a position outside the array that
\* the application passed to parse_next_event.
THEOREM TypeCorrect == Spec => []TypeOK
<1>1. TextInv => TypeOK
  <2> SUFFICES ASSUME TextInv PROVE TypeOK
    OBVIOUS
  <2>1. /\ user \in Arrays /\ IsBuffer(buf)
        /\ user.base + user.size <= Len(log) /\ log \in Seq(Chars)
        /\ pc \in Calls => IsArray(buf, user)
        /\ "text" \in intact => user.offset <= user.size /\ from \in Nat /\ from <= Len(log)
    BY DEF TextInv, ArrayInv, BufferInv, SeamInv, OffsetInv
  <2>2. /\ user.size \in Nat /\ user.base \in Nat /\ user.offset \in Nat
        /\ Len(log) \in Nat
    BY <2>1 DEF Arrays
  <2>3. pc \in Calls \cup {"ready", "full"}
    BY DEF TextInv, ArrayInv
  <2>4. pc \notin {"ready", "full"} => buf.pos \in 0 .. user.size
    BY <2>1, <2>3 DEF IsArray
  <2>5. QED
    BY <2>1, <2>2, <2>3, <2>4 DEF TypeOK, Calls
<1>2. QED
  BY <1>1, InductiveInvariant, PTL

\* The bytes that parse_next_event tells the application to keep when it runs
\* out of input are those from the first one that no event has contained yet.
THEOREM OffsetIsPartialEvent == Spec => []OffsetAtPartialEvent
<1>1. TextInv => OffsetAtPartialEvent
  BY DEF TextInv, OffsetInv, OffsetAtPartialEvent
<1>2. QED
  BY <1>1, InductiveInvariant, PTL

\* The events that parse_next_event returns are the log, piece by piece.
THEOREM EventsAreTheLog == Spec => []EventIsNextText
<1>1. ASSUME TextInv, pc = "event", "text" \in intact
      PROVE  /\ \A k \in 1 .. Len(EventTokens) :
                  TokenText(EventTokens[k]) =
                    [ i \in 1 .. TokenLength(EventTokens[k]) |->
                        (IF k = 1 THEN from ELSE EndOffset(EventTokens[k - 1])) + i - 1 ]
             /\ IF done THEN NextFrom = Len(log) ELSE NextFrom > from
  <2>1. /\ \A k \in 2 .. Len(EventTokens) :
             EventTokens[k].start_pos = EventTokens[k - 1].end_pos
        /\ EventTokens # << >> => user.base + EventTokens[1].start_pos = from
    BY <1>1 DEF TextInv, ViewInv, Calls
  <2>2. /\ \A k \in 1 .. Len(EventTokens) : Placed(EventTokens[k], user.size)
        /\ EventTokens = << >> \/ Len(EventTokens) \in Nat \ {0}
    BY <1>1, ViewTokens
  <2>3. ASSUME NEW k \in 1 .. Len(EventTokens)
        PROVE  user.base + EventTokens[k].start_pos =
                 IF k = 1 THEN from ELSE EndOffset(EventTokens[k - 1])
    <3>1. EventTokens # << >> /\ Len(EventTokens) \in Nat
      BY <2>2, <2>3
    <3>2. CASE k = 1
      BY <2>1, <3>1, <3>2
    <3>3. CASE k # 1
      <4>1. k \in 2 .. Len(EventTokens) /\ k - 1 \in 1 .. Len(EventTokens)
        BY <3>1, <3>3
      <4>2. PICK t : t = EventTokens[k - 1]
        OBVIOUS
      <4>3. Placed(t, user.size)
        BY <2>2, <4>1, <4>2
      <4>4. EndOffset(t) = user.base + t.end_pos
        BY <1>1, <4>3, TokenOfArray
      <4>5. QED
        BY <2>1, <3>3, <4>1, <4>2, <4>4
    <3>4. QED
      BY <3>2, <3>3
  <2>4. ASSUME NEW k \in 1 .. Len(EventTokens)
        PROVE  TokenText(EventTokens[k]) =
                 [ i \in 1 .. TokenLength(EventTokens[k]) |->
                     (IF k = 1 THEN from ELSE EndOffset(EventTokens[k - 1])) + i - 1 ]
    <3>1. PICK t : t = EventTokens[k]
      OBVIOUS
    <3>2. Placed(t, user.size)
      BY <2>2, <3>1
    <3>3. TokenText(t) = [i \in 1 .. TokenLength(t) |-> user.base + t.start_pos + i - 1]
      BY <1>1, <3>2, TokenOfArray
    <3>4. user.base + t.start_pos = IF k = 1 THEN from ELSE EndOffset(EventTokens[k - 1])
      BY <2>3, <3>1
    <3>5. QED
      BY <3>1, <3>3, <3>4
  <2>5. NextFrom = user.base + Seam
    BY <1>1, NextFromSeam
  <2>6. IF done THEN NextFrom = Len(log) ELSE NextFrom > from
    <3>1. /\ from \in Nat
          /\ ~done => from < user.base + Seam
          /\ done => user.base + Seam = Len(log)
      BY <1>1 DEF TextInv, SeamInv
    <3>2. Seam \in Nat /\ user.base \in Nat
      BY <1>1, SeamInArray DEF TextInv, ArrayInv, Arrays
    <3>3. QED
      BY <2>5, <3>1, <3>2
  <2>7. QED
    BY <2>4, <2>6
<1>2. TextInv => EventIsNextText
  BY <1>1 DEF EventIsNextText
<1>3. QED
  BY <1>2, InductiveInvariant, PTL
=============================================================================
