----------------------------- MODULE LogParser -----------------------------
(***************************************************************************)
(* LogParser::parse and the Lexer::scan it calls, over the input buffer.   *)
(* The code is sequential; pc says where it is:                            *)
(*                                                                         *)
(*   "parse"  at the start of LogParser::parse                             *)
(*   "scan"   at the start of Lexer::scan                                  *)
(*   "main"   at the head of its main loop                                 *)
(*   "skip"   at the head of the loop that looks for the next delimiter    *)
(*   "token"  scan has returned tok                                        *)
(*   "oob"    parse has returned BufferOutOfBounds                         *)
(*   "event"  parse has returned Success: the view holds an event          *)
(*                                                                         *)
(* ReaderParser and BufferParser extend this module with the calls that    *)
(* lead to "parse", and from "oob" and "event" to the next call.           *)
(***************************************************************************)
EXTENDS LexerOps, Sequences

VARIABLES
  log,           \* the characters of the input
  read_off,      \* how many of them were read
  buf,           \* m_input_buffer
  retired,       \* the storages that were active before buf grew
  lex,           \* m_lexer
  out,           \* the view's LogParserOutputBuffer
  start_of_log,  \* m_start_of_log_message if m_has_start_of_log, or NoToken
  tok,           \* the token that scan returned last
  skip,          \* prev_byte_buf_pos and next_char in the skip loop
  pc,
  done,          \* the last action was CompressAndFinish
  from,          \* history: the offset behind the text of earlier events
  intact         \* history: what no step has put in doubt yet, a subset of
                 \* {"text", "variables"}

input_vars == <<log, read_off, retired>>
history == <<from, intact>>
parse_vars == <<out, start_of_log, done, history>>
vars == <<log, read_off, buf, retired, lex, out, start_of_log, tok, skip, pc,
          done, history>>

NoToken == [type |-> NoType]
NoSkip == [prev |-> 0, c |-> CharEOF]

\* The storage that is active now is the last one of a growing list.
NewToken(start_pos, end_pos, type) ==
  [ start_pos |-> start_pos, end_pos |-> end_pos, type |-> type,
    buffer |-> Len(retired) + 1, buffer_size |-> buf.size ]

\* The byte at position p of the storage that token t refers to.
TokenByte(t, p) ==
  IF t.buffer <= Len(retired) THEN retired[t.buffer][p]
  ELSE IF t.buffer = Len(retired) + 1 /\ p < buf.size THEN buf.storage[p]
  ELSE Unset

\* Token::get_length and Token::to_string: a token may wrap.
TokenLength(t) ==
  IF t.start_pos <= t.end_pos THEN t.end_pos - t.start_pos
  ELSE t.buffer_size - t.start_pos + t.end_pos

TokenText(t) ==
  [ i \in 1 .. TokenLength(t) |->
      TokenByte(t, LET p == t.start_pos + i - 1
                   IN IF p < t.buffer_size THEN p ELSE p - t.buffer_size) ]

\* The offset behind the last byte of a token.
EndOffset(t) ==
  TokenByte(t, IF t.end_pos = 0 THEN t.buffer_size - 1 ELSE t.end_pos - 1) + 1

\* Token::get_next_pos.
TokenNextPos(t) == IF t.start_pos + 1 = t.buffer_size THEN 0 ELSE t.start_pos + 1

\* The characters that the byte with offset o may be: a byte that belongs to
\* no input is whatever memory held.
CharsOf(o) == IF o = Unset THEN Chars ELSE {log[o + 1]}

NextChars == IF at_end_of_log(buf) THEN {CharEOF} ELSE CharsOf(curr_value(buf))

FirstChars(t) == CharsOf(TokenByte(t, t.start_pos))

-----------------------------------------------------------------------------
(* LogParserOutputBuffer: slot 0 is for the header and is unused in an     *)
(* event without one; rest holds slots 1, 2, ...                           *)

out_pos(o) == IF o.started THEN Len(o.rest) + 1 ELSE 0

\* LogEventView::reset and LogParserOutputBuffer::reset.  The slots keep
\* their old tokens; only BufferParser ever looks at one that the current
\* event has not set (slot 0), and that module remembers it.
out_reset ==
  [has_header |-> FALSE, started |-> FALSE, slot0 |-> NoToken, rest |-> << >>]

\* The timestamp, a sub-token of the header, is left out.
set_header(o, t) ==
  [o EXCEPT !.has_header = TRUE, !.slot0 = t, !.started = TRUE, !.rest = << >>]

set_first(o, t) ==
  [o EXCEPT !.has_header = FALSE, !.started = TRUE, !.rest = <<t>>]

set_end(o, t) == [o EXCEPT !.slot0 = t, !.started = TRUE, !.rest = << >>]

\* set_curr_token and advance_to_next_token, which doubles the storage and
\* copies the tokens when it is full.
add_token(o, t) == [o EXCEPT !.rest = Append(@, t)]

\* LogEventView::to_string.
EventTokens == IF out.has_header THEN <<out.slot0>> \o out.rest ELSE out.rest

\* The offset behind the event in the view.
NextFrom ==
  IF EventTokens = << >> THEN from ELSE EndOffset(EventTokens[Len(EventTokens)])

-----------------------------------------------------------------------------
(* Lexer::scan                                                             *)

Return(t) ==
  /\ tok' = t
  /\ pc' = "token"
  /\ UNCHANGED skip

ScanResume ==
  /\ pc = "scan"
  /\ lex.asked
  /\ lex' = resume_scan(lex)
  /\ pc' = "main"
  /\ UNCHANGED <<buf, tok, skip, input_vars, parse_vars>>

ScanPrepared ==
  /\ pc = "scan"
  /\ ~lex.asked
  /\ lex.match
  /\ lex' = [take_match(lex) EXCEPT !.state = Root]
  /\ Return(NewToken(lex.start_pos, lex.match_pos, lex.type))
  /\ UNCHANGED <<buf, input_vars, parse_vars>>

ScanFresh ==
  /\ pc = "scan"
  /\ ~lex.asked
  /\ ~lex.match
  /\ lex' = start_scan(lex, buf)
  /\ buf' = rewind(lex, buf)
  /\ pc' = "main"
  /\ UNCHANGED <<tok, skip, input_vars, parse_vars>>

ScanOutOfBounds ==
  /\ pc = "main"
  /\ out_of_bounds(buf)
  /\ lex' = [lex EXCEPT !.asked = TRUE]
  /\ pc' = "oob"
  /\ UNCHANGED <<buf, tok, skip, input_vars, parse_vars>>

\* One iteration of the main loop in which a character c arrives and leaves
\* the lexer in y: the newline of a log without headers, or any other.
MainLoop(c) ==
  /\ pc = "main"
  /\ ~out_of_bounds(buf)
  /\ c \in NextChars

Seen(c) == see_character(lex, buf, c)

ScanNewline ==
  \E c \in NextChars :
    /\ MainLoop(c)
    /\ newline_is_match(Seen(c), buf, c)
    /\ lex' = match_newline(Seen(c), buf)
    /\ buf' = taken(buf)
    /\ UNCHANGED <<tok, skip, pc, input_vars, parse_vars>>

ScanContinue ==
  \E c \in NextChars :
    /\ MainLoop(c)
    /\ ~newline_is_match(Seen(c), buf, c)
    /\ ~taken(buf).fully_consumed
    /\ Seen(c).state # Null
    /\ lex' = Seen(c)
    /\ buf' = taken(buf)
    /\ UNCHANGED <<tok, skip, pc, input_vars, parse_vars>>

\* The automaton can go no further: the rest of an iteration.
Stuck(c) ==
  /\ MainLoop(c)
  /\ ~newline_is_match(Seen(c), buf, c)
  /\ taken(buf).fully_consumed \/ Seen(c).state = Null

\* ... with a match: return it, or first the text before it.
ScanMatch ==
  \E c \in NextChars :
    LET y == Seen(c)
    IN /\ Stuck(c)
       /\ y.match
       /\ buf' = go_back(taken(buf), y.match_pos)
       /\ IF y.last_match_pos # y.start_pos
          THEN /\ lex' = y
               /\ Return(NewToken(y.last_match_pos, y.start_pos,
                                  TokenUncaughtString))
          ELSE /\ lex' = take_match(y)
               /\ Return(NewToken(y.start_pos, y.match_pos, y.type))
       /\ UNCHANGED <<input_vars, parse_vars>>

AtEnd(y) == taken(buf).fully_consumed /\ taken(buf).pos = y.start_pos

\* ... at the end of the log with text after the last match: return it, and
\* the end with the next call.
ScanLastText ==
  \E c \in NextChars :
    LET y == Seen(c)
    IN /\ Stuck(c)
       /\ ~y.match
       /\ AtEnd(y)
       /\ y.last_match_pos # y.start_pos
       /\ y.first_delim = Unset
       /\ lex' = [y EXCEPT !.match = TRUE, !.match_pos = taken(buf).pos,
                           !.type = TokenEnd]
       /\ buf' = taken(buf)
       /\ Return(NewToken(y.last_match_pos, y.start_pos, TokenUncaughtString))
       /\ UNCHANGED <<input_vars, parse_vars>>

\* ... at the end of the log and of the last match.
ScanEnd ==
  \E c \in NextChars :
    LET y == Seen(c)
    IN /\ Stuck(c)
       /\ ~y.match
       /\ AtEnd(y)
       /\ y.last_match_pos = y.start_pos
       /\ lex' = y
       /\ buf' = taken(buf)
       /\ Return(NewToken(taken(buf).pos, taken(buf).pos, TokenEnd))
       /\ UNCHANGED <<input_vars, parse_vars>>

\* ... with a delimiter on the way: return the text before it.
ScanUncaught ==
  \E c \in NextChars :
    LET y == Seen(c)
    IN /\ Stuck(c)
       /\ ~y.match
       /\ AtEnd(y) => y.last_match_pos # y.start_pos
       /\ y.first_delim # Unset
       /\ lex' = [y EXCEPT !.last_match_pos = y.first_delim]
       /\ buf' = taken(buf)
       /\ Return(NewToken(y.last_match_pos, y.first_delim, TokenUncaughtString))
       /\ UNCHANGED <<input_vars, parse_vars>>

\* ... with nothing to go back to: look for the next delimiter.
ScanSkip ==
  \E c \in NextChars :
    LET y == Seen(c)
    IN /\ Stuck(c)
       /\ ~y.match
       /\ ~AtEnd(y)
       /\ y.first_delim = Unset
       /\ lex' = [y EXCEPT !.state = Root]
       /\ buf' = taken(buf)
       /\ skip' = [prev |-> buf.pos, c |-> c]
       /\ pc' = "skip"
       /\ UNCHANGED <<tok, input_vars, parse_vars>>

\* The loop stops at the characters that it should skip.
SkipFound_mutant ==
  buf.fully_consumed \/ ~is_first_char_of_a_variable(skip.c)

SkipFound ==
  \/ buf.fully_consumed
  \/ is_first_char_of_a_variable(skip.c) /\ skip.c \in Delims

SkipCharacter ==
  /\ pc = "skip"
  /\ ~SkipFound
  /\ ~out_of_bounds(buf)
  /\ \E c \in NextChars : skip' = [prev |-> buf.pos, c |-> c]
  /\ buf' = taken(buf)
  /\ UNCHANGED <<lex, tok, pc, input_vars, parse_vars>>

\* The next call will resume in the main loop; skip is kept as a record of
\* where it should have resumed.
SkipOutOfBounds ==
  /\ pc = "skip"
  /\ ~SkipFound
  /\ out_of_bounds(buf)
  /\ lex' = [lex EXCEPT !.asked = TRUE]
  /\ pc' = "oob"
  /\ UNCHANGED <<buf, tok, skip, input_vars, parse_vars>>

SkipEnd ==
  /\ pc = "skip"
  /\ SkipFound
  /\ buf' = set_pos(buf, skip.prev)
  /\ lex' = [lex EXCEPT !.start_pos = skip.prev]
  /\ skip' = NoSkip
  /\ pc' = "main"
  /\ UNCHANGED <<tok, input_vars, parse_vars>>

Scan ==
  \/ ScanResume \/ ScanPrepared \/ ScanFresh \/ ScanOutOfBounds
  \/ ScanNewline \/ ScanContinue \/ ScanMatch \/ ScanLastText \/ ScanEnd
  \/ ScanUncaught \/ ScanSkip \/ SkipCharacter \/ SkipOutOfBounds
  \/ SkipEnd

-----------------------------------------------------------------------------
(* LogParser::parse                                                        *)

Finish ==
  /\ done' = TRUE
  /\ pc' = "event"

\* The whole token starts the next event, '\n' included.
SplitAtNewline_mutant(t) ==
  /\ start_of_log' = t
  /\ buf' = set_consumed_pos(buf, t.start_pos)
  /\ pc' = "event"

\* '\n' ends the current event and the rest of token t starts the next one.
SplitAtNewline(t) ==
  /\ start_of_log' = [t EXCEPT !.start_pos = TokenNextPos(t)]
  /\ buf' = set_consumed_pos(buf, t.start_pos)
  /\ pc' = "event"

NewlineOf(t) == [t EXCEPT !.end_pos = TokenNextPos(t), !.type = TokenUncaughtString]

\* The first token of an event, kept from the previous call or just scanned.
BeginEvent(t) ==
  \/ /\ t.type = TokenEnd
     /\ out' = set_end(out, t)
     /\ Finish
     /\ UNCHANGED start_of_log
  \/ /\ t.type # TokenEnd
     /\ out' = IF t.type = TokenHeader THEN set_header(out, t) ELSE set_first(out, t)
     /\ start_of_log' = NoToken
     /\ pc' = "scan"
     /\ UNCHANGED done

UseStartOfLog ==
  /\ pc = "parse"
  /\ out_pos(out) = 0
  /\ start_of_log # NoToken
  /\ BeginEvent(start_of_log)
  /\ UNCHANGED <<buf, lex, tok, skip, history, input_vars>>

GetNextSymbol ==
  /\ pc = "parse"
  /\ out_pos(out) # 0 \/ start_of_log = NoToken
  /\ pc' = "scan"
  /\ UNCHANGED <<buf, lex, tok, skip, input_vars, parse_vars>>

\* "make a message with just the '\n' character".
FirstTokenNewline ==
  /\ pc = "token"
  /\ out_pos(out) = 0
  /\ tok.type = TokenHeader
  /\ Newline \in FirstChars(tok)
  /\ out' = set_first(out, NewlineOf(tok))
  /\ SplitAtNewline(tok)
  /\ UNCHANGED <<lex, tok, skip, done, history, input_vars>>

FirstToken ==
  /\ pc = "token"
  /\ out_pos(out) = 0
  /\ \/ tok.type # TokenHeader
     \/ \E c \in FirstChars(tok) : c # Newline
  /\ BeginEvent(tok)
  /\ UNCHANGED <<buf, lex, tok, skip, history, input_vars>>

NextTokenEnd ==
  /\ pc = "token"
  /\ out_pos(out) # 0
  /\ tok.type = TokenEnd
  /\ Finish
  /\ UNCHANGED <<buf, lex, out, start_of_log, tok, skip, history, input_vars>>

\* A line of an event without a header ends it.
NextTokenNewline ==
  /\ pc = "token"
  /\ out_pos(out) # 0
  /\ ~out.has_header
  /\ tok.type = TokenNewline
  /\ buf' = set_consumed_pos(buf, tok.end_pos)
  /\ out' = add_token(out, tok)
  /\ pc' = "event"
  /\ UNCHANGED <<lex, start_of_log, tok, skip, done, history, input_vars>>

found_start_of_next_message(t, first) ==
  /\ first = Newline
  /\ IF out.has_header THEN t.type = TokenHeader ELSE t.type # TokenNewline

NextTokenStart ==
  /\ pc = "token"
  /\ out_pos(out) # 0
  /\ tok.type # TokenEnd
  /\ \E first \in FirstChars(tok) : found_start_of_next_message(tok, first)
  /\ out' = add_token(out, NewlineOf(tok))
  /\ SplitAtNewline(tok)
  /\ UNCHANGED <<lex, tok, skip, done, history, input_vars>>

NextToken ==
  /\ pc = "token"
  /\ out_pos(out) # 0
  /\ tok.type # TokenEnd
  /\ out.has_header \/ tok.type # TokenNewline
  /\ \E first \in FirstChars(tok) : ~found_start_of_next_message(tok, first)
  /\ out' = add_token(out, tok)
  /\ pc' = "scan"
  /\ UNCHANGED <<buf, lex, start_of_log, tok, skip, done, history, input_vars>>

Parse ==
  \/ UseStartOfLog \/ GetNextSymbol \/ FirstTokenNewline \/ FirstToken
  \/ NextTokenEnd \/ NextTokenNewline \/ NextTokenStart \/ NextToken

-----------------------------------------------------------------------------
(* What a log means, without buffers: the events that it consists of.      *)

\* The state of the automaton after the characters at offsets i .. j-1.
Run(s, i, j) ==
  LET at[k \in i .. j] ==
        IF k = i THEN s
        ELSE IF at[k - 1] = Null THEN Null ELSE Transition[at[k - 1]][log[k]]
  IN at[j]

\* Where the rule that starts at offset i, in state s, may end.
MatchEnds(s, i) ==
  { j \in i .. Len(log) : /\ is_accepting(Run(s, i, j))
                          /\ j = Len(log) \/ log[j + 1] \in Delims }

\* The longest match counts.
MatchEnd(s, i) == CHOOSE j \in MatchEnds(s, i) : \A k \in MatchEnds(s, i) : k <= j
MatchType(s, i) ==
  IF MatchEnds(s, i) = {} THEN NoType ELSE TypeIds[Run(s, i, MatchEnd(s, i))]

\* A header starts at offset i: at the start of the file or of a line.
HeaderAt(i) ==
  /\ i < Len(log)
  /\ i = 0 \/ log[i] = Newline
  /\ MatchType(IF i = 0 THEN StartOfFile ELSE Transition[Root][Newline], i)
       = TokenHeader

\* An event with a header goes on until the next header; one without is a
\* line, where a '\n' at its start does not end it unless a header follows.
EventEnd(i) ==
  LET ends == { j \in i + 1 .. Len(log) :
                  /\ log[j] = Newline
                  /\ HeaderAt(j) \/ (~HeaderAt(i) /\ j > i + 1) }
  IN IF ends = {} THEN Len(log) ELSE CHOOSE j \in ends : \A k \in ends : j <= k

\* The variables of the log: their leading delimiter is part of them.
Variables ==
  LET found(s, d, i) ==
        IF MatchType(s, i) \in {NoType, TokenNewline, TokenHeader} THEN {}
        ELSE {[start |-> d, end |-> MatchEnd(s, i)]}
  IN found(StartOfFile, 0, 0)
     \cup UNION { found(Transition[Root][log[i]], i - 1, i) :
                    i \in {k \in 1 .. Len(log) : log[k] \in Delims} }

Concat(ts) ==
  LET text[k \in 0 .. Len(ts)] ==
        IF k = 0 THEN << >> ELSE text[k - 1] \o TokenText(ts[k])
  IN text[Len(ts)]
EventText == Concat(EventTokens)

\* The event that the application gets is the next piece of the log: the first
\* token begins behind the previous event and every other one behind the token
\* before it, so that nothing is lost, repeated or reordered, whatever part of
\* the text the lexer has scanned twice, kept from the previous call or moved.
\* The parser is done at the end of the log, and gets ahead with every event
\* before that.
EventIsNextText ==
  pc = "event" /\ "text" \in intact =>
    /\ \A k \in 1 .. Len(EventTokens) :
         TokenText(EventTokens[k]) =
           [ i \in 1 .. TokenLength(EventTokens[k]) |->
               (IF k = 1 THEN from ELSE EndOffset(EventTokens[k - 1])) + i - 1 ]
    /\ IF done THEN NextFrom = Len(log) ELSE NextFrom > from

-----------------------------------------------------------------------------
(* LogEvent                                                                *)

\* The token at a place of the view is in this slot of the output buffer.
slot(k) == IF out.has_header THEN k - 1 ELSE k

\* generate_log_event_view_metadata: the newline token may be the last one.
is_multiline_mutant ==
  LET newlines == {k \in DOMAIN EventTokens : slot(k) > 0 /\ Newline \in FirstChars(EventTokens[k])}
  IN out.has_header /\ \E k \in newlines : (\A j \in newlines : k <= j) /\ slot(k) < out_pos(out)

is_multiline ==
  LET newlines == {k \in DOMAIN EventTokens : slot(k) > 0 /\ Newline \in FirstChars(EventTokens[k])}
  IN out.has_header /\ \E k \in newlines : (\A j \in newlines : k <= j) /\ slot(k) + 1 < out_pos(out)

\* The length of a token that wraps is taken from its positions.
deep_copy_mutant(tokens) ==
  LET length(t) == IF t.start_pos <= t.end_pos THEN t.end_pos - t.start_pos ELSE 0
      end_pos[k \in 0 .. Len(tokens)] ==
        IF k = 0 THEN 0 ELSE end_pos[k - 1] + length(tokens[k])
  IN [ has_header |-> out.has_header,
       m_buffer   |-> Concat(tokens),
       slots      |-> [k \in DOMAIN tokens |-> [ start_pos |-> end_pos[k - 1],
                                                 end_pos   |-> end_pos[k],
                                                 type      |-> tokens[k].type ]] ]

\* LogEvent::LogEvent: the text in a buffer of its own, and tokens that refer to
\* it, from slot 0 on.
deep_copy(tokens) ==
  LET end_pos[k \in 0 .. Len(tokens)] ==
        IF k = 0 THEN 0 ELSE end_pos[k - 1] + TokenLength(tokens[k])
  IN [ has_header |-> out.has_header,
       m_buffer   |-> Concat(tokens),
       slots      |-> [k \in DOMAIN tokens |-> [ start_pos |-> end_pos[k - 1],
                                                 end_pos   |-> end_pos[k],
                                                 type      |-> tokens[k].type ]] ]

\* The text of a copy's token, LogEventView::to_string and get_variables on it.
copied_text(copy, k) ==
  SubSeq(copy.m_buffer, copy.slots[k].start_pos + 1, copy.slots[k].end_pos)

copy_to_string(copy) ==
  LET from_slot[k \in 1 .. Len(copy.slots) + 1] ==
        IF k > Len(copy.slots) THEN << >> ELSE copied_text(copy, k) \o from_slot[k + 1]
  IN from_slot[IF copy.has_header THEN 1 ELSE 2]

IsVariable(t) == t.type \notin {TokenHeader, TokenNewline, TokenUncaughtString, TokenEnd}

copy_variables(copy) ==
  {copied_text(copy, k) : k \in {j \in DOMAIN copy.slots : IsVariable(copy.slots[j])}}
=============================================================================
