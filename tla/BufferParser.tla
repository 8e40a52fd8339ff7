---------------------------- MODULE BufferParser ----------------------------
(***************************************************************************)
(* BufferParser: LogParser over an array that the application fills, and   *)
(* an application that uses it the way examples/buffer-parser.cpp does: it *)
(* calls parse_next_event until that reports BufferOutOfBounds, then moves *)
(* the bytes from offset on to the front (or doubles the array if offset   *)
(* is 0), fills the rest and calls again.                                  *)
(***************************************************************************)
EXTENDS LogParser

CONSTANTS
  StaticSize,  \* cStaticByteBuffSize
  Logs,        \* the inputs considered first
  NextLogs,    \* the inputs considered after a reset
  FirstCap     \* the application's first array has this size

ASSUME InputAssumption ==
  /\ FirstCap \in Nat
  /\ \A l \in Logs \cup NextLogs : l \in Seq(Chars)

VARIABLES
  user,        \* the application's array and arguments: cap, size, offset,
               \* finished, and base, the offset in the log of its first byte
  slot0        \* the start of the token that slot 0 of the output buffer
               \* was last set to (0 for a default-constructed Token)

bvars == <<vars, user, slot0>>

\* istream::read into the free part of the array; eof() is reported when
\* less was read than was asked for.
Filled(u) ==
  LET left == Len(log) - (u.base + u.size)
      free == u.cap - u.size
  IN [u EXCEPT !.size = u.size + (IF left < free THEN left ELSE free),
               !.finished = left < free]

\* The input buffer that set_storage makes of the array.
UserBuffer ==
  [ set_storage(StaticSize, user.size, user.offset, user.finished) EXCEPT
      !.storage = [i \in 0 .. 2 * user.size - 1 |->
                     IF i < user.size THEN user.base + i ELSE Unset] ]

\* get_token(0).get_start_pos().
FirstSlot == IF out.slot0 = NoToken THEN slot0 ELSE out.slot0.start_pos

\* The offset that parse_next_event hands back with BufferOutOfBounds, if it
\* were left where the last event put it.
PartialOffset_mutant == user.offset

\* The offset that parse_next_event hands back with BufferOutOfBounds.
PartialOffset == IF out_pos(out) # 0 THEN FirstSlot ELSE user.offset

\* A reset that keeps the lexer as it is.
ResetParser_mutant ==
  /\ buf' = reset(StaticSize)
  /\ lex' = lex
  /\ done' = FALSE
  /\ skip' = NoSkip
  /\ tok' = NoToken

\* BufferParser::reset and LogParser::reset.
ResetParser ==
  /\ buf' = reset(StaticSize)
  /\ lex' = prepend_start_of_file_char(lexer_reset, reset(StaticSize))
  /\ done' = FALSE
  /\ skip' = NoSkip
  /\ tok' = NoToken

NewArray(l) ==
  LET left == Len(l)
  IN [ cap |-> FirstCap, base |-> 0, offset |-> 0,
       size |-> IF left < FirstCap THEN left ELSE FirstCap,
       finished |-> left < FirstCap ]

Init ==
  /\ log \in Logs
  /\ user = NewArray(log)
  /\ slot0 = 0
  /\ read_off = 0
  /\ buf = reset(StaticSize)
  /\ retired = << >>
  /\ lex = prepend_start_of_file_char(lexer_reset, reset(StaticSize))
  /\ out = out_reset
  /\ start_of_log = NoToken
  /\ tok = NoToken
  /\ skip = NoSkip
  /\ pc = "ready"
  /\ done = FALSE
  /\ from = 0
  /\ intact = {"text", "variables"}

\* The application is done with a log and starts the next one.  It also
\* starts over when the offset it was given lies outside its array.
Reset ==
  /\ \/ pc = "ready" /\ done
     \/ pc = "full" /\ user.offset > user.size
  /\ \E l \in NextLogs : log' = l /\ user' = NewArray(l)
  /\ ResetParser
  /\ out' = out_reset
  /\ slot0' = FirstSlot
  /\ pc' = "ready"
  /\ from' = 0
  /\ intact' = {"text", "variables"}
  /\ UNCHANGED <<read_off, retired, start_of_log>>

\* parse_next_event up to its call of parse.
ParseNextEvent ==
  /\ pc = "ready"
  /\ ~done
  /\ slot0' = FirstSlot
  /\ out' = out_reset
  /\ tok' = NoToken
  /\ buf' = UserBuffer
  /\ pc' = "parse"
  /\ UNCHANGED <<lex, start_of_log, skip, done, history, input_vars, user>>

\* parse_next_event returns Success.
ReturnEvent ==
  /\ pc = "event"
  /\ user' = [user EXCEPT !.offset = buf.pos]
  /\ from' = NextFrom
  /\ pc' = "ready"
  /\ UNCHANGED <<buf, lex, out, start_of_log, tok, skip, done, intact,
                 input_vars, slot0>>

\* parse_next_event returns BufferOutOfBounds.  An event without a header has
\* not set slot 0, so what is taken for its start is that of an older token.
ReturnOutOfBounds ==
  /\ pc = "oob"
  /\ user' = [user EXCEPT !.offset = PartialOffset]
  /\ ResetParser
  /\ pc' = "full"
  /\ intact' = IF out_pos(out) # 0 /\ ~out.has_header THEN {} ELSE intact
  /\ UNCHANGED <<out, start_of_log, from, input_vars, slot0>>

\* The application keeps the bytes from offset on and gets more of the log.
Refill ==
  /\ pc = "full"
  /\ ~user.finished
  /\ user.offset <= user.size
  /\ user' = Filled(IF user.offset = 0
                    THEN [user EXCEPT !.cap = 2 * @]
                    ELSE [user EXCEPT !.base = @ + user.offset,
                                      !.size = @ - user.offset, !.offset = 0])
  /\ pc' = "ready"
  /\ UNCHANGED <<buf, lex, out, start_of_log, tok, skip, done, history,
                 input_vars, slot0>>

Next ==
  \/ Reset
  \/ ParseNextEvent
  \/ ReturnEvent
  \/ ReturnOutOfBounds
  \/ Refill
  \/ Scan /\ UNCHANGED <<user, slot0>>
  \/ Parse /\ UNCHANGED <<user, slot0>>

Spec == Init /\ [][Next]_bvars

\* The parser runs on and the application goes on calling it.
LiveSpec == Spec /\ WF_bvars(Next)

-----------------------------------------------------------------------------

\* The type invariant: the parser never moves past the bytes that it was
\* given, and the offset it hands back lies inside them.
TypeOK ==
  /\ IsBuffer(buf)
  /\ pc \notin {"ready", "full"} => buf.pos \in 0 .. user.size
  /\ user.base + user.size \in 0 .. Len(log)
  /\ "text" \in intact => user.offset \in 0 .. user.size /\ from \in 0 .. Len(log)
  /\ pc \in {"ready", "parse", "scan", "main", "skip", "token", "oob", "full",
             "event"}

\* The events that the application gets are those of the log, although each
\* partial one is parsed again from its start, in another place of the array,
\* by a parser that begins with the start of a file: none is lost, repeated
\* or cut, and the parser is done at the end of the log.
EventIsReference ==
  pc = "event" /\ "text" \in intact =>
    /\ Len(EventText) = EventEnd(from) - from
    /\ \A i \in 1 .. Len(EventText) : EventText[i] = from + i - 1
    /\ out.has_header <=> HeaderAt(from)
    /\ done => from + Len(EventText) = Len(log)

\* When parse_next_event reports BufferOutOfBounds, the bytes that it tells
\* the application to keep are those from the first one that no event has
\* contained yet, although after the event before it the offset pointed
\* behind the header that parse had already scanned.
OffsetAtPartialEvent ==
  pc = "full" /\ "text" \in intact => user.base + user.offset = from

\* An application that goes on calling and refilling gets to the end of every
\* log: neither does the parser ask for more input for ever, nor does it
\* report the end of the array after it was told that the input is complete.
EveryLogFinishes == []<>(done \/ "text" \notin intact)

-----------------------------------------------------------------------------
(***************************************************************************)
(* The inductive invariant behind these properties: which positions of the *)
(* array the lexer and the tokens refer to at each point of a call.        *)
(***************************************************************************)
Calls == {"parse", "scan", "main", "skip", "token", "oob", "event"}

Arrays == [cap : Nat, base : Nat, size : Nat, offset : Nat, finished : BOOLEAN]

\* The tokens of an array of n bytes.
Tokens(n) ==
  [ start_pos : Nat, end_pos : Nat, type : Types, buffer : {1}, buffer_size : {2 * n} ]

\* Such a token may be empty, but not at the beginning of the array.
Placed(t, n) ==
  /\ t \in Tokens(n)
  /\ t.start_pos <= t.end_pos /\ 0 < t.end_pos /\ t.end_pos <= n
  /\ t.type # NoType

\* The application's array and what it knows about the log.
ArrayInv ==
  /\ log \in Seq(Chars)
  /\ user \in Arrays
  /\ user.size <= user.cap
  /\ user.base + user.size <= Len(log)
  /\ user.finished => user.base + user.size = Len(log)
  /\ slot0 \in Nat
  /\ retired = << >>
  /\ pc \in Calls \cup {"ready", "full"}
  /\ done \in BOOLEAN
  /\ done => pc \in {"event", "ready"}

\* The input buffer b is the array u.
IsArray(b, u) ==
  /\ b.size = 2 * u.size
  /\ b.storage = [i \in 0 .. 2 * u.size - 1 |->
                    IF i < u.size THEN u.base + i ELSE Unset]
  /\ b.last_read = u.size
  /\ b.first_half = TRUE
  /\ b.finished = u.finished
  /\ b.pos \in 0 .. u.size
  /\ b.fully_consumed \in BOOLEAN
  /\ b.fully_consumed => u.finished /\ b.pos = u.size

\* During a call the input buffer is the array.
BufferInv == IsBuffer(buf) /\ (pc \in Calls => IsArray(buf, user))

\* Where the next character will be taken from.
Pos == IF pc = "ready" THEN user.offset ELSE buf.pos

FreshLexer == lex = prepend_start_of_file_char(lexer_reset, reset(StaticSize))

\* Between two scans the lexer is as reset left it, or holds a match that
\* follows the text it has returned, or will go on behind that text.
RestInv ==
  pc \in {"ready", "parse", "scan", "token", "event"} =>
    /\ Pos <= user.size
    /\ \/ FreshLexer /\ Pos = 0
       \/ /\ ~lex.asked /\ lex.match
          /\ Pos = lex.match_pos
          /\ lex.type # NoType
          /\ lex.type # TokenEnd => lex.start_pos < lex.match_pos
          /\ lex.type = TokenEnd =>
               lex.start_pos = user.size /\ Pos = user.size /\ user.finished
       \/ /\ ~lex.asked /\ ~lex.match
          /\ IF lex.first_delim = Unset THEN Pos = lex.last_match_pos
             ELSE lex.first_delim = lex.last_match_pos /\ lex.first_delim <= user.size

\* In the main loop: what was returned ends at last_match_pos, and the rule
\* that is tried now begins at start_pos.
MainInv ==
  pc = "main" =>
    /\ ~lex.asked
    /\ lex.last_match_pos <= lex.start_pos /\ lex.start_pos <= buf.pos
    /\ lex.match => /\ lex.start_pos < lex.match_pos /\ lex.match_pos <= buf.pos
                    /\ lex.type \notin {NoType, TokenEnd}
    /\ buf.pos = lex.start_pos => ~is_accepting(lex.state)
    /\ lex.first_delim # Unset =>
         lex.last_match_pos < lex.first_delim /\ lex.first_delim < buf.pos

\* In the skip loop.
SkipInv ==
  pc = "skip" =>
    /\ ~lex.asked /\ ~lex.match /\ lex.first_delim = Unset /\ lex.state = Root
    /\ lex.last_match_pos <= skip.prev
    /\ skip.prev \in Nat /\ skip.prev <= buf.pos
    /\ buf.fully_consumed => skip.prev = user.size

LexerInv ==
  /\ lex \in Lexers
  /\ RestInv /\ MainInv /\ SkipInv
  /\ pc = "full" => FreshLexer

\* The end of the text that the lexer has returned.
Pending ==
  IF pc \notin {"main", "skip"} /\ lex.match THEN lex.start_pos ELSE lex.last_match_pos

\* The token that scan has just returned.
TokenInv ==
  pc = "token" =>
    /\ tok \in Tokens(user.size)
    /\ tok.end_pos = Pending /\ tok.end_pos <= user.size
    /\ tok.type # NoType
    /\ tok.type # TokenEnd => tok.start_pos < tok.end_pos
    /\ tok.type = TokenEnd =>
         tok.start_pos = user.size /\ tok.end_pos = user.size /\ user.finished
    /\ tok.type \notin {TokenUncaughtString, TokenEnd} =>
         ~lex.asked /\ ~lex.match /\ lex.first_delim = Unset

\* The token that is kept for the next event.
KeptInv ==
  start_of_log # NoToken =>
    /\ pc \in {"event", "ready", "parse"} /\ ~done
    /\ Placed(start_of_log, user.size)
    /\ start_of_log.type # TokenEnd
    /\ start_of_log.end_pos = Pending

\* Where the next token of the view begins.
Seam ==
  IF pc = "token" THEN tok.start_pos
  ELSE IF start_of_log # NoToken THEN start_of_log.start_pos
  ELSE Pending

\* The view of a call on an array of n bytes.
Views(n) ==
  [ has_header : BOOLEAN, started : BOOLEAN, slot0 : Tokens(n) \cup {NoToken},
    rest : Seq(Tokens(n)) ]

\* The tokens of the view follow each other, from the end of the last event.
ViewInv ==
  /\ out.slot0 # NoToken => out.slot0.start_pos \in Nat
  /\ pc \in Calls =>
       /\ out \in Views(user.size)
       /\ ~out.started => out = out_reset
       /\ pc = "parse" => ~out.started
       /\ out.started /\ pc # "event" => EventTokens # << >>
       /\ out.has_header => out.started /\ out.slot0.type = TokenHeader
       /\ \A k \in 1 .. Len(EventTokens) : Placed(EventTokens[k], user.size)
       /\ \A k \in 2 .. Len(EventTokens) :
            EventTokens[k].start_pos = EventTokens[k - 1].end_pos
       /\ EventTokens # << >> /\ "text" \in intact =>
            user.base + EventTokens[1].start_pos = from

\* The text of the view ends where the next token begins.
SeamInv ==
  /\ pc \in Calls \ {"oob"} /\ EventTokens # << >> =>
       EventTokens[Len(EventTokens)].end_pos = Seam
  /\ "text" \in intact =>
       /\ from \in Nat /\ from <= Len(log)
       /\ pc \notin {"oob", "full"} => from <= user.base + Seam
       /\ \/ pc = "ready"
          \/ pc \in Calls \ {"oob"} /\ EventTokens = << >>
          => from = user.base + Seam
       /\ pc = "event" /\ ~done => from < user.base + Seam
       /\ done => user.base + Seam = Len(log)

\* As long as the view is empty, the array's offset is that of the first
\* byte behind the last event, unless a token was kept.
OffsetInv ==
  /\ pc = "event" /\ ~done /\ start_of_log = NoToken => buf.pos = Pending
  /\ "text" \in intact =>
       /\ user.offset <= user.size
       /\ \/ pc \in {"ready", "parse"} /\ ~done /\ start_of_log = NoToken
          \/ pc \in Calls \ {"event", "parse"} /\ ~out.started
          \/ pc = "full"
          => user.base + user.offset = from

TextInv ==
  /\ ArrayInv
  /\ BufferInv
  /\ LexerInv
  /\ TokenInv
  /\ KeptInv
  /\ ViewInv
  /\ SeamInv
  /\ OffsetInv

-----------------------------------------------------------------------------
(* What the documentation says and the code does not do.                   *)

\* parse_next_event: offset is "the starting position of the next unparsed
\* log event".
OffsetAtNextEvent == pc = "full" => user.base + user.offset = from
=============================================================================
