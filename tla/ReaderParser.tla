---------------------------- MODULE ReaderParser ----------------------------
(***************************************************************************)
(* ReaderParser: LogParser over a reader that it reads from as needed, and *)
(* an application that asks for one event after the other.                 *)
(***************************************************************************)
EXTENDS LogParser

CONSTANTS
  StaticSize,  \* cStaticByteBuffSize
  Logs,        \* the inputs of the first reader
  NextLogs,    \* the inputs of the readers set later
  MaxSize,     \* bound: the largest buffer increase_capacity may produce
  ReaderFails  \* whether the reader may return an error

ASSUME ReaderAssumption ==
  /\ StaticSize \in Nat /\ \E h \in 1 .. StaticSize : StaticSize = 2 * h
  /\ \A l \in Logs \cup NextLogs : l \in Seq(Chars)

\* reset_and_set_reader: everything LogParser::reset touches.
ResetTo(l) ==
  /\ log' = l
  /\ read_off' = 0
  /\ buf' = reset(StaticSize)
  /\ retired' = << >>
  /\ lex' = prepend_start_of_file_char(lexer_reset, reset(StaticSize))
  /\ done' = FALSE

Init ==
  /\ log \in Logs
  /\ read_off = 0
  /\ buf = reset(StaticSize)
  /\ retired = << >>
  /\ lex = prepend_start_of_file_char(lexer_reset, reset(StaticSize))
  /\ out = out_reset
  /\ start_of_log = NoToken
  /\ tok = NoToken
  /\ skip = NoSkip
  /\ pc = "ready"
  /\ done = FALSE
  /\ from = 0
  /\ intact = {"text", "variables"}

\* The application may set another reader between any two calls.  The view is
\* not reset here but by the next parse_next_event, before anything looks at
\* it; the token kept for the next event is not reset at all, and what follows
\* is in doubt if there is one.
ResetAndSetReader ==
  /\ pc \in {"ready", "event", "failed"}
  /\ \E l \in NextLogs : ResetTo(l)
  /\ out' = out_reset
  /\ tok' = NoToken
  /\ pc' = "ready"
  /\ from' = 0
  /\ intact' = IF start_of_log = NoToken THEN {"text", "variables"} ELSE {}
  /\ UNCHANGED <<start_of_log, skip>>

\* read_into_input on buffer b: the outcomes other than an error.
ReadInto(b) ==
  \/ /\ ~read_is_safe(b)
     /\ buf' = b
     /\ UNCHANGED read_off
  \/ /\ read_is_safe(b)
     /\ read_off < Len(log)
     /\ LET left == Len(log) - read_off
            n    == IF left < Half(b) THEN left ELSE Half(b)
        IN buf' = read_success(b, read_off, n) /\ read_off' = read_off + n
  \/ /\ read_is_safe(b)
     /\ read_off = Len(log)
     /\ buf' = read_eof(b)
     /\ UNCHANGED read_off

\* The first half of parse_next_event.
ParseNextEvent ==
  /\ pc \in {"ready", "event", "failed"}
  /\ ~done
  /\ out' = out_reset
  /\ from' = IF pc = "event" THEN NextFrom ELSE from
  /\ tok' = NoToken
  /\ \/ ReadInto(buf) /\ pc' = "parse"
     \/ ReaderFails /\ read_is_safe(buf) /\ pc' = "failed" /\ UNCHANGED <<buf, read_off>>
  /\ UNCHANGED <<log, retired, lex, start_of_log, skip, done, intact>>

\* Growth that puts what follows in doubt: misplaced positions, or a scan
\* that was interrupted in the skip loop and resumes with an old start_pos,
\* so that the variable it finds next begins too early.
StillIntact ==
  IF misplaced_by_growth(lex, buf) THEN {}
  ELSE IF skip # NoSkip THEN intact \ {"variables"}
  ELSE intact

\* parse_next_event, when parse has returned BufferOutOfBounds.  If the read
\* fails, the next call resets the view and with it the tokens so far.
IncreaseCapacity ==
  /\ pc = "oob"
  /\ 2 * buf.size <= MaxSize
  /\ lex' = increase_buffer_capacity(lex, buf)
  /\ retired' = Append(retired, buf.storage)
  /\ \/ /\ ReadInto(increase_capacity(buf))
        /\ pc' = "parse"
        /\ intact' = StillIntact
     \/ /\ ReaderFails
        /\ read_is_safe(increase_capacity(buf))
        /\ buf' = increase_capacity(buf)
        /\ pc' = "failed"
        /\ intact' = {}
        /\ UNCHANGED read_off
  /\ skip' = NoSkip
  /\ UNCHANGED <<log, out, start_of_log, tok, done, from>>

Next ==
  \/ ResetAndSetReader
  \/ ParseNextEvent
  \/ IncreaseCapacity
  \/ Scan
  \/ Parse

Spec == Init /\ [][Next]_vars

\* A call, once made, runs on.
LiveSpec == Spec /\ WF_vars(IncreaseCapacity \/ Scan \/ Parse)

-----------------------------------------------------------------------------
Returned == pc \in {"ready", "event", "failed"}

\* The type invariant: positions of the buffer and of the lexer stay inside
\* the storage, whatever growth has done to them.
TypeOK ==
  /\ IsBuffer(buf)
  /\ buf.pos \in 0 .. buf.size - 1
  /\ {lex.match_pos, lex.start_pos, lex.last_match_pos} \subseteq 0 .. buf.size - 1
  /\ lex.first_delim \in Unset .. buf.size - 1
  /\ lex.state \in DfaStates \cup {Null}
  /\ read_off \in 0 .. Len(log)
  /\ intact \subseteq {"text", "variables"}
  /\ pc \in {"parse", "scan", "main", "skip", "token", "oob"} \/ Returned

\* The events that parse_next_event returns are those of the log, wherever
\* the halves of the buffer begin and end, whether the tokens wrap, were kept
\* from the previous call, or are spread over several storages: none of
\* their characters is lost, repeated or overwritten before the application
\* sees the event, an event ends where the next one starts, and the parser
\* is done at the end of the log.
EventIsReference ==
  pc = "event" /\ "text" \in intact =>
    /\ Len(EventText) = EventEnd(from) - from
    /\ \A i \in 1 .. Len(EventText) : EventText[i] = from + i - 1
    /\ out.has_header <=> HeaderAt(from)
    /\ done => from + Len(EventText) = Len(log)

\* The texts of the tokens in the view that are variables.
ViewVariables ==
  {TokenText(EventTokens[k]) : k \in {j \in DOMAIN EventTokens : IsVariable(EventTokens[j])}}

\* What the application finds in the view does not depend on the buffer:
\* the variables are those of the schema that end in the event, without the
\* '\n' in front of one that starts the event.
VariablesFound ==
  pc = "event" /\ "variables" \in intact =>
    ViewVariables =
      { LET first == IF v.start > from THEN v.start ELSE from
        IN [i \in 1 .. v.end - first |-> first + i - 1] :
          v \in {w \in Variables : from < w.end /\ w.end <= from + Len(EventText)} }

\* A copy of an event is the event, whichever storages its tokens are in and
\* whether they wrap: it has the same variables and, if it has a header, the same
\* text.  (Without one, see CopyIsRawText.)  deep_copy throws for an event
\* without text, which only the end of the log can be.
CopyIsEvent ==
  pc = "event" =>
    /\ EventText = << >> /\ "text" \in intact => done
    /\ EventText # << >> =>
         LET copy == deep_copy(EventTokens)
         IN /\ copy_variables(copy) = ViewVariables
            /\ out.has_header => copy_to_string(copy) = EventText

\* An event with a header is multiline if and only if it has a character behind a
\* newline: LogEvent.hpp, "A log event contains multiple lines if it contains any
\* character after a new line character".  (At the end of the log, a last line of
\* one token is not counted.)
MultilineIsReference ==
  pc = "event" /\ "text" \in intact /\ out.has_header =>
    LET more == \E i \in from + 1 .. from + Len(EventText) - 1 : log[i] = Newline
    IN (is_multiline => more) /\ (more /\ ~done => is_multiline)

\* Every call of parse_next_event returns: scan never goes round in circles
\* over the same text, and growing the buffer ends.  (Except after growth
\* with a consumed position of 0, where no half may be read into and the buffer
\* only gets larger.)
CallsReturn ==
  pc = "parse" ~> Returned \/ "text" \notin intact \/ buf.consumed_pos = 0

-----------------------------------------------------------------------------
(***************************************************************************)
(* The inductive invariant behind TypeOK.  Positions stay inside the       *)
(* storage only as long as the automaton gets characters of the log, so    *)
(* the storage holds nothing that was not read, and where the skip loop    *)
(* goes back to was a position of the buffer.                              *)
(***************************************************************************)

\* The bytes of a buffer into which n bytes of the log were read.
StorageOf(b, n) ==
  /\ IsBuffer(b)
  /\ b.size \in Nat \ {0}
  /\ b.pos \in 0 .. b.size - 1
  /\ b.storage \in [0 .. b.size - 1 -> Unset .. n - 1]

\* The positions that the lexer keeps, in a storage of n bytes.
LexerWithin(x, n) ==
  /\ x \in Lexers
  /\ {x.match_pos, x.start_pos, x.last_match_pos} \subseteq 0 .. n - 1
  /\ x.first_delim \in Unset .. n - 1

TypeInv ==
  /\ log \in Seq(Chars)
  /\ read_off \in 0 .. Len(log)
  /\ StorageOf(buf, read_off)
  /\ LexerWithin(lex, buf.size)
  /\ pc = "skip" => skip.prev \in 0 .. buf.size - 1
  /\ intact \subseteq {"text", "variables"}
  /\ pc \in {"parse", "scan", "main", "skip", "token", "oob"} \/ Returned

-----------------------------------------------------------------------------
(***************************************************************************)
(* The inductive invariant behind EventIsNextText.  It speaks of offsets   *)
(* in the log, which do not wrap, instead of positions in the buffer.      *)
(***************************************************************************)

\* The offset that position p of buffer b stands for when n bytes of the log
\* were read: the one of the last b.size + 1 offsets, but the oldest, that is
\* stored there or will be next.
OffsetOf(b, n, p) ==
  IF p > b.last_read THEN (n - b.last_read) + (p - b.size)
  ELSE IF p = 0 /\ b.last_read = b.size THEN n
  ELSE (n - b.last_read) + p

Offset(p) == OffsetOf(buf, read_off, p)

\* The end of the text that the lexer has returned.
Pending ==
  IF pc \notin {"main", "skip"} /\ ~lex.asked /\ lex.match
  THEN lex.start_pos ELSE lex.last_match_pos

\* Where the next token of the view begins.
Seam ==
  IF pc = "token" THEN tok.start_pos
  ELSE IF start_of_log # NoToken THEN start_of_log.start_pos
  ELSE Pending

\* The first byte that must still be in the buffer: the next one of the view,
\* or the '\n' before a token that was kept, which may be empty.
Needed == IF start_of_log = NoToken THEN NextFrom ELSE NextFrom - 1

\* The two halves of buffer b, of which n bytes of the log were read in turn.
RingOf(b, n) ==
  /\ b.size \in Nat /\ TwoHalves(b)
  /\ b.last_read \in 0 .. b.size
  /\ b.first_half \in BOOLEAN /\ b.finished \in BOOLEAN
  /\ b.consumed_pos \in 0 .. b.size
  /\ b.fully_consumed \in BOOLEAN
  /\ b.first_half => 0 < b.last_read /\ b.last_read <= Half(b)
  /\ ~b.first_half /\ b.last_read # 0 => Half(b) < b.last_read
  /\ b.last_read = 0 => n = 0
  /\ ~b.finished /\ b.last_read # 0
       => b.last_read = IF b.first_half THEN Half(b) ELSE b.size

\* The bytes from offset a on are in place, and the next read that is
\* considered safe will not touch them.
KeepsFrom(b, n, a) ==
  /\ b.first_half => a > (n - b.last_read) - Half(b)
  /\ ~b.first_half /\ b.last_read # 0 => a > n - b.last_read
  /\ read_is_safe(b) => a > n - Half(b)
  /\ \A i \in 0 .. b.size - 1 :
       a <= OffsetOf(b, n, i) /\ OffsetOf(b, n, i) < n
         => b.storage[i] = OffsetOf(b, n, i)

BufferInv ==
  /\ RingOf(buf, read_off)
  /\ KeepsFrom(buf, read_off, Needed)
  /\ buf.finished => read_off = Len(log)
  /\ buf.fully_consumed => at_end_of_log(buf)
  /\ pc = "oob" => out_of_bounds(buf)

\* Between two scans the lexer holds a match that follows the text it has
\* returned, or will go on behind that text.
RestInv ==
  pc \notin {"main", "skip", "oob"} /\ ~lex.asked =>
    IF lex.match
    THEN /\ buf.pos = lex.match_pos
         /\ lex.type # NoType
         /\ lex.type # TokenEnd => Offset(lex.start_pos) < Offset(lex.match_pos)
         /\ lex.type = TokenEnd =>
              Offset(lex.start_pos) = read_off /\ Offset(buf.pos) = read_off /\ buf.finished
    ELSE lex.last_match_pos = IF lex.first_delim = Unset THEN buf.pos ELSE lex.first_delim

\* In the main loop, and where it was interrupted or has yet to begin: what was
\* returned ends at last_match_pos, and the rule tried now begins at start_pos.
MainInv ==
  pc = "main" \/ lex.asked =>
    /\ Offset(lex.last_match_pos) <= Offset(lex.start_pos)
    /\ Offset(lex.start_pos) <= Offset(buf.pos)
    /\ lex.match => /\ Offset(lex.start_pos) < Offset(lex.match_pos)
                    /\ Offset(lex.match_pos) <= Offset(buf.pos)
                    /\ lex.type \notin {NoType, TokenEnd}
    /\ lex.start_pos = buf.pos =>
         /\ ~is_accepting(lex.state)
         /\ lex.last_match_pos = buf.pos \/ ~out_of_bounds(buf)
    /\ lex.first_delim # Unset =>
         /\ Offset(lex.last_match_pos) < Offset(lex.first_delim)
         /\ Offset(lex.first_delim) < Offset(buf.pos)

\* In the skip loop.
SkipInv ==
  pc = "skip" =>
    /\ ~lex.match /\ lex.first_delim = Unset /\ lex.state = Root
    /\ Offset(lex.last_match_pos) <= Offset(lex.start_pos)
    /\ Offset(lex.start_pos) <= Offset(skip.prev)
    /\ IF buf.fully_consumed THEN skip.prev = buf.pos
       ELSE Offset(skip.prev) < Offset(buf.pos)

LexerInv ==
  /\ RestInv /\ MainInv /\ SkipInv
  /\ lex.asked => pc \in {"ready", "failed", "parse", "scan", "oob"}
  /\ pc = "oob" => lex.asked

Tokens ==
  [ start_pos : Nat, end_pos : Nat, type : Types, buffer : Nat, buffer_size : Nat ]

\* A token that refers to the active storage.
Current(t) ==
  /\ t \in Tokens /\ t.type # NoType
  /\ t.start_pos < buf.size /\ t.end_pos < buf.size
  /\ t.buffer = Len(retired) + 1 /\ t.buffer_size = buf.size

\* The token that scan has just returned.
TokenInv ==
  pc = "token" =>
    /\ Current(tok)
    /\ tok.end_pos = Pending
    /\ tok.type # TokenEnd => Offset(tok.start_pos) < Offset(tok.end_pos)
    /\ tok.type = TokenEnd =>
         Offset(tok.start_pos) = read_off /\ Offset(tok.end_pos) = read_off /\ buf.finished
    /\ tok.type \notin {TokenUncaughtString, TokenEnd} =>
         ~lex.match /\ lex.first_delim = Unset

\* The token that is kept for the next event.
KeptInv ==
  start_of_log # NoToken =>
    /\ pc \in {"event", "failed", "parse"} /\ ~done
    /\ pc = "parse" => ~out.started
    /\ Current(start_of_log)
    /\ start_of_log.type # TokenEnd
    /\ start_of_log.end_pos = Pending
    /\ Offset(start_of_log.start_pos) <= Offset(start_of_log.end_pos)

\* The byte at position p of the storage that token t refers to, out of the
\* retired storages old and that of buffer b.
ByteIn(old, b, t, p) ==
  IF t.buffer <= Len(old) THEN old[t.buffer][p]
  ELSE IF t.buffer = Len(old) + 1 /\ p < b.size THEN b.storage[p]
  ELSE Unset

EndIn(old, b, t) ==
  ByteIn(old, b, t, IF t.end_pos = 0 THEN t.buffer_size - 1 ELSE t.end_pos - 1) + 1

\* Token t, in one of these storages, is the text from offset a on.
Spells(old, b, t, a) ==
  /\ t \in Tokens
  /\ t.start_pos < t.buffer_size /\ t.end_pos < t.buffer_size
  /\ 0 < t.buffer /\ t.buffer <= Len(old) + 1
  /\ t.buffer = Len(old) + 1 => t.buffer_size = b.size
  /\ \A i \in 0 .. TokenLength(t) - 1 :
       ByteIn(old, b, t, IF t.start_pos + i < t.buffer_size THEN t.start_pos + i
                         ELSE t.start_pos + i - t.buffer_size) = a + i
  /\ EndIn(old, b, t) = a + TokenLength(t)

\* The tokens of the view follow each other, from the end of the last event.
ViewInv ==
  /\ out \in [ has_header : BOOLEAN, started : BOOLEAN,
               slot0 : Tokens \cup {NoToken}, rest : Seq(Tokens) ]
  /\ out.has_header => out.slot0 \in Tokens
  /\ ~out.started => out = out_reset
  /\ out.started /\ pc # "event" => EventTokens # << >>
  /\ pc \in {"ready", "failed"} => ~out.started
  /\ \A k \in 1 .. Len(EventTokens) :
       Spells(retired, buf, EventTokens[k],
              IF k = 1 THEN from ELSE EndIn(retired, buf, EventTokens[k - 1]))

\* The text of the view ends where the next token begins.
SeamInv ==
  /\ from \in Nat /\ from <= NextFrom
  /\ NextFrom = Offset(Seam)
  /\ pc = "event" /\ ~done => from < NextFrom
  /\ done => NextFrom = Len(log)

Storages == UNION {[0 .. n - 1 -> Int] : n \in Nat}

\* What the view and the kept token consist of, also when the text is in doubt.
PlacedTokens == {t \in Tokens : t.start_pos < t.buffer_size /\ t.end_pos < t.buffer_size}

ViewTypeInv ==
  /\ retired \in Seq(Storages)
  /\ out \in [ has_header : BOOLEAN, started : BOOLEAN,
               slot0 : PlacedTokens \cup {NoToken}, rest : Seq(PlacedTokens) ]
  /\ out.has_header => out.slot0 # NoToken
  /\ start_of_log \in PlacedTokens \cup {NoToken}
  /\ pc = "token" => tok \in PlacedTokens

TextInv ==
  "text" \in intact =>
    /\ retired \in Seq(Storages)
    /\ done \in BOOLEAN /\ (done => pc = "event")
    /\ BufferInv
    /\ LexerInv
    /\ TokenInv
    /\ KeptInv
    /\ ViewInv
    /\ SeamInv

-----------------------------------------------------------------------------
(***************************************************************************)
(* The inductive invariant behind EventIsReference: where lines begin and  *)
(* which of them begin with a header.                                      *)
(***************************************************************************)

\* The states that a rule which begins with another delimiter than '\n' can reach.
Inner ==
  LET closed(B) == /\ \A c \in Chars \ {Newline} : Transition[Root][c] \in B \cup {Null}
                   /\ \A s \in B, c \in Chars : Transition[s][c] \in B \cup {Null}
  IN {s \in DfaStates : \A B \in SUBSET DfaStates : closed(B) => s \in B}

\* What add_rules makes of a schema without a variable of the name "newLine": a rule
\* begins with '\n', with another delimiter or with the start of the file, and nothing
\* leads back to there; the rule newLine is '\n' alone; a header begins with '\n' or with
\* the start of the file.
LineRules ==
  /\ \A s \in DfaStates, c \in Chars : Transition[s][c] # Root
  /\ StartOfFile # Root
  /\ \A s \in DfaStates : TypeIds[s] = TokenNewline => s = Transition[Root][Newline]
  /\ \A s \in DfaStates, c \in Chars :
       Transition[s][c] = Transition[Root][Newline] => s = Root /\ c = Newline
  /\ \A s \in Inner : TypeIds[s] # TokenHeader

LineStart == Transition[Root][Newline]

\* There is no '\n' in the text from offset a to e.
NoNewline(a, e) == \A i \in a + 1 .. e : log[i] # Newline

\* In this log no match of a rule goes on behind a '\n' that is not its first character.
\* add_rules lets a variable or a header contain '\n', and a token of such a rule may be
\* of several lines.  A log that has one is none that EventEnd and is_multiline are
\* right about: they look for '\n' in front of tokens only.
LinesApart ==
  /\ \A e \in MatchEnds(StartOfFile, 0) : NoNewline(0, e)
  /\ \A k \in 1 .. Len(log) :
       \A e \in MatchEnds(Transition[Root][log[k]], k) : NoNewline(k, e)

\* A token of type y from offset a to e has a '\n' at most in front; if it has, it is a
\* header or just the '\n' exactly if there is a header or nothing.
LineToken(a, e, y) ==
  /\ NoNewline(a + 1, e)
  /\ IF a < e /\ log[a + 1] = Newline
     THEN (y = TokenHeader <=> HeaderAt(a + 1)) /\ (y = TokenNewline <=> e = a + 1)
     ELSE (y = TokenHeader <=> a = 0 /\ HeaderAt(0)) /\ y # TokenNewline

\* Lexer x, which is at offset p and has the last match end at offset m, has noted the
\* last end of the rule that began at offset i in state s that it has passed.
Noted(x, s, i, p, m) ==
  /\ \A j \in MatchEnds(s, i) : j < p => x.match /\ j <= m
  /\ x.match => x.type = TypeIds[Run(s, i, m)] /\ (m = i \/ m \in MatchEnds(s, i))

\* It has returned the text up to offset l, and what it tries now began at offset s: the
\* start of the file, a '\n', or neither.  The attempt may have gone on behind a '\n',
\* but not over one that was the first delimiter.
AtFileStart(x, s, p, m) ==
  /\ s = 0
  /\ x.state = Run(StartOfFile, 0, p)
  /\ Noted(x, StartOfFile, 0, p, m)

AtLineStart(x, l, s, p, m) ==
  /\ s < p /\ log[s + 1] = Newline
  /\ x.match
  /\ x.state = Run(LineStart, s + 1, p)
  /\ Noted(x, LineStart, s + 1, p, m)
  /\ l = 0 => ~HeaderAt(0)

\* The rule began at offset d, behind s if the skip loop was interrupted.
Tries(x, s, d, p, m) ==
  /\ NoNewline(s, d + 1)
  /\ x.state = Run(Transition[Root][log[d + 1]], d + 1, p)
  /\ Noted(x, Transition[Root][log[d + 1]], d + 1, p, m)

InsideLine(x, l, s, p, m) ==
  /\ IF x.state = Root THEN ~x.match /\ x.first_delim = Unset
     ELSE x.state \in Inner /\ \E d \in s .. p - 1 : Tries(x, s, d, p, m)
  /\ x.match => x.type \notin {TokenHeader, TokenNewline}
  /\ l = 0 => ~HeaderAt(0)

\* The first delimiter, if there is one, is at offset f.
CleanUpTo(x, l, p, f) == NoNewline(l, IF x.first_delim = Unset THEN p ELSE f)

LineState(x, l, s, p, m, f) ==
  /\ NoNewline(l, s)
  /\ \/ AtFileStart(x, s, p, m) /\ CleanUpTo(x, l, p, f)
     \/ AtLineStart(x, l, s, p, m)
     \/ InsideLine(x, l, s, p, m) /\ CleanUpTo(x, l, p, f)

MainLine ==
  pc = "main" \/ lex.asked =>
    LineState(lex, Offset(lex.last_match_pos), Offset(lex.start_pos), Offset(buf.pos),
              Offset(lex.match_pos), Offset(lex.first_delim))

SkipLine ==
  pc = "skip" =>
    /\ NoNewline(Offset(lex.last_match_pos), Offset(skip.prev))
    /\ Offset(lex.last_match_pos) = 0 => ~HeaderAt(0)
    /\ ~buf.fully_consumed => /\ Offset(buf.pos) = Offset(skip.prev) + 1
                              /\ skip.c = log[Offset(buf.pos)]

RestLine ==
  pc \notin {"main", "skip", "oob"} /\ ~lex.asked =>
    IF lex.match THEN LineToken(Offset(lex.start_pos), Offset(lex.match_pos), lex.type)
    ELSE Offset(lex.last_match_pos) = 0 => ~HeaderAt(0)

TokenLine ==
  pc = "token" => LineToken(Offset(tok.start_pos), Offset(tok.end_pos), tok.type)

\* The next event begins behind the '\n' of this one, or at the start of the log, with
\* a header exactly if the token that was kept for it is one.
NextEventLine ==
  ~out.started \/ (pc = "event" /\ ~done) =>
    IF start_of_log = NoToken
    THEN NextFrom = 0 \/ (log[NextFrom] = Newline /\ ~HeaderAt(NextFrom))
    ELSE /\ NextFrom > 0 /\ log[NextFrom] = Newline
         /\ NextFrom < Offset(start_of_log.end_pos)
         /\ NoNewline(NextFrom, Offset(start_of_log.end_pos))
         /\ start_of_log.type = TokenHeader <=> HeaderAt(NextFrom)

\* The event does not end before it does.
EventLine ==
  /\ out.started => (out.has_header <=> HeaderAt(from))
  /\ pc = "event" => NextFrom = EventEnd(from)
  /\ pc # "event" /\ out.started => from < NextFrom
  /\ pc # "event" =>
       \A j \in from + 1 .. NextFrom :
         log[j] = Newline => ~HeaderAt(j) /\ (HeaderAt(from) \/ j = from + 1)

LineInv ==
  "text" \in intact /\ LinesApart =>
    MainLine /\ SkipLine /\ RestLine /\ TokenLine /\ NextEventLine /\ EventLine

\* Where the tokens ts of an event end, from where it begins.
TokenEnds(ts) ==
  LET e[k \in 0 .. Len(ts)] == IF k = 0 THEN 0 ELSE e[k - 1] + TokenLength(ts[k])
  IN e

\* In the text from offset f on, cut into n tokens that end at e, each '\n' is the
\* first character of a token behind the first one, and these are not empty.
LinesOf(n, e, f) ==
  /\ NoNewline(f, f + e[1])
  /\ \A k \in 2 .. n : e[k - 1] < e[k] /\ NoNewline(f + e[k - 1] + 1, f + e[k])

\* The inductive invariant behind MultilineIsReference: the lines of an event with a
\* header begin with its tokens, and it ends with a token that is just '\n', unless the
\* log ends.
HeaderLines ==
  "text" \in intact /\ LinesApart /\ out.has_header =>
    LET n == Len(EventTokens)
    IN /\ LinesOf(n, TokenEnds(EventTokens), from)
       /\ pc = "event" /\ ~done => n > 1 /\ TokenLength(EventTokens[n]) = 1

-----------------------------------------------------------------------------
(* What the documentation says and the code does not do.                   *)

\* LogEvent: "Contains all of the data necessary to store the log event",
\* to_string "Reconstructs the raw log event": the copy of an event has its text.
CopyIsRawText ==
  pc = "event" /\ EventText # << >> => copy_to_string(deep_copy(EventTokens)) = EventText

\* LogEventView::to_string: "Reconstructs the raw log event": an event is
\* the next piece of the log.
EventIsRawText ==
  pc = "event" => \A i \in 1 .. Len(EventText) : EventText[i] = from + i - 1
=============================================================================
