---------------------------- MODULE Lalr1Parser ----------------------------
(***************************************************************************)
(* Lalr1Parser as SchemaParser uses it: productions are added, generate()  *)
(* makes the tables, and parse() reads a schema through the input buffer,  *)
(* scans tokens, and shifts and reduces.  pc says where the parser is:     *)
(*                                                                         *)
(*   "new"       the productions were added                                *)
(*   "conflict"  generate() has thrown                                     *)
(*   "idle"      generated, nothing parsed yet                             *)
(*   "parse"     at the head of the loop of parse()                        *)
(*   "scan"      in Lexer::scan, which returns to "advance" or "drain"     *)
(*   "advance"   at parse_advance with a token                             *)
(*   "report"    parse_advance has failed: report_error                    *)
(*   "unwind"    report_error looks for the beginning of the line          *)
(*   "drain"     report_error looks for the end of the line                *)
(*   "accepted", "rejected", "scan_error": how parse() ended               *)
(***************************************************************************)
EXTENDS Lalr1Tables, InputBufferOps

CONSTANTS
  Grammars,     \* records of terminals and of the productions added
  TokenTypes,   \* what the lexer finds: words, with their symbols in the order of ids
  Newlines,     \* the words that end a line
  Inputs,       \* the schemas parsed first, for each start symbol of a grammar
  NextInputs,   \* the schemas parsed with the same parser afterwards
  StaticSize,   \* of the input buffer
  StringReader  \* the reader of try_schema_string instead of a file

ASSUME SizeAssumption == StaticSize \in Nat /\ StaticSize % 2 = 0 /\ StaticSize >= 4

\* A lexer's word is a sequence of characters, and so are the types of a token.
ASSUME TokenAssumption ==
  \A w \in DOMAIN TokenTypes :
    w \in Seq(Range(w)) /\ TokenTypes[w] \in Seq(Range(TokenTypes[w]))

\* At least one production is added, and a body has tokens and symbols that have
\* productions, each of which is nullable or begins with some token.
ASSUME GrammarAssumption ==
  \A grammar \in Grammars :
    LET added == grammar.added
        names == (grammar.terminals \cup {p.head : p \in Range(added)}) \ {StartPrime}
    IN /\ IsFiniteSet(grammar.terminals)
       /\ added # <<>>
       /\ added \in Seq([head : names, body : Seq(names), rule : SUBSET Nat])
       /\ is_productive([terminals |-> grammar.terminals, prods |-> productions(added)])

ASSUME InputAssumption ==
  /\ \A grammar \in Grammars : \A schema \in Inputs[productions(grammar.added)[1].head] :
       schema \in Seq(Range(schema))
  /\ \A schema \in NextInputs : schema \in Seq(Range(schema))

VARIABLES
  g,           \* m_productions, m_terminals
  actions,     \* the item sets with their m_actions
  input,       \* the schema
  read_off,    \* how much of it the reader has delivered
  buf,         \* m_input_buffer
  states,      \* m_parse_stack_states
  matches,     \* m_parse_stack_matches
  next_token,  \* m_next_token
  tok,         \* the token at hand
  back,        \* where scan returns to
  parsed,      \* what parse() returned
  line,        \* consumed_input of the error message, as the offsets of its bytes
  pc

tables == <<g, actions>>
stacks == <<states, matches, next_token>>
vars == <<tables, input, read_off, buf, stacks, tok, back, parsed, line, pc>>

NoToken == [types |-> <<>>]

-----------------------------------------------------------------------------
(* Lexer::scan of a lexer without delimiters all of whose characters begin *)
(* a token: the longest match, found by reading one character too many.    *)
(* While scanning, tok holds what was read; a token keeps the word, and    *)
(* the offsets of its bytes, that it had when it was scanned.              *)

could_match(word) == \E w \in DOMAIN TokenTypes : IsPrefix(word, w)

\* How many of the characters read are the match.
match_length(word) ==
  CHOOSE k \in 0 .. Len(word) :
    /\ k > 0 => SubSeq(word, 1, k) \in DOMAIN TokenTypes
    /\ \A j \in k + 1 .. Len(word) : SubSeq(word, 1, j) \notin DOMAIN TokenTypes

\* The character that ended the match is taken with it.
matched_mutant(t) ==
  LET k == match_length(t.word)
  IN [ types |-> IF k = 0 THEN <<TokenEnd>> ELSE TokenTypes[SubSeq(t.word, 1, k)],
       start_pos |-> t.start_pos,
       end_pos |-> IF at_end_of_log(buf) THEN buf.pos ELSE next_pos(buf, buf.pos),
       word |-> SubSeq(t.word, 1, k), text |-> SubSeq(t.text, 1, k) ]

matched(t) ==
  LET k == match_length(t.word)
  IN [ types |-> IF k = 0 THEN <<TokenEnd>> ELSE TokenTypes[SubSeq(t.word, 1, k)],
       start_pos |-> t.start_pos, end_pos |-> (t.start_pos + k) % buf.size,
       word |-> SubSeq(t.word, 1, k), text |-> SubSeq(t.text, 1, k) ]

StartScan(b) == [types |-> <<>>, start_pos |-> b.pos, word |-> <<>>, text |-> <<>>]

\* Nothing is stored beyond what was read.
next_word == Append(tok.word, input[curr_value(buf) + 1])

at_character == pc = "scan" /\ ~at_end_of_log(buf) /\ ~out_of_bounds(buf)

ScanChar ==
  /\ at_character
  /\ could_match(next_word)
  /\ tok' = [tok EXCEPT !.word = next_word, !.text = Append(@, curr_value(buf))]
  /\ buf' = advance(buf)
  /\ UNCHANGED <<tables, input, read_off, stacks, back, parsed, line, pc>>

\* A match is returned, at the end of the input or before it.
ScanMatch ==
  /\ \/ at_character /\ ~could_match(next_word)
     \/ pc = "scan" /\ at_end_of_log(buf) /\ tok.word # <<>>
  /\ tok' = matched(tok)
  /\ buf' = set_pos(buf, tok'.end_pos)
  /\ pc' = back
  /\ UNCHANGED <<tables, input, read_off, stacks, back, parsed, line>>

ScanEnd ==
  /\ pc = "scan" /\ at_end_of_log(buf) /\ tok.word = <<>>
  /\ tok' = matched(tok)
  /\ buf' = consume_log(buf)
  /\ pc' = back
  /\ UNCHANGED <<tables, input, read_off, stacks, back, parsed, line>>

\* get_next_symbol throws.
ScanOutOfBounds ==
  /\ pc = "scan" /\ out_of_bounds(buf)
  /\ pc' = "scan_error"
  /\ UNCHANGED <<tables, input, read_off, buf, stacks, tok, back, parsed, line>>

\* Token::to_string now, as the offsets of the bytes.
to_string(t) == [i \in 1 .. Len(t.text) |-> buf.storage[(t.start_pos + i - 1) % buf.size]]

-----------------------------------------------------------------------------
(* The readers of try_schema_file and try_schema_string.                   *)

\* Where the next read begins.  The lambda of try_schema_string declares its
\* position as a local variable.
unparsed_string_pos == IF StringReader THEN 0 ELSE read_off

read_count == LET rest == Len(input) - unparsed_string_pos
              IN IF rest < Half(buf) THEN rest ELSE Half(buf)

will_read == read_is_safe(buf) /\ read_count > 0

read_if_safe == IF ~read_is_safe(buf) THEN buf
                ELSE IF read_count = 0 THEN read_eof(buf)
                ELSE read_success(buf, unparsed_string_pos, read_count)

-----------------------------------------------------------------------------
(* parse: read_if_safe and get_next_symbol, then one action for each       *)
(* outcome of parse_advance                                                *)

GetNextSymbol ==
  /\ pc = "parse"
  /\ buf' = read_if_safe
  /\ read_off' = IF will_read THEN unparsed_string_pos + read_count ELSE read_off
  /\ tok' = IF next_token # NoToken THEN next_token ELSE StartScan(buf)
  /\ pc' = IF next_token # NoToken THEN "advance" ELSE "scan"
  /\ next_token' = NoToken
  /\ UNCHANGED <<tables, input, states, matches, back, parsed, line>>

\* The types of the token are tried in turn; the first one that is no error counts.
first_action ==
  LET tried == [i \in DOMAIN tok.types |-> m_actions(actions, Last(states), tok.types[i])]
      good  == {i \in DOMAIN tried : tried[i] # Error}
  IN IF good = {} THEN Error ELSE tried[CHOOSE i \in good : \A j \in good : i <= j]

Shift ==
  /\ pc = "advance" /\ first_action[1] = "shift"
  /\ states' = Append(states, first_action[2])
  /\ matches' = Append(matches, tok)
  /\ pc' = "parse"
  /\ UNCHANGED <<tables, input, read_off, buf, next_token, tok, back, parsed, line>>

\* A rule frees nothing of what it has read.
consumed_by_mutant(p) == buf.consumed_pos

\* All before the next token is consumed, in a buffer that wraps.
consumed_by(p) == IF tok.start_pos = 0 THEN buf.size - 1 ELSE tok.start_pos - 1

\* A NonTerminal and the AST that the semantic rule makes of the text it reads.
MatchedNonTerminal(p, kids) ==
  [ p    |-> p,
    kids |-> kids,
    ast  |-> [i \in IF g.prods[p].rule = None THEN {} ELSE g.prods[p].rule |->
                to_string(kids[i])] ]

\* The n symbols on the top of the stack, which the production's body names.
popped(n) == SubSeq(matches, Len(matches) - n + 1, Len(matches))

Reduce ==
  /\ pc = "advance" /\ first_action[1] = "reduce"
  /\ LET p    == first_action[2]
         n    == Len(g.prods[p].body)
         kept == SubSeq(states, 1, Len(states) - n)
         kids == popped(n)
     IN /\ states' = Append(kept, m_actions(actions, Last(kept), g.prods[p].head)[2])
        /\ matches' = Append(SubSeq(matches, 1, Len(matches) - n), MatchedNonTerminal(p, kids))
        /\ buf' = IF g.prods[p].rule = None THEN buf ELSE set_consumed_pos(buf, consumed_by(p))
  /\ next_token' = tok
  /\ pc' = "parse"
  /\ UNCHANGED <<tables, input, read_off, tok, back, parsed, line>>

AcceptInput ==
  /\ pc = "advance" /\ first_action = Accept
  /\ parsed' = Last(matches)
  /\ matches' = Front(matches)
  /\ pc' = "accepted"
  /\ UNCHANGED <<tables, input, read_off, buf, states, next_token, tok, back, line>>

\* The token is pushed for error handling.
RejectToken ==
  /\ pc = "advance" /\ first_action = Error
  /\ matches' = Append(matches, tok)
  /\ pc' = "report"
  /\ UNCHANGED <<tables, input, read_off, buf, states, next_token, tok, back, parsed, line>>

-----------------------------------------------------------------------------
(* report_error *)

IsToken(m) == "types" \in DOMAIN m

\* The symbols that an element of the parse stack may stand for.
SymbolsOf(m) == IF IsToken(m) THEN Range(m.types) ELSE {g.prods[m.p].head}

\* The token's bytes in the buffer are a newline now.
is_newline(token) ==
  [i \in DOMAIN token.text |-> input[to_string(token)[i] + 1]] \in Newlines

\* The end of the input ends no line.
ends_line_mutant(token) == is_newline(token)

ends_line(token) == token.types[1] = TokenEnd \/ is_newline(token)

ReportError ==
  /\ pc = "report"
  /\ matches' = Front(matches)
  /\ pc' = "unwind"
  /\ UNCHANGED <<tables, input, read_off, buf, states, next_token, tok, back, parsed, line>>

(* get_input_after_last_newline: the stack is taken apart down to a newline. *)

\* The symbols of a production go back in the wrong order.
UnwindNonTerminal_mutant ==
  /\ pc = "unwind" /\ matches # <<>> /\ ~IsToken(Last(matches))
  /\ matches' = Front(matches) \o Reverse(Last(matches).kids)
  /\ UNCHANGED <<tables, input, read_off, buf, states, next_token, tok, back, parsed, line, pc>>

UnwindNonTerminal ==
  /\ pc = "unwind" /\ matches # <<>> /\ ~IsToken(Last(matches))
  /\ matches' = Front(matches) \o Last(matches).kids
  /\ UNCHANGED <<tables, input, read_off, buf, states, next_token, tok, back, parsed, line, pc>>

UnwindToken ==
  /\ pc = "unwind" /\ matches # <<>> /\ IsToken(Last(matches)) /\ ~is_newline(Last(matches))
  /\ line' = to_string(Last(matches)) \o line
  /\ matches' = Front(matches)
  /\ UNCHANGED <<tables, input, read_off, buf, states, next_token, tok, back, parsed, pc>>

UnwindEnd ==
  /\ pc = "unwind"
  /\ \/ matches = <<>> /\ UNCHANGED matches
     \/ /\ matches # <<>> /\ IsToken(Last(matches)) /\ is_newline(Last(matches))
        /\ matches' = Front(matches)
  /\ pc' = "drain"
  /\ back' = "drain"
  /\ UNCHANGED <<tables, input, read_off, buf, states, next_token, tok, parsed, line>>

\* get_input_until_next_newline scans on, without reading.
DrainLine ==
  /\ pc = "drain" /\ ~ends_line(tok)
  /\ tok' = StartScan(buf)
  /\ pc' = "scan"
  /\ UNCHANGED <<tables, input, read_off, buf, stacks, back, parsed, line>>

ThrowError ==
  /\ pc = "drain" /\ ends_line(tok)
  /\ pc' = "rejected"
  /\ UNCHANGED <<tables, input, read_off, buf, stacks, tok, back, parsed, line>>

-----------------------------------------------------------------------------
ended == pc \in {"accepted", "rejected", "scan_error"}

\* generate().
Generate ==
  /\ pc = "new"
  /\ actions' = generate(g)
  /\ pc' = IF has_conflict(actions') THEN "conflict" ELSE "idle"
  /\ UNCHANGED <<g, input, read_off, buf, stacks, tok, back, parsed, line>>

\* What a parse that failed has left on the stack survives.
Parse_mutant(schema) ==
  /\ input' = schema
  /\ read_off' = 0
  /\ buf' = reset(StaticSize)
  /\ states' = <<root_kernel>>
  /\ next_token' = NoToken
  /\ tok' = NoToken
  /\ back' = "advance"
  /\ parsed' = NoToken
  /\ line' = <<>>
  /\ pc' = "parse"
  /\ UNCHANGED <<tables, matches>>

\* parse() up to its loop: reset, and the root item set on the stack.
Parse(schema) ==
  /\ input' = schema
  /\ read_off' = 0
  /\ buf' = reset(StaticSize)
  /\ states' = <<root_kernel>>
  /\ matches' = <<>>
  /\ next_token' = NoToken
  /\ tok' = NoToken
  /\ back' = "advance"
  /\ parsed' = NoToken
  /\ line' = <<>>
  /\ pc' = "parse"
  /\ UNCHANGED tables

ParseFirst == pc = "idle" /\ \E schema \in Inputs[g.prods[1].head] : Parse(schema)
ParseAgain == ended /\ \E schema \in NextInputs : Parse(schema)

Init ==
  /\ \E grammar \in Grammars :
       g = [terminals |-> grammar.terminals, prods |-> productions(grammar.added)]
  /\ actions = <<>>
  /\ input = <<>>
  /\ read_off = 0
  /\ buf = reset(StaticSize)
  /\ states = <<>>
  /\ matches = <<>>
  /\ next_token = NoToken
  /\ tok = NoToken
  /\ back = "advance"
  /\ parsed = NoToken
  /\ line = <<>>
  /\ pc = "new"

Step == \/ GetNextSymbol
        \/ ScanChar \/ ScanMatch \/ ScanEnd \/ ScanOutOfBounds
        \/ Shift \/ Reduce \/ AcceptInput \/ RejectToken
        \/ ReportError \/ UnwindNonTerminal \/ UnwindToken \/ UnwindEnd
        \/ DrainLine \/ ThrowError

Next == Generate \/ ParseFirst \/ ParseAgain \/ Step

Spec == Init /\ [][Next]_vars

\* A call runs on until it returns or throws.
LiveSpec == Spec /\ WF_vars(Step)

-----------------------------------------------------------------------------
(* Properties *)

Pcs == {"new", "conflict", "idle", "parse", "scan", "advance", "report", "unwind", "drain",
        "accepted", "rejected", "scan_error"}

\* Types; on the way, the stacks have matching heights and are made of item sets.
TypeOK ==
  /\ pc \in Pcs
  /\ IsBuffer(buf)
  /\ read_off \in 0 .. Len(input)
  /\ pc = "parse" => /\ Len(states) = Len(matches) + 1
                     /\ Range(states) \subseteq DOMAIN actions

\* A semantic rule finds in the buffer the text that its tokens had when they
\* were scanned: the consumed position of parse_symbol frees no byte too early.
RuleReadsItsText ==
  (matches # <<>> /\ ~IsToken(Last(matches))) =>
    \A i \in DOMAIN Last(matches).ast : Last(matches).ast[i] = Last(matches).kids[i].text

\* The message of a syntax error shows the text between the last newline and the
\* token that was refused (get_input_after_last_newline), as long as no half of
\* the buffer was read a second time.
ErrorLineShown ==
  [][ (UnwindEnd /\ read_off <= buf.size) =>
        LET n == tok.start_pos
            starts == {i \in 0 .. n : i = 0 \/ <<input[i]>> \in Newlines}
            start == CHOOSE i \in starts : \A j \in starts : j <= i
        IN line = [i \in 1 .. n - start |-> start + i - 1] ]_vars

\* Every call of parse() returns or throws.
ParseEnds == [](pc = "parse" => <>ended)
=============================================================================
