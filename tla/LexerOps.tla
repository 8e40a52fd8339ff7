------------------------------ MODULE LexerOps ------------------------------
(***************************************************************************)
(* The methods of log_surgeon::Lexer as operators on a record x of its     *)
(* fields and on the input buffer b (module InputBufferOps).               *)
(*                                                                         *)
(*   asked          m_asked_for_more_data                                  *)
(*   match          m_match                                                *)
(*   match_pos      m_match_pos                                            *)
(*   start_pos      m_start_pos                                            *)
(*   last_match_pos m_last_match_pos                                       *)
(*   first_delim    m_first_delimiter_pos (Unset for std::nullopt)         *)
(*   state          m_state (Null for nullptr)                             *)
(*   type           m_type_ids, of which only the first entry is used      *)
(*                                                                         *)
(* Line numbers and tagged registers are left out.  The DFA that generate  *)
(* builds from the schema is a parameter.                                  *)
(***************************************************************************)
EXTENDS InputBufferOps

CONSTANTS
  Chars,      \* the characters of a log
  Newline,    \* '\n', a member of Chars
  Delims,     \* m_is_delimiter
  DfaStates,  \* the states of m_dfa
  Root,       \* its root
  StartOfFile,\* the state that cCharStartOfFile leads to from the root
  Transition, \* Transition[s][c]: the next state, or Null
  TypeIds     \* TypeIds[s]: what s accepts, or NoType

Null == "null"
NoType == "none"

\* SymbolId: the four token types that the code gives a meaning to.
TokenEnd == "End"
TokenUncaughtString == "UncaughtString"
TokenHeader == "Header"
TokenNewline == "Newline"

\* utf8::cCharEOF, delivered at the end of the log.
CharEOF == "EOF"

ASSUME SchemaAssumption ==
  /\ Newline \in Delims /\ Delims \subseteq Chars /\ CharEOF \notin Chars
  /\ Root \in DfaStates /\ StartOfFile \in DfaStates /\ Null \notin DfaStates
  /\ Transition \in [DfaStates -> [Chars -> DfaStates \cup {Null}]]
  \* add_token("newLine", '\n') puts the rule for '\n' first.
  /\ Transition[Root][Newline] \in DfaStates
  /\ TypeIds[Transition[Root][Newline]] = TokenNewline

\* "$end" is no name that a schema can give to a rule, and every rule begins
\* with a delimiter or with the start of the file.  That no rule matches just
\* the start of the file (as that of a header "a*" would) is up to the schema.
ASSUME RulesAssumption ==
  /\ \A s \in DfaStates : TypeIds[s] # TokenEnd
  /\ TypeIds[Root] = NoType /\ TypeIds[StartOfFile] = NoType

\* What the fields of a lexer may hold.
Types == {TypeIds[s] : s \in DfaStates} \cup {NoType, TokenUncaughtString, TokenEnd}

Lexers ==
  [ asked : BOOLEAN, match : BOOLEAN, match_pos : Nat, start_pos : Nat,
    last_match_pos : Nat, first_delim : Nat \cup {Unset},
    state : DfaStates \cup {Null}, type : Types ]

is_accepting(s) == s # Null /\ TypeIds[s] # NoType

\* m_is_first_char_of_a_variable, which generate computes.
is_first_char_of_a_variable(c) == c \in Chars /\ Transition[Root][c] # Null

\* The end-of-file character has no transition in a schema of text rules.
process_char(x, c) ==
  [x EXCEPT !.state = IF x.state = Null \/ c = CharEOF
                      THEN Null ELSE Transition[x.state][c]]

lexer_reset ==
  [ asked |-> FALSE, match |-> FALSE, match_pos |-> 0, start_pos |-> 0,
    last_match_pos |-> 0, first_delim |-> Unset, state |-> Null,
    type |-> NoType ]

prepend_start_of_file_char(x, b) ==
  [ x EXCEPT !.state = StartOfFile, !.asked = TRUE, !.start_pos = b.pos,
             !.match_pos = b.pos, !.type = NoType ]

(***************************************************************************)
(* Growing the buffer.  flip_states moves three of the four positions that *)
(* the lexer keeps; the first delimiter is not among them.                 *)
(***************************************************************************)

\* The end of the last match stays where it was.
flip_states_mutant(x, old_size) ==
  LET half == old_size \div 2
  IN [ x EXCEPT
         !.match_pos = IF @ >= half THEN @ - half ELSE @ + half,
         !.start_pos = IF @ > half  THEN @ - half ELSE @ + half ]

flip_states(x, old_size) ==
  LET half == old_size \div 2
  IN [ x EXCEPT
         !.match_pos      = IF @ >= half THEN @ - half ELSE @ + half,
         !.start_pos      = IF @ > half  THEN @ - half ELSE @ + half,
         !.last_match_pos = IF @ >= half THEN @ - half ELSE @ + half ]

\* Growth that leaves the lexer with a wrong position: a first delimiter in a
\* flipped buffer, or a matched '\n' that was the last byte read, whose end
\* is taken for the first position of the oldest half.
misplaced_by_growth(x, b) ==
  IF flipped_static_buffer(b)
  THEN x.first_delim # Unset \/ (x.match /\ x.match_pos = Half(b))
  ELSE x.match /\ x.match_pos = 0

\* Lexer::increase_buffer_capacity, of which the buffer's part is
\* InputBufferOps!increase_capacity.
increase_buffer_capacity(x, b) ==
  LET y == IF flipped_static_buffer(b) THEN flip_states(x, b.size) ELSE x
  IN IF y.last_match_pos = 0
     THEN [y EXCEPT !.last_match_pos = b.size, !.start_pos = b.size]
     ELSE y

(***************************************************************************)
(* The parts of scan.                                                      *)
(***************************************************************************)
resume_scan(x) == [x EXCEPT !.asked = FALSE]

\* The next variable was already matched when the uncaught string before it
\* was returned.
take_match(x) ==
  [x EXCEPT !.first_delim = Unset, !.match = FALSE,
            !.last_match_pos = x.match_pos]

\* Back to position p: the end of the log, if it was seen, is ahead again.
go_back(b, p) == set_pos(set_log_fully_consumed(b, FALSE), p)

\* Where a fresh scan starts.
rewind(x, b) == IF x.first_delim = Unset THEN b ELSE go_back(b, x.first_delim)

start_scan(x, b) ==
  LET p == rewind(x, b).pos
  IN [x EXCEPT !.state = Root, !.start_pos = p, !.match_pos = p,
               !.type = NoType, !.first_delim = Unset]

\* get_next_character, when it does not answer BufferOutOfBounds.
taken(b) == IF at_end_of_log(b) THEN consume_log(b) ELSE advance(b)

\* The main loop up to process_char, for a character c taken at b.pos.
note_delimiter(x, b, c) ==
  IF x.first_delim = Unset /\ c \in Delims /\ b.pos # x.last_match_pos
  THEN [x EXCEPT !.first_delim = b.pos] ELSE x

\* A match anywhere, not only before a delimiter.
note_match_mutant(x, b, c) ==
  IF is_accepting(x.state)
  THEN [x EXCEPT !.match = TRUE, !.type = TypeIds[x.state], !.match_pos = b.pos]
  ELSE x

note_match(x, b, c) ==
  IF (c \in Delims \/ taken(b).fully_consumed) /\ is_accepting(x.state)
  THEN [x EXCEPT !.match = TRUE, !.type = TypeIds[x.state], !.match_pos = b.pos]
  ELSE x

see_character(x, b, c) ==
  process_char(note_match(note_delimiter(x, b, c), b, c), c)

\* "The newline character itself needs to be treated as a match for
\* non-timestamped logs."
newline_is_match(x, b, c) ==
  /\ c = Newline
  /\ x.first_delim \in {Unset, b.pos}
  /\ ~x.match

match_newline(x, b) ==
  [ process_char([x EXCEPT !.state = Root], Newline) EXCEPT
      !.match = TRUE, !.type = TypeIds[Transition[Root][Newline]],
      !.start_pos = b.pos, !.match_pos = taken(b).pos ]
=============================================================================
