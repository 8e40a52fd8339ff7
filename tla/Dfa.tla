-------------------------------- MODULE Dfa --------------------------------
(***************************************************************************)
(* Dfa::generate, the tagged determinization, and the use that Lexer::scan *)
(* makes of the automaton and of its registers.                            *)
(*                                                                         *)
(* A configuration is a record of an NFA state s, the register regs[t] of  *)
(* each tag t, and the tag operations hist and look (m_history and         *)
(* m_lookahead).  A register operation is <<"set" | "negate", r>> or       *)
(* <<"copy", r, source>>.  A register holds the positions appended to it,  *)
(* latest first: what get_reversed_positions reads off the prefix tree,    *)
(* in which a node never changes once it is inserted.                      *)
(***************************************************************************)
EXTENDS Nfa, Integers

CONSTANTS
  RuleSets,    \* the schemas to try: sequences of rules
  MaxText,     \* bound: the length of the text
  MaxAttempts  \* bound: the attempts at a token that fail

VARIABLES
  rules,    \* the newline rule and the rules of the schema
  nfa,      \* its NFA
  states,   \* m_states: for each state its configurations, the rules it
            \* accepts, m_accepting_ops and its transitions
  queue,    \* unexplored_sets
  regs,     \* m_reg_handler: the positions in each register
  work,     \* the state that is being explored: the moves that get_transitions
            \* has before it, tag_id_with_op_to_reg_id, the number of
            \* registers, and the transitions not yet added
  lexing    \* the lexer: see below

vars == <<rules, nfa, states, queue, regs, work, lexing>>

Tags == 0 .. num_tags(nfa) - 1

\* One register too few.
fresh_registers_mutant(n) == [r \in 0 .. n - 2 |-> << >>]

\* RegisterHandler::add_registers.
fresh_registers(n) == [r \in 0 .. n - 1 |-> << >>]

num_regs == Cardinality(DOMAIN regs)

-----------------------------------------------------------------------------
(* The order of configurations, which std::set and std::map iterate in.    *)

LexLess(a, b, Less(_, _)) ==
  \/ \E i \in DOMAIN a \cap DOMAIN b :
       /\ \A j \in 1 .. i - 1 : a[j] = b[j]
       /\ Less(a[i], b[i])
  \/ /\ Len(a) < Len(b)
     /\ \A i \in DOMAIN a : a[i] = b[i]

NatLess(a, b) == a < b
NatsLess(a, b) == LexLess(a, b, NatLess)

\* operator< compares the four parts in this order.
ConfigKey(c) ==
  LET Codes(ops) == [i \in DOMAIN ops |-> 2 * ops[i][1] + ops[i][2]]
  IN << <<c.s>>, [t \in 1 .. Cardinality(Tags) |-> c.regs[t - 1]], Codes(c.hist), Codes(c.look) >>

ConfigLess(a, b) == LexLess(ConfigKey(a), ConfigKey(b), NatsLess)

RECURSIVE Sorted(_)
Sorted(S) ==
  IF S = {} THEN << >>
  ELSE LET least == CHOOSE c \in S : \A d \in S \ {c} : ConfigLess(c, d)
       IN <<least>> \o Sorted(S \ {least})

-----------------------------------------------------------------------------
(* DeterminizationConfiguration                                            *)

\* get_tag_history and get_tag_lookahead: the first operation on the tag.
ops_on(ops, t) == SelectSeq(ops, LAMBDA o : o[1] = t)
has_op(ops, t) == ops_on(ops, t) # << >>
first_op(ops, t) == ops_on(ops, t)[1][2]

\* update_reachable_configs.
reachable_configs(c) ==
  {[c EXCEPT !.s = nfa.eps[i][3], !.look = @ \o nfa.eps[i][2]] :
     i \in {j \in DOMAIN nfa.eps : nfa.eps[j][1] = c.s}}

RECURSIVE spontaneous_closure(_)
spontaneous_closure(S) ==
  LET more == UNION {reachable_configs(c) : c \in S}
  IN IF more \subseteq S THEN S ELSE spontaneous_closure(S \cup more)

-----------------------------------------------------------------------------
(* The parts of generate.                                                  *)

\* add_accepting_op, once per tag and accepting configuration.  Final
\* registers follow the initial ones.
accepting_ops(configs) ==
  LET final(t) == num_tags(nfa) + t
      Op(c, t) == IF ~has_op(c.look, t) THEN <<"copy", final(t), c.regs[t]>>
                  ELSE IF first_op(c.look, t) = SetTag THEN <<"set", final(t)>>
                  ELSE <<"negate", final(t)>>
      OpsOf(c) == [i \in 1 .. num_tags(nfa) |-> Op(c, i - 1)]
      acc == SelectSeq(Sorted(configs), LAMBDA c : nfa.var[c.s] # NoVar)
  IN FlattenSeq([k \in 1 .. Len(acc) |-> OpsOf(acc[k])])

matching_variable_ids(configs) ==
  LET acc == SelectSeq(Sorted(configs), LAMBDA c : nfa.var[c.s] # NoVar)
  IN [k \in 1 .. Len(acc) |-> nfa.var[acc[k].s]]

new_state(configs) ==
  [ configs |-> configs, ids |-> matching_variable_ids(configs),
    accepting |-> accepting_ops(configs), next |-> << >> ]

\* A set operation and a negation of one tag share one register.
\* acc: the operations so far, the register of each tag that got one for this
\* source state (tag_id_with_op_to_reg_id), and the configurations renamed.
assign_transition_reg_ops(closure, opreg, regs_used) ==
  LET ForTag(acc, t) ==
        LET c == Last(acc.out)
            fresh == t \notin DOMAIN acc.opreg
            r == IF fresh THEN acc.n ELSE acc.opreg[t]
            op == IF first_op(c.hist, t) = SetTag THEN <<"set", r>> ELSE <<"negate", r>>
        IN IF ~has_op(c.hist, t) THEN acc
           ELSE [ n |-> IF fresh THEN acc.n + 1 ELSE acc.n,
                  opreg |-> IF fresh THEN acc.opreg @@ (t :> r) ELSE acc.opreg,
                  ops |-> IF \E i \in DOMAIN acc.ops : acc.ops[i][2] = r THEN acc.ops
                          ELSE Append(acc.ops, op),
                  out |-> [acc.out EXCEPT ![Len(acc.out)].regs[t] = r] ]
      ForConfig(acc, c) ==
        FoldLeft(ForTag, [acc EXCEPT !.out = Append(@, c)],
                 [i \in 1 .. num_tags(nfa) |-> i - 1])
  IN FoldLeft(ForConfig, [n |-> regs_used, opreg |-> opreg, ops |-> << >>, out |-> << >>],
              Sorted(closure))

\* The byte transitions out of a configuration, by character and then in the
\* order in which they were added.
byte_transitions(c) ==
  FlattenSeq([ch \in 1 .. UnicodeMax + 1 |->
                SelectSeq(nfa.bytes, LAMBDA e : e[1] = c.s /\ e[2] = ch - 1)])

\* The moves of a configuration set: pairs of a configuration and an edge.
moves(configs) ==
  LET cs == Sorted(configs)
  IN FlattenSeq([k \in 1 .. Len(cs) |->
       LET es == byte_transitions(cs[k]) IN [i \in 1 .. Len(es) |-> <<cs[k], es[i]>>]])

\* The body of the loops of get_transitions, for one move.  A transition is a
\* record of its operations and of its configurations.
with_move(w, m) ==
  LET c == m[1]
      ch == m[2][2]
      closure == spontaneous_closure(
                   {[s |-> m[2][3], regs |-> c.regs, hist |-> c.look, look |-> << >>]})
      a == assign_transition_reg_ops(closure, w.opreg, w.num_regs)
      old == IF ch \in DOMAIN w.trans THEN w.trans[ch] ELSE [ops |-> << >>, configs |-> {}]
      new == SelectSeq(a.ops, LAMBDA o : o \notin ToSet(old.ops))
  IN [ w EXCEPT
         !.num_regs = a.n, !.opreg = a.opreg,
         !.trans = (ch :> [ops |-> old.ops \o new, configs |-> old.configs \cup ToSet(a.out)]) @@ @ ]

-----------------------------------------------------------------------------
(* try_get_mapping: the renaming of registers that takes lhs to rhs, as a  *)
(* set of at most one function.                                            *)

map_register(F, l, r) ==
  {f \in {IF l \in DOMAIN g THEN g ELSE g @@ (l :> r) : g \in F} :
     \A k \in DOMAIN f : k = l <=> f[k] = r}

\* A register is irrelevant where the lookahead sets its tag.
map_config(F, l, r) ==
  FoldLeft(LAMBDA G, t : IF has_op(l.look, t) THEN G ELSE map_register(G, l.regs[t], r.regs[t]),
           F, [i \in 1 .. num_tags(nfa) |-> i - 1])

\* Configurations with different histories are not mapped.
try_get_mapping_mutant(lhs, rhs) ==
  LET Match(F, l) ==
        LET same == SelectSeq(Sorted(rhs), LAMBDA r : r.s = l.s /\ r.hist = l.hist /\ r.look = l.look)
        IN IF same = << >> THEN {} ELSE map_config(F, l, same[1])
  IN IF Cardinality(lhs) # Cardinality(rhs) THEN {}
     ELSE FoldLeft(Match, {<< >>}, Sorted(lhs))

try_get_mapping(lhs, rhs) ==
  LET Match(F, l) ==
        LET same == SelectSeq(Sorted(rhs), LAMBDA r : r.s = l.s /\ r.look = l.look)
        IN IF same = << >> THEN {} ELSE map_config(F, l, same[1])
  IN IF Cardinality(lhs) # Cardinality(rhs) THEN {}
     ELSE FoldLeft(Match, {<< >>}, Sorted(lhs))

\* The states in the order of the map dfa_states.
states_in_order ==
  SortSeq([i \in DOMAIN states |-> i],
          LAMBDA i, j : LexLess(Sorted(states[i].configs), Sorted(states[j].configs), ConfigLess))

\* The existing states that a configuration set can be mapped to.
mappable(configs) ==
  SelectSeq(states_in_order, LAMBDA i : try_get_mapping(configs, states[i].configs) # {})

\* reassign_transition_reg_ops, with the entries of the map in the order of
\* the sequence olds.
reassign_transition_reg_ops(f, olds, reg_ops) ==
  LET Rename(ops, old) ==
        LET at == SelectInSeq(ops, LAMBDA o : o[2] = old)
        IN IF at # 0 THEN [ops EXCEPT ![at][2] = f[old]]
           ELSE Append(ops, <<"copy", f[old], old>>)
  IN FoldLeft(Rename, reg_ops, olds)

-----------------------------------------------------------------------------
(* generate                                                                *)

NoWork == [from |-> 0, moves |-> << >>, opreg |-> << >>, num_regs |-> 0, trans |-> << >>]

initial_configs(n) ==
  {[s |-> 0, regs |-> [t \in 0 .. num_tags(n) - 1 |-> t], hist |-> << >>, look |-> << >>]}

\* Pop a configuration set.
Explore ==
  /\ work = NoWork
  /\ queue # << >>
  /\ work' = [ NoWork EXCEPT !.from = Head(queue), !.num_regs = num_regs,
                             !.moves = moves(states[Head(queue)].configs) ]
  /\ queue' = Tail(queue)
  /\ UNCHANGED <<rules, nfa, states, regs, lexing>>

\* get_transitions.
Move ==
  /\ work.moves # << >>
  /\ work' = [with_move(work, Head(work.moves)) EXCEPT !.moves = Tail(@)]
  /\ regs' = fresh_registers(work'.num_regs)
  /\ UNCHANGED <<rules, nfa, states, queue, lexing>>

\* The loop of generate over the transitions.
ready == work.moves = << >> /\ DOMAIN work.trans # {}
next_byte == CHOOSE ch \in DOMAIN work.trans : \A o \in DOMAIN work.trans : ch <= o
rest_of_work == [work EXCEPT !.trans = [ch \in DOMAIN @ \ {next_byte} |-> @[ch]]]

Explored ==
  /\ work # NoWork
  /\ work.moves = << >>
  /\ DOMAIN work.trans = {}
  /\ work' = NoWork
  /\ UNCHANGED <<rules, nfa, states, queue, regs, lexing>>

add_byte_transition(ss, ops, dest) ==
  [ss EXCEPT ![work.from].next = (next_byte :> [ops |-> ops, dest |-> dest]) @@ @]

\* create_or_get_dfa_state, for configurations that are a state already.
AddToExisting ==
  /\ ready
  /\ LET t == work.trans[next_byte]
     IN \E i \in DOMAIN states :
          /\ states[i].configs = t.configs
          /\ states' = add_byte_transition(states, t.ops, i)
  /\ work' = rest_of_work
  /\ UNCHANGED <<rules, nfa, queue, regs, lexing>>

\* ... for configurations that some state equals up to registers.  The map is
\* unordered: any order of its entries may come.
AddToMapped ==
  /\ ready
  /\ LET t == work.trans[next_byte]
         m == mappable(t.configs)
     IN /\ \A i \in DOMAIN states : states[i].configs # t.configs
        /\ m # << >>
        /\ \E f \in try_get_mapping(t.configs, states[m[1]].configs) :
             \E olds \in SetToSeqs({r \in DOMAIN f : f[r] # r}) :
               states' = add_byte_transition(
                           states, reassign_transition_reg_ops(f, olds, t.ops), m[1])
  /\ work' = rest_of_work
  /\ UNCHANGED <<rules, nfa, queue, regs, lexing>>

\* ... and for new ones.
AddNew ==
  /\ ready
  /\ LET t == work.trans[next_byte]
     IN /\ \A i \in DOMAIN states : states[i].configs # t.configs
        /\ mappable(t.configs) = << >>
        /\ states' = add_byte_transition(Append(states, new_state(t.configs)),
                                         t.ops, Len(states) + 1)
        /\ queue' = Append(queue, Len(states) + 1)
  /\ work' = rest_of_work
  /\ UNCHANGED <<rules, nfa, regs, lexing>>

generated == work = NoWork /\ queue = << >>

-----------------------------------------------------------------------------
(* The lexer.  lexing is a record of                                       *)
(*                                                                         *)
(*   text   the characters seen so far; CharEOF may follow them            *)
(*   eof    whether it was read                                            *)
(*   pos    the position of the next character                             *)
(*   start  m_start_pos, where the attempt at a token began                *)
(*   sof    whether it began behind cCharStartOfFile, which is in no buffer*)
(*   state  m_state, 0 for nullptr                                         *)
(*   match  m_match, m_match_pos and m_type_ids, or NoMatch                *)
(*   token  the last variable returned, with the register handler that     *)
(*          release_reg_handler gave it, or NoToken                        *)
(*   tries  history: the attempts that failed                              *)
(*                                                                         *)
(* The text is the first line of a log and holds no newline.  Module       *)
(* LogParser models where scan looks for a token and what it does at a     *)
(* newline; here an attempt that fails may be followed by one from any     *)
(* later position that it has passed.                                      *)

CharEOF == UnicodeMax + 1
NoMatch == [end |-> 0, type |-> NoVar]
NoToken == [start |-> 0, sof |-> FALSE, end |-> 0, type |-> NoVar, regs |-> << >>]
Unmatched == -1

process_reg_ops(handler, ops, pos) ==
  LET Apply(g, o) ==
        CASE o[1] = "set"    -> [g EXCEPT ![o[2]] = <<pos>> \o @]
          [] o[1] = "negate" -> [g EXCEPT ![o[2]] = <<Unmatched>> \o @]
          [] o[1] = "copy"   -> [g EXCEPT ![o[2]] = g[o[3]]]
  IN FoldLeft(Apply, handler, ops)

\* Before the first call.
idle ==
  [ text |-> << >>, eof |-> FALSE, pos |-> 0, start |-> 0, sof |-> FALSE, state |-> 0,
    match |-> NoMatch, token |-> NoToken, tries |-> 0 ]

is_accepting(i) == i # 0 /\ states[i].ids # << >>

\* A match is noted before a delimiter or the end of the log.
noted(c) == c \in Delims \cup {CharEOF} /\ is_accepting(lexing.state)

\* The first match is kept.
note_match_mutant(x, c) ==
  IF noted(c) /\ x.match = NoMatch
  THEN [x EXCEPT !.match = [end |-> x.pos, type |-> states[x.state].ids[1]]] ELSE x

note_match(x, c) ==
  IF noted(c) THEN [x EXCEPT !.match = [end |-> x.pos, type |-> states[x.state].ids[1]]] ELSE x

\* process_char: the state that c leads to, and the operations on the way.
dest_state(i, c) == IF c \in DOMAIN states[i].next THEN states[i].next[c].dest ELSE 0
transition_ops(i, c) == IF c \in DOMAIN states[i].next THEN states[i].next[c].ops ELSE << >>

\* get_next_character, which repeats what was read before.
next_chars(x) ==
  IF x.pos < Len(x.text) THEN {x.text[x.pos + 1]}
  ELSE IF x.eof \/ Len(x.text) = MaxText THEN {CharEOF}
  ELSE (Char \ {StartOfFile, Newline}) \cup {CharEOF}

advance(x, c) ==
  IF c = CharEOF THEN [x EXCEPT !.eof = TRUE]
  ELSE [x EXCEPT !.pos = @ + 1, !.text = IF x.pos < Len(@) THEN @ ELSE Append(@, c)]

\* prepend_start_of_file_char.
Begin ==
  /\ generated
  /\ lexing = idle
  /\ lexing' = [idle EXCEPT !.state = dest_state(1, StartOfFile), !.sof = TRUE]
  /\ UNCHANGED <<rules, nfa, states, queue, regs, work>>

\* One turn of the main loop of scan.  The end of the log ends the attempt,
\* whichever state cCharEOF leads to.
ReadChar ==
  /\ generated
  /\ lexing.state # 0
  /\ \E c \in next_chars(lexing) :
       /\ regs' = process_reg_ops(
                    IF noted(c) THEN process_reg_ops(regs, states[lexing.state].accepting, lexing.pos)
                    ELSE regs,
                    transition_ops(lexing.state, c), lexing.pos)
       /\ lexing' = [ advance(note_match(lexing, c), c) EXCEPT
                        !.state = dest_state(lexing.state, c) ]
  /\ UNCHANGED <<rules, nfa, states, queue, work>>

\* The variable takes the registers with it; the next attempt starts behind it.
ReturnVariable ==
  /\ lexing.state = 0
  /\ lexing.match # NoMatch
  /\ regs' = fresh_registers(num_regs)
  /\ lexing' = [ lexing EXCEPT
                   !.token = [ start |-> lexing.start, sof |-> lexing.sof,
                               end |-> lexing.match.end, type |-> lexing.match.type,
                               regs |-> regs ],
                   !.pos = lexing.match.end, !.start = lexing.match.end, !.sof = FALSE,
                   !.state = 1, !.match = NoMatch ]
  /\ UNCHANGED <<rules, nfa, states, queue, work>>

\* No token is found; the registers stay as they are.
Retry ==
  /\ lexing # idle
  /\ lexing.state = 0
  /\ lexing.match = NoMatch
  /\ lexing.tries < MaxAttempts
  /\ \E p \in lexing.start + 1 .. lexing.pos :
       lexing' = [ lexing EXCEPT !.pos = p, !.start = p, !.sof = FALSE, !.state = 1,
                                 !.tries = @ + 1 ]
  /\ UNCHANGED <<rules, nfa, states, queue, regs, work>>

-----------------------------------------------------------------------------
Init ==
  /\ \E schema \in RuleSets : rules = with_newline_rule(schema)
  /\ nfa = nfa_of([v \in DOMAIN rules |-> rule_ast(rules[v])])
  /\ states = <<new_state(spontaneous_closure(initial_configs(nfa)))>>
  /\ queue = <<1>>
  /\ regs = fresh_registers(2 * num_tags(nfa))
  /\ work = NoWork
  /\ lexing = idle

Generate == Explore \/ Move \/ Explored \/ AddToExisting \/ AddToMapped \/ AddNew

\* Nothing is left to try.
Stop ==
  /\ lexing # idle
  /\ lexing.state = 0
  /\ lexing.match = NoMatch
  /\ lexing.tries = MaxAttempts \/ lexing.start = lexing.pos
  /\ UNCHANGED vars

Next == Generate \/ Begin \/ ReadChar \/ ReturnVariable \/ Retry \/ Stop

Spec == Init /\ [][Next]_vars

-----------------------------------------------------------------------------
TypeOK ==
  /\ Tail(rules) \in RuleSets
  /\ \A i \in DOMAIN states :
       /\ states[i].configs # {}
       /\ \A c \in states[i].configs : c.s \in 0 .. nfa.size - 1 /\ c.regs \in [Tags -> DOMAIN regs]
       /\ \A ch \in DOMAIN states[i].next : states[i].next[ch].dest \in DOMAIN states
  /\ \A k \in DOMAIN queue : queue[k] \in DOMAIN states
  /\ lexing.state \in 0 .. Len(states)
  /\ lexing.start <= lexing.pos /\ lexing.pos <= Len(lexing.text) /\ Len(lexing.text) <= MaxText

\* What an attempt has read when it began as x says and is at position e.
Seen(x, e) == (IF x.sof THEN <<StartOfFile>> ELSE << >>) \o SubSeq(lexing.text, x.start + 1, e)

\* The position of the k-th of these characters.
PositionOf(x, k) == IF x.sof THEN x.start + k - 1 ELSE x.start + k

Matching(w) == {v \in DOMAIN rules : RuleParses(rules[v], w) # {}}

\* A DFA state that the lexer reaches accepts exactly the rules that match the
\* text read since the attempt began, in the order of the schema, and the lexer
\* runs out of states only where no rule matches: docs/schema.md on what an
\* expression matches, through add_to_nfa, generate and process_char.
RecognisesRules ==
  Seen(lexing, lexing.pos) # << >> =>
    LET ids == IF lexing.state = 0 THEN << >> ELSE states[lexing.state].ids
        at_end == lexing.eof /\ lexing.state = 0 /\ lexing.pos = Len(lexing.text)
    IN ~at_end => /\ ToSet(ids) = Matching(Seen(lexing, lexing.pos))
                  /\ \A k \in 1 .. Len(ids) - 1 : ids[k] <= ids[k + 1]

\* A variable ends at a delimiter or at the end of the log, no longer one could
\* begin where it does, and it has the first of the rules that match its text,
\* however often scan went past a shorter match and came back.
LongestMatch ==
  LET t == lexing.token
      ends(e) == IF e < Len(lexing.text) THEN lexing.text[e + 1] \in Delims ELSE lexing.eof
  IN t # NoToken =>
       /\ ends(t.end)
       /\ t.type = Min(Matching(Seen(t, t.end)))
       /\ \A e \in t.end + 1 .. Len(lexing.text) : ends(e) => Matching(Seen(t, e)) = {}

\* LogEventView::get_capture_position.
capture_position(t, name) ==
  LET s == t.regs[num_tags(nfa) + start_tag(nfa, name)]
      e == t.regs[num_tags(nfa) + end_tag(nfa, name)]
  IN IF s = << >> \/ e = << >> THEN None
     ELSE IF s[1] < 0 \/ e[1] < 0 THEN None ELSE <<s[1], e[1]>>

\* The ordered_matches of get_capture_matches: of captures with the same
\* positions the set keeps the one that was inserted first, the innermost.
ordered_matches(t) ==
  LET emplace(matches, m) ==
        IF m.pos = None \/ \E other \in matches : other.pos = m.pos THEN matches
        ELSE matches \cup {m}
  IN FoldLeft(LAMBDA matches, n : emplace(matches, [name |-> n, pos |-> capture_position(t, n)]),
              {}, captures(rule_ast(rules[t.type])))

\* A match is a leaf unless the next one begins inside it.
with_leaves(matches) ==
  [k \in DOMAIN matches |->
     [name |-> matches[k].name, pos |-> matches[k].pos,
      leaf |-> k = Len(matches) \/ matches[k].pos[2] <= matches[k + 1].pos[1]]]

\* Of two captures that start at one position, the shorter one comes first.
get_capture_matches_mutant(t) ==
  LET cmp(m, n) == \/ m.pos[1] < n.pos[1]
                   \/ m.pos[1] = n.pos[1] /\ m.pos[2] < n.pos[2]
  IN with_leaves(SetToSortSeq(ordered_matches(t), cmp))

\* LogEventView::get_capture_matches
get_capture_matches(t) ==
  LET cmp(m, n) == \/ m.pos[1] < n.pos[1]
                   \/ m.pos[1] = n.pos[1] /\ m.pos[2] > n.pos[2]
  IN with_leaves(SetToSortSeq(ordered_matches(t), cmp))

\* A variable's part of LogEventView::get_logtype, behind its delimiter: the
\* characters that are kept and the names in the place of the others.
get_logtype(t) ==
  LET sub_token(i, j) == [k \in 1 .. j - i |-> <<"text", lexing.text[i + k]>>]
      append(logtype, m) ==
        IF ~m.leaf THEN logtype
        ELSE [text |-> logtype.text \o sub_token(logtype.prev_end_pos, m.pos[1])
                         \o << <<"name", m.name>> >>,
              prev_end_pos |-> m.pos[2]]
      start == [text |-> << >>, prev_end_pos |-> IF t.sof THEN t.start ELSE t.start + 1]
      logtype == FoldLeft(append, start, get_capture_matches(t))
  IN logtype.text \o sub_token(logtype.prev_end_pos, t.end)

-----------------------------------------------------------------------------

\* The captures that the registers of t hold are those of the parse p.
HasCapturesOf(t, p) ==
  \A n \in DOMAIN p.caps :
    capture_position(t, n) = IF p.caps[n] = None THEN None
                             ELSE <<PositionOf(t, p.caps[n][1]), PositionOf(t, p.caps[n][2])>>

\* The captures of a variable that the lexer returns are those of a way to
\* match its text by its rule, whatever attempts failed before it and left
\* positions in the registers.
CapturesAreParse ==
  LET t == lexing.token
  IN t # NoToken => \E p \in RuleParses(rules[t.type], Seen(t, t.end)) : HasCapturesOf(t, p)

\* The text of the parse p with the captures that have no other inside them, in
\* p, replaced by their names.
LogtypeOf(x, w, p) ==
  LET matched == {n \in DOMAIN p.caps : p.caps[n] # None}
      leaves == {n \in matched : \A m \in matched : <<n, m>> \notin Nested(x)}
      from[k \in 1 .. Len(w)] ==
        IF k = Len(w) THEN << >>
        ELSE IF \E n \in leaves : p.caps[n][1] = k
          THEN LET n == CHOOSE m \in leaves : p.caps[m][1] = k
               IN << <<"name", n>> >> \o from[p.caps[n][2]]
          ELSE << <<"text", w[k + 1]>> >> \o from[k + 1]
  IN from[1]

\* get_logtype replaces the innermost captures by their names and keeps all
\* other text, in the order of the text: LogEvent.hpp, "any leaf capture group
\* matches will be replaced with their name while all other text is treated as
\* static text".  (Unless a capture is empty: then one that starts with it is
\* not taken for a leaf.)
LogtypeNamesLeaves ==
  \A t \in {lexing.token} \ {NoToken} :
    captures(rule_ast(rules[t.type])) # << >> =>
      \A p \in RuleParses(rules[t.type], Seen(t, t.end)) :
        /\ HasCapturesOf(t, p)
        /\ \A n \in DOMAIN p.caps : p.caps[n] # None => p.caps[n][1] < p.caps[n][2]
        => get_logtype(t) = LogtypeOf(rules[t.type].x, Seen(t, t.end), p)

\* Some renaming of registers, and of nothing else, takes C to D.
SameButForRegisters(C, D) ==
  /\ Cardinality(C) = Cardinality(D)
  /\ \E m \in {f \in [C -> D] : \A c \in C : f[c].s = c.s /\ f[c].look = c.look} :
       /\ \A d \in D : \E c \in C : m[c] = d
       /\ LET used == UNION {{<<c.regs[t], m[c].regs[t]>> : t \in {u \in Tags : ~has_op(c.look, u)}} : c \in C}
          IN \A p, q \in used : p[1] = q[1] <=> p[2] = q[2]

\* No two DFA states differ in their registers only, so that generate has
\* finitely many to make: reassign_transition_reg_ops is there for "preventing
\* the creation of new DFA states and avoiding non-converging determinization".
StatesDiffer ==
  lexing = idle =>
    \A i, j \in DOMAIN states :
      i < j => ~SameButForRegisters(states[i].configs, states[j].configs)
=============================================================================
