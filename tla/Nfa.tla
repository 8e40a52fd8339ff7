-------------------------------- MODULE Nfa --------------------------------
(***************************************************************************)
(* The tagged NFA that RegexAST::add_to_nfa builds (finite_automata).      *)
(*                                                                         *)
(*   size  the number of states, whose ids are 0 .. size - 1; 0 is the root*)
(*   bytes the byte transitions <<from, character, to>>                    *)
(*   eps   the spontaneous transitions <<from, tag operations, to>>        *)
(*   var   the rule that a state accepts, or NoVar                         *)
(*   caps  the captures in the order in which they get their tags: the     *)
(*         k-th has start tag 2k - 2 and end tag 2k - 1                    *)
(*                                                                         *)
(* A tag operation is <<tag, type>>.  m_multi_valued is left out: only     *)
(* serialize reads it.  The code keeps the state that a sub-expression     *)
(* starts from in m_root and restores it; here it is a parameter.          *)
(***************************************************************************)
EXTENDS Regex

SetTag == 0
NegateTag == 1
NoVar == 0  \* rules are numbered from 1

\* Nfa::new_state and new_accepting_state; the new state's id is the old size.
new_nfa_state(n, v) == [n EXCEPT !.size = @ + 1, !.var = @ @@ (n.size :> v)]

add_eps(n, from, ops, to) == [n EXCEPT !.eps = Append(@, <<from, ops, to>>)]

\* get_or_create_capture_tag_pair.
with_capture(n, name) ==
  IF name \in ToSet(n.caps) THEN n ELSE [n EXCEPT !.caps = Append(@, name)]

start_tag(n, name) == 2 * SelectInSeq(n.caps, LAMBDA m: m = name) - 2
end_tag(n, name) == start_tag(n, name) + 1

\* NfaState::add_interval, for each range of a group.
add_intervals(n, from, ranges, to) ==
  LET edges(r) == [i \in 1 .. (IF r[1] <= r[2] THEN r[2] - r[1] + 1 ELSE 0) |->
                     <<from, r[1] + i - 1, to>>]
  IN [n EXCEPT !.bytes = @ \o FlattenSeq([k \in 1 .. Len(ranges) |-> edges(ranges[k])])]

\* The new state's id is the old size.
new_state_from_negative_captures(n, names, dest) ==
  LET tagged == FoldLeft(with_capture, n, names)
      ops == FlattenSeq([k \in DOMAIN names |->
               << <<start_tag(tagged, names[k]), NegateTag>>,
                  <<end_tag(tagged, names[k]), NegateTag>> >>])
  IN add_eps(new_nfa_state(tagged, NoVar), n.size, ops, dest)

\* The start state's id is the old size, the end state's the one after it.
new_start_and_end_states_from_positive_capture(n, name, root, dest) ==
  LET tagged == with_capture(n, name)
      started == add_eps(new_nfa_state(tagged, NoVar), root,
                         << <<start_tag(tagged, name), SetTag>> >>, n.size)
  IN add_eps(new_nfa_state(started, NoVar), n.size + 1,
             << <<end_tag(tagged, name), SetTag>> >>, dest)

RECURSIVE add_to_nfa(_, _, _, _), add_to_nfa_with_negative_captures(_, _, _, _, _),
          add_copies(_, _, _, _), add_optional_copies(_, _, _, _, _)

\* The captures of neg are not negated.
add_to_nfa_with_negative_captures_mutant(t, neg, n, root, end) ==
  add_to_nfa(t, n, root, end)

\* neg: m_negative_captures, which only an Or sets, in its two operands.
add_to_nfa_with_negative_captures(t, neg, n, root, end) ==
  IF neg = << >> THEN add_to_nfa(t, n, root, end)
  ELSE add_to_nfa(t, new_state_from_negative_captures(n, neg, end), root, n.size)

add_to_nfa(t, n, root, end) ==
  CASE t.op = "empty" -> add_eps(n, root, << >>, end)
    [] t.op = "group" -> add_intervals(n, root, group_ranges(t), end)
    [] t.op = "or" ->
         add_to_nfa_with_negative_captures(t.r, captures(t.l),
           add_to_nfa_with_negative_captures(t.l, captures(t.r), n, root, end), root, end)
    [] t.op = "cat" ->
         add_to_nfa(t.r, add_to_nfa(t.l, new_nfa_state(n, NoVar), root, n.size), n.size, end)
    [] t.op = "cap" ->
         add_to_nfa(t.r, new_start_and_end_states_from_positive_capture(n, t.name, root, end),
                    n.size, n.size + 1)
    [] t.op = "mult" ->
         LET copied == add_copies(t.r, n, root, IF t.min = 0 THEN 0 ELSE t.min - 1)
             least == IF t.min = 0 THEN add_eps(n, root, << >>, end)
                      ELSE add_to_nfa(t.r, copied.n, copied.root, end)
             branch == add_copies(t.r, least, copied.root, IF t.min = 0 THEN 0 ELSE 1)
         IN IF t.max = 0 THEN add_to_nfa(t.r, least, end, end)
            ELSE IF t.max > t.min
            THEN add_optional_copies(t.r, branch.n, branch.root, end, t.max - t.min - 1)
            ELSE least

\* k copies in a row, each into a new state.
add_copies(t, n, root, k) ==
  IF k = 0 THEN [n |-> n, root |-> root]
  ELSE add_copies(t, add_to_nfa(t, new_nfa_state(n, NoVar), root, n.size), n.size, k - 1)

\* k copies after each of which the repetition may end, and a last one.
add_optional_copies(t, n, root, end, k) ==
  LET ended == add_to_nfa(t, n, root, end)
  IN IF k = 0 THEN ended
     ELSE LET c == add_copies(t, ended, root, 1)
          IN add_optional_copies(t, c.n, c.root, end, k - 1)

\* Nfa::Nfa and LexicalRule::add_to_nfa: rules is a sequence of ASTs.
nfa_of(rules) ==
  LET empty == [size |-> 1, bytes |-> << >>, eps |-> << >>, var |-> (0 :> NoVar), caps |-> << >>]
      Add(n, v) == add_to_nfa(rules[v], new_nfa_state(n, v), 0, n.size)
  IN FoldLeft(Add, empty, [v \in 1 .. Len(rules) |-> v])

num_tags(n) == 2 * Len(n.caps)
=============================================================================
