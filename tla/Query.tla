------------------------------- MODULE Query -------------------------------
(***************************************************************************)
(* Query: all interpretations of a query with wildcards as sequences of    *)
(* static text and variables, by dynamic programming over the views of the *)
(* query.  One action is one iteration of the loop over the views.         *)
(***************************************************************************)
EXTENDS Expression, FiniteSets, SequencesExt

CONSTANTS
  Queries,       \* the query strings: sequences of characters
  Characters,    \* the characters of a log
  Texts,         \* the logs to find: sequences of characters
  Lexer          \* the automaton of the lexer: its root, the transitions of each
                 \* state, and the types of the variables that end in it

VARIABLES
  m_processed_query_string,
  query_interpretations,   \* of the first k characters, for every k
  begin_idx, end_idx,      \* the loops of get_all_multi_token_interpretations
  pc                       \* "loop", or "done" when it has returned

ASSUME QueryAssumption == Queries \subseteq Seq(STRING)

\* The lexer's automaton is one: it has finitely many states, and each has the
\* transitions of some characters.
ASSUME LexerAssumption ==
  LET states == DOMAIN Lexer.delta IN
  /\ IsFiniteSet(states) /\ Lexer.root \in states
  /\ \A q \in states : \A c \in DOMAIN Lexer.delta[q] : Lexer.delta[q][c] \in states
  /\ \A q \in states : Lexer.ids[q] \subseteq Int

vars == <<m_processed_query_string, query_interpretations, begin_idx, end_idx, pc>>

-----------------------------------------------------------------------------
(* QueryInterpretation *)

StaticQueryToken(text) ==
  [kind |-> "static", type |-> -1, text |-> text, wildcard |-> FALSE]
VariableQueryToken(type, text, wildcard) ==
  [kind |-> "variable", type |-> type, text |-> text, wildcard |-> wildcard]

\* Two static tokens that meet stay two tokens.
append_query_interpretation_mutant(prefix, suffix) == prefix \o suffix

append_query_interpretation(prefix, suffix) ==
  IF /\ prefix # << >> /\ Last(prefix).kind = "static"
     /\ suffix # << >> /\ suffix[1].kind = "static"
    THEN Front(prefix) \o <<StaticQueryToken(Last(prefix).text \o suffix[1].text)>> \o Tail(suffix)
    ELSE prefix \o suffix

-----------------------------------------------------------------------------
(* Query *)

\* Query::Query: repeated greedy wildcards are one.
collapsed(search_string) ==
  LET e == Expression(search_string)
  IN AtPlaces(search_string,
              {k \in DOMAIN e :
                 ~(k > 1 /\ is_greedy_wildcard(e[k]) /\ is_greedy_wildcard(e[k - 1]))})

\* The automaton of a view's regex: a state is the set of the places in the
\* regex that the text so far leads to.
closure(regex, places) ==
  places \cup {p \in 1 .. Len(regex) + 1 :
                 \E q \in places : q < p /\ \A k \in q .. p - 1 : is_greedy_wildcard(regex[k])}

transition(regex, places, c) ==
  LET here == {p \in places : p <= Len(regex)}
      staying == {p \in here : is_greedy_wildcard(regex[p])}
      passing == {p \in here : \/ regex[p].type = "NonGreedyWildcard"
                               \/ regex[p].type = "Normal" /\ regex[p].value = c}
  IN closure(regex, staying \cup {p + 1 : p \in passing})

get_dfa == Lexer

\* DfaStatePair::get_reachable_pairs
get_reachable_pairs(regex, pair) ==
  {[state1 |-> get_dfa.delta[pair.state1][c], state2 |-> transition(regex, pair.state2, c)] :
     c \in {d \in Characters : /\ d \in DOMAIN get_dfa.delta[pair.state1]
                               /\ transition(regex, pair.state2, d) # {}}}

is_accepting(regex, pair) ==
  get_dfa.ids[pair.state1] # {} /\ Len(regex) + 1 \in pair.state2

\* The pairs that the loop of get_intersect visits, in whatever order.
visited_pairs(regex) ==
  LET Pairs == [state1 : DOMAIN get_dfa.delta, state2 : SUBSET (1 .. Len(regex) + 1)]
      visited[pairs \in SUBSET Pairs] ==
        LET next == pairs \cup UNION {get_reachable_pairs(regex, p) : p \in pairs}
        IN IF next = pairs THEN pairs ELSE visited[next]
  IN visited[{[state1 |-> get_dfa.root, state2 |-> closure(regex, {1})]}]

\* Only the type that comes first is kept of each state.
get_matching_variable_types_mutant(regex) ==
  {CHOOSE t \in get_dfa.ids[p.state1] : \A u \in get_dfa.ids[p.state1] : t <= u :
     p \in {q \in visited_pairs(regex) : is_accepting(regex, q)}}

\* Query::get_matching_variable_types, Dfa::get_intersect
get_matching_variable_types(regex) ==
  UNION {get_dfa.ids[p.state1] : p \in {q \in visited_pairs(regex) : is_accepting(regex, q)}}

get_all_single_token_interpretations(e, view) ==
  LET extended_view == extend_to_adjacent_greedy_wildcards(e, view)
      text == get_search_string(e, extended_view)
      regex == generate_regex_string(e, extended_view)
      types == get_matching_variable_types(regex)
      first == {t \in types : \A u \in types : t <= u}
      wild == contains_wildcard(regex)
      variables(ts) == {<<VariableQueryToken(t, text, wild)>> : t \in ts}
      static == {<<StaticQueryToken(text)>>}
  IN IF ~is_well_formed(e, view) THEN {}
     ELSE IF get_search_string(e, view) = <<Star>> THEN {<<StaticQueryToken(<<Star>>)>>}
     ELSE IF ~is_surrounded_by_delims_or_wildcards(e, view) \/ types = {} THEN static
     ELSE IF wild THEN static \cup variables(types)
     ELSE variables(first)

\* The body of the loops over end_idx and begin_idx.
InterpretView ==
  /\ pc = "loop" /\ begin_idx < end_idx
  /\ LET e == Expression(m_processed_query_string)
         view == [begin |-> begin_idx, end |-> end_idx]
         skipped == /\ get_search_string(e, view) # <<Star>>
                    /\ starts_or_ends_with_greedy_wildcard(chars(e, view))
         suffixes == IF skipped THEN {} ELSE get_all_single_token_interpretations(e, view)
         prefixes == IF begin_idx = 0 THEN {<< >>} ELSE query_interpretations[begin_idx]
     IN query_interpretations' =
          [query_interpretations EXCEPT ![end_idx] = @ \cup
             {append_query_interpretation(p, s) : p \in prefixes, s \in suffixes}]
  /\ begin_idx' = begin_idx + 1
  /\ UNCHANGED <<m_processed_query_string, end_idx, pc>>

\* The loop over end_idx goes one past the query.
NextEnd_mutant ==
  /\ pc = "loop" /\ begin_idx = end_idx /\ end_idx <= Len(m_processed_query_string)
  /\ end_idx' = end_idx + 1
  /\ begin_idx' = 0
  /\ UNCHANGED <<m_processed_query_string, query_interpretations, pc>>

NextEnd ==
  /\ pc = "loop" /\ begin_idx = end_idx /\ end_idx < Len(m_processed_query_string)
  /\ end_idx' = end_idx + 1
  /\ begin_idx' = 0
  /\ UNCHANGED <<m_processed_query_string, query_interpretations, pc>>

\* Returns query_interpretations.back().
ReturnInterpretations ==
  /\ pc = "loop" /\ begin_idx = end_idx /\ end_idx = Len(m_processed_query_string)
  /\ pc' = "done"
  /\ UNCHANGED <<m_processed_query_string, query_interpretations, begin_idx, end_idx>>

\* Query::Query, and the start of get_all_multi_token_interpretations.
Init ==
  \E query_string \in Queries :
    LET processed == collapsed(query_string) IN
    /\ m_processed_query_string = processed
    /\ query_interpretations = [k \in 1 .. Len(processed) |-> {}]
    /\ begin_idx = 0
    /\ end_idx = IF processed = << >> THEN 0 ELSE 1
    /\ pc = IF processed = << >> THEN "done" ELSE "loop"

Next == InterpretView \/ NextEnd \/ ReturnInterpretations

Spec == Init /\ [][Next]_vars

-----------------------------------------------------------------------------
(* The reference: what is to be found *)

\* The text matches the wildcards, which a backslash makes characters: reached[i] are
\* the lengths of text that the first i of the regex match.
Matches(regex, text) ==
  LET reached[i \in 0 .. Len(regex)] ==
        IF i = 0 THEN {0}
        ELSE LET before == reached[i - 1] IN
             IF is_greedy_wildcard(regex[i])
               THEN {j \in 0 .. Len(text) : \E k \in before : k <= j}
               ELSE {j \in 1 .. Len(text) : /\ j - 1 \in before
                                            /\ is_wildcard(regex[i]) \/ regex[i].value = text[j]}
  IN Len(text) \in reached[Len(regex)]

\* The types of the variables that a text is.
TypesOf(text) ==
  LET state[k \in 0 .. Len(text)] ==
        IF k = 0 THEN {get_dfa.root}
        ELSE {get_dfa.delta[q][text[k]] : q \in {p \in state[k - 1] : text[k] \in DOMAIN get_dfa.delta[p]}}
  IN UNION {get_dfa.ids[q] : q \in state[Len(text)]}

\* The log as the lexer takes it apart: from the beginning or after a delimiter,
\* the longest variable that ends before a delimiter or at the end, of the type
\* that was added first; all else is static text.
Lexed(text) ==
  LET ends(p) == {n \in p .. Len(text) : /\ n = Len(text) \/ text[n + 1] \in Delimiters
                                         /\ TypesOf(SubSeq(text, p, n)) # {}}
      starts(p) == p = 1 \/ text[p - 1] \in Delimiters
      longest(p) == CHOOSE n \in ends(p) : \A m \in ends(p) : m <= n
      first(ts) == CHOOSE t \in ts : \A u \in ts : t <= u
      from[p \in 1 .. Len(text) + 1] ==
        IF p > Len(text) THEN << >>
        ELSE IF starts(p) /\ ends(p) # {}
          THEN LET variable == SubSeq(text, p, longest(p))
               IN <<[type |-> first(TypesOf(variable)), text |-> variable]>> \o from[longest(p) + 1]
          ELSE <<[type |-> -1, text |-> <<text[p]>>]>> \o from[p + 1]
  IN from[1]

Lexeds == [text \in Texts |-> Lexed(text)]
VariableTypes == [text \in {t \in Texts : TypesOf(t) # {}} |-> TypesOf(text)]

\* The wildcards and characters of a token's text.
Pattern(text) == WithoutEscapes(Expression(text))

\* An interpretation, one variable, character or wildcard of static text at a time.
Items(interpretation) ==
  FlattenSeq([i \in DOMAIN interpretation |->
    LET token == interpretation[i]
        pattern == Pattern(token.text)
    IN IF token.kind = "variable" THEN <<[type |-> token.type, pattern |-> pattern]>>
       ELSE [k \in DOMAIN pattern |-> [type |-> -1, pattern |-> <<pattern[k]>>]]])

\* The items find the log: a greedy wildcard of static text stands for
\* any static text and any variables, and a variable for one of its type.
Finds(items, log) ==
  LET rest[i \in 1 .. Len(items) + 1, j \in 1 .. Len(log) + 1] ==
        IF i > Len(items) THEN j > Len(log)
        ELSE IF items[i].type = -1 /\ is_greedy_wildcard(items[i].pattern[1])
          THEN rest[i + 1, j] \/ (j <= Len(log) /\ rest[i, j + 1])
        ELSE /\ j <= Len(log)
             /\ items[i].type = log[j].type
             /\ Matches(items[i].pattern, log[j].text)
             /\ rest[i + 1, j + 1]
  IN rest[1, 1]

-----------------------------------------------------------------------------
(* Properties *)

Tokens == [kind : {"static", "variable"}, type : Int, text : Seq(STRING), wildcard : BOOLEAN]

\* Types, and the indices of the loops stay within the query.
TypeOK ==
  /\ m_processed_query_string \in Seq(STRING)
  /\ DOMAIN query_interpretations = 1 .. Len(m_processed_query_string)
  /\ \A k \in DOMAIN query_interpretations : query_interpretations[k] \subseteq Seq(Tokens)
  /\ end_idx \in 0 .. Len(m_processed_query_string)
  /\ begin_idx \in 0 .. end_idx
  /\ pc \in {"loop", "done"}

\* No interpretation loses or repeats a part of the query, whatever views it is
\* made of and however they were extended to wildcards: its tokens spell the
\* part of the query up to their end.  Two static tokens never meet, so that
\* interpretations that are equal compare equal.
InterpretationsSpellQuery ==
  LET e == Expression(m_processed_query_string) IN
  \A k \in DOMAIN query_interpretations : \A interpretation \in query_interpretations[k] :
    LET texts == [i \in DOMAIN interpretation |-> interpretation[i].text]
        prefix == extend_to_adjacent_greedy_wildcards(e, [begin |-> 0, end |-> k])
    IN /\ collapsed(FlattenSeq(texts)) = SubSeq(m_processed_query_string, 1, prefix.end)
       /\ \A i \in 1 .. Len(interpretation) - 1 :
            "variable" \in {interpretation[i].kind, interpretation[i + 1].kind}

\* Every log that the query's wildcards match is found: one of the
\* interpretations has its variables, of the types the lexer gives them, and its
\* static text.
EveryMatchIsFound ==
  pc = "done" /\ m_processed_query_string # << >>
              /\ ~is_escape(Last(Expression(m_processed_query_string))) =>
    LET interpretations == {Items(i) : i \in Last(query_interpretations)}
        pattern == Pattern(m_processed_query_string)
    IN \A text \in {t \in DOMAIN Lexeds : Matches(pattern, t)} :
         \E items \in interpretations : Finds(items, Lexeds[text])

\* The regex that the current view is turned into, if there is one.
RegexesAsked ==
  LET e == Expression(m_processed_query_string)
      views == {[begin |-> b, end |-> end_idx] : b \in {begin_idx} \cap 0 .. end_idx - 1}
  IN {generate_regex_string(e, extend_to_adjacent_greedy_wildcards(e, view)) :
        view \in {v \in views : pc = "loop" /\ is_well_formed(e, v)}}

\* get_intersect finds the types of exactly the variables that the view matches.
IntersectIsExact ==
  \A regex \in RegexesAsked :
    get_matching_variable_types(regex)
      = UNION {VariableTypes[text] : text \in {t \in DOMAIN VariableTypes : Matches(regex, t)}}
=============================================================================
