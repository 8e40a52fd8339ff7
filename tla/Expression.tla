----------------------------- MODULE Expression -----------------------------
(***************************************************************************)
(* Expression, ExpressionCharacter and ExpressionView of the wildcard      *)
(* query parser.  A character of a query is a string; a view of an         *)
(* expression e is the half-open range [begin, end) of its characters,     *)
(* counted from 0 as in the code: e[k] is the character before index k.    *)
(***************************************************************************)
EXTENDS Integers, Sequences

CONSTANT Delimiters    \* delim_table

Star == "star"              \* the characters with a meaning in a query
QuestionMark == "question mark"
Backslash == "backslash"

\* Expression::Expression
Expression(search_string) ==
  LET type[k \in 1 .. Len(search_string)] ==
        IF k > 1 /\ type[k - 1] = "Escape"
          THEN "Normal"
          ELSE CASE search_string[k] = Star         -> "GreedyWildcard"
                 [] search_string[k] = QuestionMark -> "NonGreedyWildcard"
                 [] search_string[k] = Backslash    -> "Escape"
                 [] OTHER                           -> "Normal"
  IN [k \in 1 .. Len(search_string) |-> [value |-> search_string[k], type |-> type[k]]]

is_greedy_wildcard(c) == c.type = "GreedyWildcard"
is_wildcard(c) == c.type \in {"GreedyWildcard", "NonGreedyWildcard"}
is_escape(c) == c.type = "Escape"
is_delim(c) == c.value \in Delimiters
is_delim_or_wildcard(c) == is_delim(c) \/ is_wildcard(c)

\* The two members of an ExpressionView.
chars(e, view) == SubSeq(e, view.begin + 1, view.end)
search_string_of(cs) == [k \in DOMAIN cs |-> cs[k].value]
get_search_string(e, view) == search_string_of(chars(e, view))

\* Only the wildcard on the right is looked for.
extend_to_adjacent_greedy_wildcards_mutant(e, view) ==
  [begin |-> view.begin,
   end   |-> IF view.end < Len(e) /\ is_greedy_wildcard(e[view.end + 1])
               THEN view.end + 1 ELSE view.end]

extend_to_adjacent_greedy_wildcards(e, view) ==
  [begin |-> IF view.begin > 0 /\ is_greedy_wildcard(e[view.begin])
               THEN view.begin - 1 ELSE view.begin,
   end   |-> IF view.end < Len(e) /\ is_greedy_wildcard(e[view.end + 1])
               THEN view.end + 1 ELSE view.end]

starts_or_ends_with_greedy_wildcard(cs) ==
  cs # << >> /\ (is_greedy_wildcard(cs[1]) \/ is_greedy_wildcard(cs[Len(cs)]))

is_surrounded_by_delims_or_wildcards(e, view) ==
  /\ view.begin > 0 => is_delim_or_wildcard(e[view.begin])
  /\ view.end < Len(e) =>
       IF is_escape(e[view.end + 1])
         THEN view.end + 1 < Len(e) /\ is_delim(e[view.end + 2])
         ELSE is_delim_or_wildcard(e[view.end + 1])

\* For the views of a query, which are never empty.
is_well_formed(e, view) ==
  /\ view.begin > 0 => ~is_escape(e[view.begin])
  /\ ~is_escape(e[view.end])

\* The elements of s at the places for which push_back is called.
AtPlaces(s, places) ==
  LET pushed[k \in 0 .. Len(s)] ==
        IF k = 0 THEN << >>
        ELSE IF k \in places THEN Append(pushed[k - 1], s[k]) ELSE pushed[k - 1]
  IN pushed[Len(s)]

WithoutEscapes(cs) == AtPlaces(cs, {k \in DOMAIN cs : ~is_escape(cs[k])})

\* The characters that generate_regex_string writes: any text for a greedy
\* wildcard, any character for the other one, and the character itself, which
\* the backslash it writes before a special one makes the schema parser read.
generate_regex_string(e, view) == WithoutEscapes(chars(e, view))

contains_wildcard(regex) == \E k \in DOMAIN regex : is_wildcard(regex[k])
=============================================================================
