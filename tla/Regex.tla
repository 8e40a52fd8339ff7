------------------------------- MODULE Regex -------------------------------
(***************************************************************************)
(* The regular expressions of a schema: the expression as it is written,   *)
(* the RegexAST that SchemaParser's rules and LogParser::add_rules build   *)
(* for it, and, as the reference, what docs/schema.md says it matches.     *)
(*                                                                         *)
(* A written expression is a record with a field op:                       *)
(*   lit c, class ranges (a "[...]"), nclass ranges (a "[^...]"), dot,     *)
(*   cat l r, or l r, star r, plus r, opt r, times r n ("{n}"),            *)
(*   between r lo hi ("{lo,hi}"), cap r name                               *)
(*                                                                         *)
(* An AST is a record with a field op:                                     *)
(*   empty, group ranges negate (a literal is a group of one character),   *)
(*   or l r, cat l r, mult r min max (max = 0: infinite), cap r name       *)
(***************************************************************************)
EXTENDS Naturals, Sequences, FiniteSets, SequencesExt

CONSTANTS
  UnicodeMax,   \* cUnicodeMax: the largest character
  Delims,       \* m_is_delimiter: the delimiters of the schema and cCharStartOfFile
  StartOfFile,  \* cCharStartOfFile
  Newline       \* '\n'

Char == 0 .. UnicodeMax

ASSUME RegexAssumption ==
  /\ UnicodeMax \in Nat
  /\ Delims \subseteq Char
  /\ StartOfFile \in Delims
  /\ Newline \in Char

-----------------------------------------------------------------------------
(* Ranges of characters (RegexASTGroup).                                   *)

RangeLess(a, b) == a[1] < b[1] \/ (a[1] = b[1] /\ a[2] < b[2])

\* The range that starts last ends the merged one.
merge_mutant(ranges) ==
  LET Step(acc, range) ==
        IF acc # << >> /\ range[1] <= Last(acc)[2] + 1
        THEN [acc EXCEPT ![Len(acc)][2] = range[2]]
        ELSE Append(acc, range)
  IN FoldLeft(Step, << >>, ranges)

\* Sorted ranges in, sorted ranges out that neither overlap nor touch.
merge(ranges) ==
  LET Step(acc, range) ==
        IF acc # << >> /\ range[1] <= Last(acc)[2] + 1
        THEN [acc EXCEPT ![Len(acc)][2] = IF range[2] > @ THEN range[2] ELSE @]
        ELSE Append(acc, range)
  IN FoldLeft(Step, << >>, ranges)

\* Sorted ranges that neither overlap nor touch; no range has no complement.
complement(ranges) ==
  LET Step(acc, range) ==
        [ low |-> range[2] + 1,
          out |-> IF range[1] > 0 THEN Append(acc.out, <<acc.low, range[1] - 1>>)
                  ELSE acc.out ]
      all == FoldLeft(Step, [low |-> 0, out |-> << >>], ranges)
  IN IF all.low > 0 THEN Append(all.out, <<all.low, UnicodeMax>>) ELSE all.out

\* What RegexASTGroup::add_to_nfa gives to add_interval.
group_ranges(g) ==
  LET merged == merge(SortSeq(g.ranges, RangeLess))
  IN IF g.negate THEN complement(merged) ELSE merged

\* remove_delimiters_from_wildcard: '.' is anything but a delimiter.
wildcard_ranges ==
  LET d == SetToSortSeq(Delims, <)
      before == IF d[1] # 0 THEN << <<0, d[1] - 1>> >> ELSE << >>
      Between(i) == IF d[i + 1] - d[i] > 1 THEN << <<d[i] + 1, d[i + 1] - 1>> >>
                    ELSE << >>
      after == IF Last(d) # UnicodeMax THEN << <<Last(d) + 1, UnicodeMax>> >> ELSE << >>
  IN before \o FlattenSeq([i \in 1 .. Len(d) - 1 |-> Between(i)]) \o after

-----------------------------------------------------------------------------
(* SchemaParser: one case per grammar rule.                                *)

Empty == [op |-> "empty"]
Group(negate, ranges) == [op |-> "group", negate |-> negate, ranges |-> ranges]
Or(l, r) == [op |-> "or", l |-> l, r |-> r]
Cat(l, r) == [op |-> "cat", l |-> l, r |-> r]
Mult(r, min, max) == [op |-> "mult", r |-> r, min |-> min, max |-> max]
Cap(r, name) == [op |-> "cap", r |-> r, name |-> name]

RECURSIVE Ast(_)
Ast(x) ==
  CASE x.op = "lit"     -> Group(FALSE, << <<x.c, x.c>> >>)
    [] x.op = "class"   -> Group(FALSE, x.ranges)
    [] x.op = "nclass"  -> Group(TRUE, x.ranges)
    [] x.op = "dot"     -> Group(FALSE, wildcard_ranges)
    [] x.op = "cat"     -> Cat(Ast(x.l), Ast(x.r))
    [] x.op = "or"      -> Or(Ast(x.l), Ast(x.r))
    [] x.op = "star"    -> Or(Empty, Mult(Ast(x.r), 1, 0))
    [] x.op = "plus"    -> Mult(Ast(x.r), 1, 0)
    [] x.op = "opt"     -> Or(Empty, Ast(x.r))
    [] x.op = "times"   -> Mult(Ast(x.r), x.n, x.n)
    [] x.op = "between" -> IF x.lo = 0 THEN Or(Empty, Mult(Ast(x.r), 1, x.hi))
                           ELSE Mult(Ast(x.r), x.lo, x.hi)
    [] x.op = "cap"     -> Cap(Ast(x.r), x.name)

\* A rule of the schema: a record of its kind, "header" or "variable", and of
\* the expression x.  LogParser::add_rules adds a rule for the newline before
\* them; a header follows the start of the file or a newline, a variable a
\* delimiter.
newline_rule == [kind |-> "newLine", x |-> [op |-> "lit", c |-> Newline]]

with_newline_rule(schema) == <<newline_rule>> \o schema

rule_ast(rule) ==
  LET delims == SetToSortSeq(Delims, <)
      Lit(c) == Group(FALSE, << <<c, c>> >>)
      delimiter == Group(FALSE, [i \in DOMAIN delims |-> <<delims[i], delims[i]>>])
  IN CASE rule.kind = "newLine"  -> Ast(rule.x)
       [] rule.kind = "header"   -> Cat(Or(Lit(StartOfFile), Lit(Newline)), Ast(rule.x))
       [] rule.kind = "variable" -> Cat(delimiter, Ast(rule.x))

\* m_subtree_positive_captures.
RECURSIVE captures(_)
captures(t) ==
  CASE t.op \in {"empty", "group"} -> << >>
    [] t.op \in {"or", "cat"}      -> captures(t.l) \o captures(t.r)
    [] t.op = "mult"               -> captures(t.r)
    [] t.op = "cap"                -> Append(captures(t.r), t.name)

-----------------------------------------------------------------------------
(* The reference.  A parse of w from position i is a record of where it    *)
(* ends and of what it leaves in each capture, the last time: <<start,     *)
(* end>>, counted in characters from the start of w, or None for a capture *)
(* that the last alternative taken leaves out.                             *)

None == <<>>

RECURSIVE Names(_)
Names(x) ==
  CASE x.op \in {"lit", "class", "nclass", "dot"} -> {}
    [] x.op \in {"cat", "or"} -> Names(x.l) \cup Names(x.r)
    [] x.op = "cap" -> {x.name} \cup Names(x.r)
    [] OTHER -> Names(x.r)

\* Which captures are inside which.
RECURSIVE Nested(_)
Nested(x) ==
  CASE x.op \in {"lit", "class", "nclass", "dot"} -> {}
    [] x.op \in {"cat", "or"} -> Nested(x.l) \cup Nested(x.r)
    [] x.op = "cap" -> ({x.name} \X Names(x.r)) \cup Nested(x.r)
    [] OTHER -> Nested(x.r)

Members(x) ==
  LET In(r) == UNION {r[k][1] .. r[k][2] : k \in DOMAIN r}
  IN CASE x.op = "lit" -> {x.c}
       [] x.op = "class" -> In(x.ranges)
       [] x.op = "nclass" -> Char \ In(x.ranges)
       [] x.op = "dot" -> Char \ Delims

Reps(x) ==
  CASE x.op = "star" -> [lo |-> 0, bounded |-> FALSE, hi |-> 0]
    [] x.op = "plus" -> [lo |-> 1, bounded |-> FALSE, hi |-> 0]
    [] x.op = "opt"  -> [lo |-> 0, bounded |-> TRUE, hi |-> 1]
    [] x.op = "times" -> [lo |-> x.n, bounded |-> TRUE, hi |-> x.n]
    [] x.op = "between" -> [lo |-> x.lo, bounded |-> TRUE, hi |-> x.hi]

\* The names of n are left out from here on.
Without(p, n) == [p EXCEPT !.caps = [m \in DOMAIN @ |-> IF m \in n THEN None ELSE @[m]]]

RECURSIVE Parses(_, _, _), Repeats(_, _, _, _)
Parses(x, w, p) ==
  CASE x.op \in {"lit", "class", "nclass", "dot"} ->
         IF p.end < Len(w) /\ w[p.end + 1] \in Members(x)
         THEN {[p EXCEPT !.end = @ + 1]} ELSE {}
    [] x.op = "cat" -> UNION {Parses(x.r, w, q) : q \in Parses(x.l, w, p)}
    [] x.op = "or" -> {Without(q, Names(x.r)) : q \in Parses(x.l, w, p)}
                      \cup {Without(q, Names(x.l)) : q \in Parses(x.r, w, p)}
    [] x.op = "cap" ->
         {[q EXCEPT !.caps[x.name] = <<p.end, q.end>>] : q \in Parses(x.r, w, p)}
    [] OTHER ->
         LET reps == Reps(x)
             most == IF reps.bounded THEN reps.hi ELSE reps.lo + Len(w)
         IN (IF reps.lo = 0 THEN {Without(p, Names(x.r))} ELSE {})
            \cup UNION {Repeats(x.r, w, p, k) :
                          k \in (IF reps.lo = 0 THEN 1 ELSE reps.lo) .. most}

\* Exactly k repetitions.
Repeats(x, w, p, k) ==
  IF k = 0 THEN {p} ELSE UNION {Parses(x, w, q) : q \in Repeats(x, w, p, k - 1)}

\* What a text that the rule matches may begin with.
Starts(rule) ==
  CASE rule.kind = "header" -> {StartOfFile, Newline}
    [] rule.kind = "variable" -> Delims

\* The parses of the whole of w by a rule.
RuleParses(rule, w) ==
  LET from(i) == [end |-> i, caps |-> [n \in Names(rule.x) |-> None]]
      parses == IF rule.kind = "newLine" THEN Parses(rule.x, w, from(0))
                ELSE IF w # << >> /\ w[1] \in Starts(rule) THEN Parses(rule.x, w, from(1))
                ELSE {}
  IN {q \in parses : q.end = Len(w)}
=============================================================================
