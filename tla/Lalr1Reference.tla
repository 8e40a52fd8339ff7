-------------------------- MODULE Lalr1Reference --------------------------
(***************************************************************************)
(* What Lalr1Parser parses: the tokens of a schema, what a grammar derives *)
(* from them, and the parse trees, by recursion; and the properties that   *)
(* compare the parser with them.                                           *)
(***************************************************************************)
EXTENDS Lalr1Parser

-----------------------------------------------------------------------------
(* Reference: what the input's tokens are, and what a grammar derives.     *)

RECURSIVE Words(_)
Words(chars) ==
  IF chars = <<>> THEN <<>>
  ELSE LET k == CHOOSE n \in 1 .. Len(chars) :
                  /\ SubSeq(chars, 1, n) \in DOMAIN TokenTypes
                  /\ \A m \in n + 1 .. Len(chars) :
                       SubSeq(chars, 1, m) \notin DOMAIN TokenTypes
       IN <<SubSeq(chars, 1, k)>> \o Words(SubSeq(chars, k + 1, Len(chars)))

\* The ends of the spans of w that body derives from i on; a fact <<x, i, j>>
\* says that x derives the words after i up to j.
EndsOf(facts, body, i) ==
  FoldLeft(LAMBDA at, x : {f[3] : f \in {e \in facts : e[1] = x /\ e[2] \in at}},
           {i}, body)

RECURSIVE Derived(_, _)
Derived(n, facts) ==
  LET new == facts \cup UNION {{<<g.prods[p].head, i, j>> : j \in EndsOf(facts, g.prods[p].body, i)} :
                               p \in DOMAIN g.prods, i \in 0 .. n}
  IN IF new = facts THEN facts ELSE Derived(n, new)

\* All that symbols derive from a sequence of words, each of which may be any
\* of its symbols.
Facts(words) ==
  Derived(Len(words), UNION {{<<TokenTypes[words[i]][k], i - 1, i>> :
                                k \in DOMAIN TokenTypes[words[i]]} : i \in DOMAIN words})

\* <<x, i>>: x derives something that begins with the words after i.
RECURSIVE BegunBy(_, _, _)
BegunBy(n, facts, found) ==
  LET Begins(body, i) ==
        \E m \in DOMAIN body : \E j \in EndsOf(facts, SubSeq(body, 1, m - 1), i) :
          <<body[m], j>> \in found
      new == found \cup {<<g.prods[p].head, i>> :
                           <<p, i>> \in {q \in (DOMAIN g.prods) \X (0 .. n) :
                                          Begins(g.prods[q[1]].body, q[2])}}
  IN IF new = found THEN found ELSE BegunBy(n, facts, new)

Derivable(words) == <<StartPrime, 0, Len(words)>> \in Facts(words)

Viable(words) ==
  LET n == Len(words)
      facts == Facts(words)
  IN <<StartPrime, 0>> \in BegunBy(n, facts, {<<x, n>> : x \in Symbols(g)} \cup
                                     {<<f[1], f[2]>> : f \in {e \in facts : e[3] = n}})

-----------------------------------------------------------------------------
(* Properties *)

RECURSIVE Yield(_)
Yield(m) == IF IsToken(m) THEN <<m>>
            ELSE FoldLeft(LAMBDA tokens, kid : tokens \o Yield(kid), <<>>, m.kids)

YieldOf(stack) == FoldLeft(LAMBDA tokens, m : tokens \o Yield(m), <<>>, stack)
WordsOf(tokens) == [i \in DOMAIN tokens |-> tokens[i].word]
TextOf(tokens) == FoldLeft(LAMBDA text, t : text \o t.text, <<>>, tokens)

RECURSIVE IsTree(_)
IsTree(m) ==
  IsToken(m) \/ /\ Len(m.kids) = Len(g.prods[m.p].body)
                /\ \A i \in DOMAIN m.kids : /\ g.prods[m.p].body[i] \in SymbolsOf(m.kids[i])
                                            /\ IsTree(m.kids[i])

\* While parsing, the leaves of the parse stack and the token put back by a
\* reduction are the tokens of the schema from its beginning: none is lost,
\* scanned twice or cut at the end of a buffer half (parse_symbol, m_next_token).
StackSpellsInput ==
  pc = "parse" =>
    LET tokens == YieldOf(matches) \o IF next_token = NoToken THEN <<>> ELSE <<next_token>>
        text == TextOf(tokens)
    IN /\ text = [i \in 1 .. Len(text) |-> i - 1]
       /\ IsPrefix(SelectSeq(WordsOf(tokens), LAMBDA w : w # <<>>), Words(input))

\* What parse() returns is a parse tree of the whole schema: each node is an
\* instance of its production, the leaves are the tokens in order.
AcceptedIsParse ==
  pc = "accepted" => /\ IsTree(parsed)
                     /\ g.prods[parsed.p].head = g.prods[1].head
                     /\ WordsOf(Yield(parsed)) = Words(input)

\* parse() fails at the first token that cannot continue any sentence of the
\* grammar: the tokens before it begin one, with it they do not.  So nothing
\* derivable is rejected, and the error is reported at the right place.
ErrorAtFirstBadToken ==
  pc = "report" =>
    LET before == WordsOf(YieldOf(Front(matches)))
        token == Last(matches)
    IN /\ Viable(before)
       /\ IF token.types[1] = TokenEnd THEN ~Derivable(before)
          ELSE ~Viable(Append(before, token.word))

\* The text since the end of the last symbol on the stack that a semantic rule
\* was called for.
RECURSIVE Pending(_)
Pending(stack) ==
  IF stack = <<>> THEN 0
  ELSE IF IsToken(Last(stack)) THEN Len(Last(stack).text) + Pending(Front(stack))
  ELSE IF g.prods[Last(stack).p].rule # None THEN 0
  ELSE Pending(Front(stack) \o Last(stack).kids)

\* parse() runs out of buffer ("Error scanning in lexer.") only in a schema with
\* about as much text between two semantic rules as a half of the buffer holds,
\* such as a long comment, or in one that ends where the buffer ends: there the
\* position wraps to 0 and never meets the last character read.
ScanErrorOnlyForLongText ==
  (pc = "scan_error" /\ back = "advance") =>
    \/ Pending(matches) + Len(tok.word) >= Half(buf) - 1
    \/ buf.finished /\ Len(input) % buf.size = 0

=============================================================================
