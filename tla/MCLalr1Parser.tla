--------------------------- MODULE MCLalr1Parser ---------------------------
(***************************************************************************)
(* Grammars and schemas for TLC.  The first grammar has those productions  *)
(* of SchemaParser's that a part of the characters can reach: what a       *)
(* character is depends on where it stands.                                *)
(***************************************************************************)
EXTENDS Lalr1Reference, SchemaGrammar

MCChars == {"/", " ", "d", "e", ":", "nl", "cr", "|", "*", "(", ")", "[", "]", "-",
            "backslash", "t"}

MCWords == UNION {{w \in r.words : Range(w) \subseteq MCChars} : r \in Range(lexical_rules)}
MCTokenTypes == [w \in MCWords |-> token_types(w)]
MCNewlines == {<<"nl">>, <<"cr">>}
MCTerminals == {TokenEnd} \cup UNION {Range(MCTokenTypes[w]) : w \in MCWords}

RECURSIVE Reachable(_)
Reachable(prods) ==
  LET known == MCTerminals \cup {p.head : p \in Range(prods)}
      kept  == SelectSeq(prods, LAMBDA p : Range(p.body) \subseteq known)
  IN IF kept = prods THEN prods ELSE Reachable(kept)

OfSchemas == [terminals |-> MCTerminals, added |-> Reachable(schema_productions)]

\* Symbols that are nullable by others, lookaheads that come from behind them,
\* and a production that is added twice.
WithNullable ==
  [ terminals |-> MCTerminals,
    added |-> << P("List", <<"Pair", "Colon">>, None),
                 P("Pair", <<"Left", "Right">>, None),
                 P("Left", <<"Space">>, None),
                 P("Left", <<>>, None),
                 P("Right", <<"Last">>, None),
                 P("Last", <<"Last", "ForwardSlash">>, {2}),
                 P("Last", <<>>, None),
                 P("Left", <<"Space">>, {1}) >> ]

Ambiguous ==
  [ terminals |-> MCTerminals,
    added |-> << P("Sum", <<"Sum", "Star", "Sum">>, None),
                 P("Sum", <<"AlphaNumeric">>, None) >> ]

MCSchemaGrammar == {OfSchemas}
MCGrammars == {OfSchemas, WithNullable, Ambiguous}

Over(chars, max) == UNION {[1 .. n -> chars] : n \in 0 .. max}
After(start, rests) == {start \o rest : rest \in rests}
Times(n, chars) == FoldLeft(LAMBDA s, i : s \o chars, <<>>, [i \in 1 .. n |-> i])

\* Short schemas with all kinds of errors; schemas that are longer than the
\* buffer of 8 and cross its middle and its end at every place.
SchemaInputs ==
  Over({"/", "d", ":", "nl"}, 4)
  \cup After(<<" ">>, Over({" ", "d", ":"}, 3))
  \cup After(<<"d", ":">>, Over({"d", "|", "(", ")", "*"}, 3))
  \cup After(<<"d", "d", ":", "[">>, Over({"d", "-", "]"}, 3))
  \cup After(<<"d", "e", ":">>, Over({"d", "e", "backslash", "t"}, 3))
  \cup After(<<"/", "/", "d">>, Over({"d", "nl", "cr"}, 4))
  \cup After(<<"d", "d", ":", "d", "d", "nl">>, Over({"d", ":", "nl"}, 4))
  \cup After(<<"d", "d", ":", "d", "d", "d">>, Over({"d", "|"}, 5))
  \cup { <<"d", "d", ":">> \o Times(n, <<"d">>) \o <<"nl">> \o Times(k, <<"d">>) :
           n \in 6 .. 9, k \in 0 .. 3 }
  \cup {Times(n, <<"d", "d", ":", "d", "nl">>) : n \in 2 .. 4}

MCInputs == [Schema |-> SchemaInputs, List |-> Over({" ", "/", ":"}, 5), Sum |-> {}]
MCNextInputs == { <<"d", ":", "d">> }
=============================================================================
