------------------------------ MODULE MCQuery ------------------------------
EXTENDS Query

MCCharacters == {"a", "1", "space", Star}
MCDelimiters == {"space"}

\* Every query of at most 4 characters, and those of 5 with a digit, a space and stars.
MCQueries ==
  SeqOf({"a", "1", "space", Star, QuestionMark, Backslash}, 4)
    \cup SeqOf({"1", "space", Star}, 5)

\* The logs of at most 5 characters, those with a star of at most 3, those of
\* digits and spaces of at most 6.
MCTexts ==
  {t \in SeqOf(MCCharacters, 6) :
     \/ Len(t) <= 3
     \/ Len(t) <= 5 /\ ToSet(t) \subseteq {"a", "1", "space"}
     \/ ToSet(t) \subseteq {"1", "space"}}

\* int: 1+, hasNum: a*1[a1]*, and pair: 1+ 1+, which holds a delimiter.
MCLexer ==
  [root  |-> 1,
   delta |-> << ("1" :> 2) @@ ("a" :> 3),
                ("1" :> 2) @@ ("a" :> 4) @@ ("space" :> 5),
                ("1" :> 4) @@ ("a" :> 3),
                ("1" :> 4) @@ ("a" :> 4),
                ("1" :> 6),
                ("1" :> 6) >>,
   ids   |-> << {}, {0, 1}, {}, {1}, {}, {2} >>]
=============================================================================
