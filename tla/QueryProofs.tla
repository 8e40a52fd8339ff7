---------------------------- MODULE QueryProofs ----------------------------
(***************************************************************************)
(* Proofs about the wildcard query parser: the types of its state; that    *)
(* the intersection of a view's automaton with the lexer's finds the types *)
(* of exactly the variables that the view matches, for every lexer, every  *)
(* query and logs of any length; and that each interpretation spells the   *)
(* part of the query it stands for.                                        *)
(***************************************************************************)
EXTENDS Query, Induction, SequenceTheorems

-----------------------------------------------------------------------------
(***************************************************************************)
(* Strings and expressions.                                                *)
(***************************************************************************)

\* pushed is what AtPlaces has pushed for the places P of s, place by place.
Pushes(pushed, s, P) ==
  pushed = [k \in 0 .. Len(s) |->
              IF k = 0 THEN << >>
              ELSE IF k \in P THEN Append(pushed[k - 1], s[k]) ELSE pushed[k - 1]]

LEMMA PushesExist ==
  ASSUME NEW E, NEW s \in Seq(E), NEW P
  PROVE  \E f : Pushes(f, s, P) /\ AtPlaces(s, P) = f[Len(s)]
<1> DEFINE D == 0 .. Len(s)
           R == Seq(E)
           rank == [k \in D |-> k]
           G == [k \in D |-> [f \in [D -> R] |->
                   IF k = 0 THEN << >>
                   ELSE IF k \in P THEN Append(f[k - 1], s[k]) ELSE f[k - 1]]]
<1>1. rank \in [D -> 0 .. Len(s)] /\ Len(s) \in Nat
  OBVIOUS
<1>2. ASSUME NEW k \in D, k # 0 PROVE k - 1 \in D /\ s[k] \in E /\ rank[k - 1] < rank[k]
  BY <1>2
<1>3. G \in [D -> [[D -> R] -> R]] /\ R # {}
  <2>1. ASSUME NEW k \in D, NEW f \in [D -> R]
        PROVE  (IF k = 0 THEN << >>
                ELSE IF k \in P THEN Append(f[k - 1], s[k]) ELSE f[k - 1]) \in R
    BY <1>2
  <2>2. QED
    BY <2>1
<1>4. ASSUME NEW k \in D, NEW f \in [D -> R], NEW g \in [D -> R],
             \A y \in D : rank[y] < rank[k] => f[y] = g[y]
      PROVE  G[k][f] = G[k][g]
  <2>1. k # 0 => f[k - 1] = g[k - 1]
    BY <1>2, <1>4
  <2>2. QED
    BY <2>1
<1>5. PICK h \in [D -> R] : h = [k \in D |-> G[k][h]]
  <2> HIDE DEF D, R, rank, G
  <2>1. Recurses(D, R, rank, Len(s), G)
    BY <1>1, <1>3, <1>4 DEF Recurses
  <2>2. QED
    BY <2>1, Recursion
<1>6. Pushes(h, s, P)
  BY <1>5 DEF Pushes
<1>7. QED
  BY <1>6 DEF Pushes, AtPlaces

\* What is pushed are members of s.
LEMMA PushedMembers ==
  ASSUME NEW E, NEW s \in Seq(E), NEW P, NEW f, Pushes(f, s, P),
         NEW F, \A k \in P \cap DOMAIN s : s[k] \in F
  PROVE  \A k \in 0 .. Len(s) : f[k] \in Seq(F)
<1> DEFINE S == {k \in Nat : k <= Len(s) => f[k] \in Seq(F)}
<1>1. 0 \in S
  BY DEF Pushes
<1>2. ASSUME NEW k \in Nat, k \in S PROVE k + 1 \in S
  <2>1. SUFFICES ASSUME k + 1 <= Len(s) PROVE f[k + 1] \in Seq(F)
    OBVIOUS
  <2>2. f[k] \in Seq(F) /\ k + 1 \in DOMAIN s /\ (k + 1) - 1 = k
    BY <1>2, <2>1
  <2>3. f[k + 1] = IF k + 1 \in P THEN Append(f[k], s[k + 1]) ELSE f[k]
    <3>1. k + 1 \in 0 .. Len(s) /\ k + 1 # 0
      BY <2>1
    <3>2. f[k + 1] = IF k + 1 = 0 THEN << >>
                     ELSE IF k + 1 \in P THEN Append(f[(k + 1) - 1], s[k + 1]) ELSE f[(k + 1) - 1]
      BY <3>1 DEF Pushes
    <3>3. QED
      BY <2>2, <3>1, <3>2
  <2>4. QED
    BY <2>2, <2>3
<1>3. Nat \subseteq S
  <2> HIDE DEF S
  <2>1. QED
    BY <1>1, <1>2, SetInduction
<1>4. QED
  BY <1>3

LEMMA AtPlacesMembers ==
  ASSUME NEW E, NEW s \in Seq(E), NEW P, NEW F, \A k \in P \cap DOMAIN s : s[k] \in F
  PROVE  AtPlaces(s, P) \in Seq(F)
BY PushesExist, PushedMembers

Kinds == {"GreedyWildcard", "NonGreedyWildcard", "Escape", "Normal"}
ExpressionCharacters == [value : STRING, type : Kinds]
RegexCharacters == [value : STRING, type : Kinds \ {"Escape"}]

\* What a character is that no backslash is in front of.
Kind(c) ==
  CASE c = Star         -> "GreedyWildcard"
    [] c = QuestionMark -> "NonGreedyWildcard"
    [] c = Backslash    -> "Escape"
    [] OTHER            -> "Normal"

LEMMA KindIsKind == \A c : Kind(c) \in Kinds
BY DEF Kind, Kinds, Star, QuestionMark, Backslash

\* Each character of an expression follows from the one before it.
LEMMA ExpressionRule ==
  ASSUME NEW s \in Seq(STRING)
  PROVE  /\ Expression(s) \in Seq(ExpressionCharacters)
         /\ Len(Expression(s)) = Len(s)
         /\ \A k \in 1 .. Len(s) :
              /\ Expression(s)[k].value = s[k]
              /\ Expression(s)[k].type =
                   IF k > 1 /\ Expression(s)[k - 1].type = "Escape" THEN "Normal" ELSE Kind(s[k])
<1> DEFINE D == 1 .. Len(s)
           R == Kinds
           rank == [k \in D |-> k]
           G == [k \in D |-> [f \in [D -> R] |->
                   IF k > 1 /\ f[k - 1] = "Escape" THEN "Normal" ELSE Kind(s[k])]]
           T(f) == f = [k \in D |-> IF k > 1 /\ f[k - 1] = "Escape" THEN "Normal" ELSE Kind(s[k])]
<1>1. rank \in [D -> 0 .. Len(s)] /\ Len(s) \in Nat
  OBVIOUS
<1>2. ASSUME NEW k \in D, k > 1 PROVE k - 1 \in D /\ rank[k - 1] < rank[k]
  BY <1>2
<1>3. G \in [D -> [[D -> R] -> R]] /\ R # {}
  BY KindIsKind DEF Kinds
<1>4. ASSUME NEW k \in D, NEW f \in [D -> R], NEW g \in [D -> R],
             \A y \in D : rank[y] < rank[k] => f[y] = g[y]
      PROVE  G[k][f] = G[k][g]
  <2>1. k > 1 => f[k - 1] = g[k - 1]
    BY <1>2, <1>4
  <2>2. QED
    BY <2>1
<1>5. PICK h \in [D -> R] : h = [k \in D |-> G[k][h]]
  <2> HIDE DEF D, R, rank, G
  <2>1. Recurses(D, R, rank, Len(s), G)
    BY <1>1, <1>3, <1>4 DEF Recurses
  <2>2. QED
    BY <2>1, Recursion
<1>6. T(h)
  BY <1>5
<1>7. PICK f : T(f) /\ Expression(s) = [k \in D |-> [value |-> s[k], type |-> f[k]]]
  BY <1>6 DEF Expression, Kind
<1>8. \A k \in D : f[k] = IF k > 1 /\ f[k - 1] = "Escape" THEN "Normal" ELSE Kind(s[k])
  BY <1>7
<1>9. \A k \in D : f[k] \in Kinds /\ s[k] \in STRING
  BY <1>8, KindIsKind DEF Kinds
<1>10. Expression(s) \in Seq(ExpressionCharacters) /\ Len(Expression(s)) = Len(s)
  BY <1>7, <1>9 DEF ExpressionCharacters
<1>11. \A k \in D : Expression(s)[k].value = s[k] /\ Expression(s)[k].type = f[k]
  BY <1>7
<1>12. \A k \in D : k > 1 => k - 1 \in D
  OBVIOUS
<1>13. QED
  BY <1>8, <1>10, <1>11, <1>12

-----------------------------------------------------------------------------
(***************************************************************************)
(* The product of the lexer's automaton and that of a view's regex.        *)
(***************************************************************************)
Pairs(regex) == [state1 : DOMAIN get_dfa.delta, state2 : SUBSET (1 .. Len(regex) + 1)]
FirstPair(regex) == [state1 |-> get_dfa.root, state2 |-> closure(regex, {1})]
PairStep(regex) == [pair \in Pairs(regex) |-> get_reachable_pairs(regex, pair)]

LEMMA PlacesOfRegex ==
  ASSUME NEW regex \in Seq(RegexCharacters), NEW M \in SUBSET (1 .. Len(regex) + 1)
  PROVE  /\ closure(regex, M) \in SUBSET (1 .. Len(regex) + 1)
         /\ \A c : transition(regex, M, c) \in SUBSET (1 .. Len(regex) + 1)
<1>1. \A N \in SUBSET (1 .. Len(regex) + 1) : closure(regex, N) \in SUBSET (1 .. Len(regex) + 1)
  BY DEF closure
<1>2. ASSUME NEW c
      PROVE  transition(regex, M, c) \in SUBSET (1 .. Len(regex) + 1)
  <2>1. PICK here : here = {p \in M : p <= Len(regex)}
    OBVIOUS
  <2>2. PICK staying : staying = {p \in here : is_greedy_wildcard(regex[p])}
    OBVIOUS
  <2>3. PICK passing : passing = {p \in here : \/ regex[p].type = "NonGreedyWildcard"
                                               \/ regex[p].type = "Normal" /\ regex[p].value = c}
    OBVIOUS
  <2>4. staying \cup {p + 1 : p \in passing} \in SUBSET (1 .. Len(regex) + 1)
    <3>1. \A p \in here : p \in 1 .. Len(regex) + 1 /\ p + 1 \in 1 .. Len(regex) + 1
      BY <2>1
    <3>2. staying \subseteq here /\ passing \subseteq here
      BY <2>2, <2>3
    <3>3. QED
      BY <3>1, <3>2
  <2>5. transition(regex, M, c) = closure(regex, staying \cup {p + 1 : p \in passing})
    BY <2>1, <2>2, <2>3 DEF transition
  <2>6. QED
    BY <1>1, <2>4, <2>5
<1>3. QED
  BY <1>1, <1>2

LEMMA PairsArePairs ==
  ASSUME NEW regex \in Seq(RegexCharacters)
  PROVE  /\ FirstPair(regex) \in Pairs(regex)
         /\ PairStep(regex) \in [Pairs(regex) -> SUBSET Pairs(regex)]
         /\ IsFiniteSet(Pairs(regex))
<1>1. 1 \in 1 .. Len(regex) + 1
  OBVIOUS
<1>2. FirstPair(regex) \in Pairs(regex)
  BY <1>1, PlacesOfRegex, LexerAssumption DEF FirstPair, Pairs, get_dfa
<1>3. ASSUME NEW pair \in Pairs(regex) PROVE get_reachable_pairs(regex, pair) \in SUBSET Pairs(regex)
  <2>1. pair.state1 \in DOMAIN get_dfa.delta /\ pair.state2 \in SUBSET (1 .. Len(regex) + 1)
    BY DEF Pairs
  <2>2. \A c : transition(regex, pair.state2, c) \in SUBSET (1 .. Len(regex) + 1)
    BY <2>1, PlacesOfRegex
  <2>3. \A c \in DOMAIN get_dfa.delta[pair.state1] :
          get_dfa.delta[pair.state1][c] \in DOMAIN get_dfa.delta
    BY <2>1, LexerAssumption DEF get_dfa
  <2>4. QED
    BY <2>2, <2>3 DEF get_reachable_pairs, Pairs
<1>4. IsFiniteSet(Pairs(regex))
  <2> DEFINE A == DOMAIN get_dfa.delta
             B == SUBSET (1 .. Len(regex) + 1)
             f == [x \in A \X B |-> [state1 |-> x[1], state2 |-> x[2]]]
  <2>1. IsFiniteSet(A)
    BY LexerAssumption DEF get_dfa
  <2>2. IsFiniteSet(B)
    <3>1. IsFiniteSet(1 .. Len(regex) + 1)
      BY FS_Interval
    <3>2. QED
      BY <3>1, FS_SUBSET
  <2>3. f \in [A \X B -> Pairs(regex)]
    BY DEF Pairs
  <2>4. ASSUME NEW pair \in Pairs(regex) PROVE \E x \in A \X B : f[x] = pair
    <3>1. <<pair.state1, pair.state2>> \in A \X B
      BY DEF Pairs
    <3>2. f[<<pair.state1, pair.state2>>] = pair
      BY <3>1 DEF Pairs
    <3>3. QED
      BY <3>1, <3>2
  <2>5. f \in Surjection(A \X B, Pairs(regex))
    BY <2>3, <2>4 DEF Surjection
  <2>6. IsFiniteSet(A \X B)
    <3> HIDE DEF A, B
    <3>1. QED
      BY <2>1, <2>2, FS_Product
  <2>7. QED
    <3> HIDE DEF A, B, f
    <3>1. QED
      BY <2>5, <2>6, FS_Surjection
<1>5. QED
  BY <1>2, <1>3, <1>4 DEF PairStep

\* get_intersect visits exactly the pairs that are reached from the first one.
Visits(regex, visited) ==
  visited = [pairs \in SUBSET Pairs(regex) |->
    LET next == pairs \cup UNION {get_reachable_pairs(regex, p) : p \in pairs}
    IN IF next = pairs THEN pairs ELSE visited[next]]

LEMMA VisitedAreReached ==
  ASSUME NEW regex \in Seq(RegexCharacters)
  PROVE  visited_pairs(regex) = Least(Pairs(regex), PairStep(regex), {FirstPair(regex)})
<1> DEFINE P == Pairs(regex)
           step == PairStep(regex)
<1>1. \A S \in SUBSET P : S \cup UNION {get_reachable_pairs(regex, p) : p \in S} = Onward(step, S)
  BY DEF Onward, PairStep
<1>2. \A visited : Visits(regex, visited) <=> Loops(visited, P, step)
  BY <1>1 DEF Visits, Loops
<1>3. \E visited : Visits(regex, visited)
  BY <1>2, PairsArePairs, LoopsExist
<1>4. PICK visited : Visits(regex, visited) /\ visited_pairs(regex) = visited[{FirstPair(regex)}]
  BY <1>3 DEF Visits, visited_pairs, FirstPair, Pairs
<1>5. QED
  BY <1>2, <1>4, PairsArePairs, LoopsFindAll

\* The pair that a pair goes to with a character.
Reads(regex, pair, c, next) ==
  /\ c \in Characters
  /\ c \in DOMAIN get_dfa.delta[pair.state1]
  /\ transition(regex, pair.state2, c) # {}
  /\ next = [state1 |-> get_dfa.delta[pair.state1][c], state2 |-> transition(regex, pair.state2, c)]

LEMMA StepsAreReads ==
  ASSUME NEW regex \in Seq(RegexCharacters), NEW pair \in Pairs(regex), NEW next
  PROVE  next \in PairStep(regex)[pair] <=> \E c : Reads(regex, pair, c, next)
BY DEF PairStep, get_reachable_pairs, Reads

\* The pairs that a text leads through, one after each of its characters.
Trace(regex, text, a) ==
  /\ text \in Seq(Characters)
  /\ a \in [0 .. Len(text) -> Pairs(regex)]
  /\ a[0] = FirstPair(regex)
  /\ \A k \in 1 .. Len(text) : Reads(regex, a[k - 1], text[k], a[k])

LEMMA TraceGoesOn ==
  ASSUME NEW regex \in Seq(RegexCharacters), NEW text, NEW a, Trace(regex, text, a),
         NEW next \in PairStep(regex)[a[Len(text)]]
  PROVE  \E t, b : Trace(regex, t, b) /\ b[Len(t)] = next
<1>1. a[Len(text)] \in Pairs(regex) /\ Len(text) \in Nat
  BY DEF Trace
<1>2. PICK c : Reads(regex, a[Len(text)], c, next)
  BY <1>1, StepsAreReads
<1>3. PICK n : n = Len(text) /\ n \in Nat
  BY <1>1
<1>4. PICK t : t = Append(text, c)
  OBVIOUS
<1>5. PICK b : b = [k \in 0 .. n + 1 |-> IF k = n + 1 THEN next ELSE a[k]]
  OBVIOUS
<1>6. t \in Seq(Characters) /\ Len(t) = n + 1 /\ t[n + 1] = c /\ \A k \in 1 .. n : t[k] = text[k]
  BY <1>2, <1>3, <1>4 DEF Trace, Reads
<1>7. next \in Pairs(regex)
  BY <1>1, PairsArePairs
<1>8. b \in [0 .. n + 1 -> Pairs(regex)]
  <2>1. \A k \in 0 .. n + 1 : k # n + 1 => k \in 0 .. n
    BY <1>3
  <2>2. QED
    BY <1>3, <1>5, <1>7, <2>1 DEF Trace
<1>9. b[n + 1] = next /\ \A k \in 0 .. n : b[k] = a[k]
  BY <1>3, <1>5
<1>10. ASSUME NEW k \in 1 .. n + 1 PROVE Reads(regex, b[k - 1], t[k], b[k])
  <2>1. CASE k = n + 1
    <3>1. k - 1 = n /\ n \in 0 .. n
      BY <1>3, <2>1
    <3>2. QED
      BY <1>2, <1>3, <1>6, <1>9, <2>1, <3>1
  <2>2. CASE k # n + 1
    <3>1. k \in 1 .. n /\ k \in 0 .. n /\ k - 1 \in 0 .. n
      BY <1>3, <2>2
    <3>2. Reads(regex, a[k - 1], text[k], a[k])
      BY <1>3, <3>1 DEF Trace
    <3>3. QED
      BY <1>6, <1>9, <3>1, <3>2
  <2>3. QED
    BY <2>1, <2>2
<1>11. b[0] = FirstPair(regex)
  BY <1>3, <1>9 DEF Trace
<1>12. QED
  BY <1>6, <1>8, <1>9, <1>10, <1>11 DEF Trace

LEMMA TraceStays ==
  ASSUME NEW regex \in Seq(RegexCharacters), NEW text, NEW a, Trace(regex, text, a),
         NEW C \in Closed(Pairs(regex), PairStep(regex)), FirstPair(regex) \in C
  PROVE  a[Len(text)] \in C
<1> DEFINE S == {k \in Nat : k <= Len(text) => a[k] \in C}
<1>1. 0 \in S
  BY DEF Trace
<1>2. ASSUME NEW k \in Nat, k \in S PROVE k + 1 \in S
  <2>1. SUFFICES ASSUME k + 1 <= Len(text) PROVE a[k + 1] \in C
    OBVIOUS
  <2>2. a[k] \in C /\ a[k] \in Pairs(regex)
    BY <1>2, <2>1 DEF Closed, Trace
  <2>3. Reads(regex, a[k], text[k + 1], a[k + 1])
    <3>1. k + 1 \in 1 .. Len(text) /\ (k + 1) - 1 = k
      BY <2>1 DEF Trace
    <3>2. QED
      BY <3>1 DEF Trace
  <2>4. a[k + 1] \in PairStep(regex)[a[k]]
    BY <2>2, <2>3, StepsAreReads
  <2>5. QED
    BY <2>2, <2>4 DEF Closed, Onward
<1>3. Len(text) \in S
  <2> HIDE DEF S
  <2>1. Len(text) \in Nat
    BY DEF Trace
  <2>2. QED
    BY <1>1, <1>2, <2>1, SetInduction
<1>4. QED
  BY <1>3 DEF Trace

\* get_intersect visits a pair exactly if a text leads there.
LEMMA VisitedByText ==
  ASSUME NEW regex \in Seq(RegexCharacters), NEW pair
  PROVE  pair \in visited_pairs(regex)
           <=> \E text, a : Trace(regex, text, a) /\ a[Len(text)] = pair
<1> DEFINE P == Pairs(regex)
           R == {p \in P : \E text, a : Trace(regex, text, a) /\ a[Len(text)] = p}
<1>1. FirstPair(regex) \in R
  <2>1. PICK a : a = [k \in 0 .. 0 |-> FirstPair(regex)]
    OBVIOUS
  <2>2. Trace(regex, << >>, a) /\ a[Len(<< >>)] = FirstPair(regex)
    BY <2>1, PairsArePairs DEF Trace
  <2>3. QED
    BY <2>2, PairsArePairs
<1>2. R \in Closed(P, PairStep(regex))
  <2>1. \A p \in R : PairStep(regex)[p] \subseteq R
    BY TraceGoesOn, PairsArePairs
  <2>2. QED
    BY <2>1 DEF Closed, Onward
<1>3. visited_pairs(regex) \subseteq R
  BY <1>1, <1>2, VisitedAreReached DEF Least
<1>4. ASSUME NEW text, NEW a, Trace(regex, text, a)
      PROVE  a[Len(text)] \in visited_pairs(regex)
  <2>1. a[Len(text)] \in P
    BY <1>4 DEF Trace
  <2>2. QED
    BY <1>4, <2>1, TraceStays, VisitedAreReached DEF Least
<1>5. QED
  BY <1>3, <1>4

\* reached is what Matches defines.
Reaches(reached, regex, text) ==
  reached = [i \in 0 .. Len(regex) |->
    IF i = 0 THEN {0}
    ELSE LET before == reached[i - 1] IN
         IF is_greedy_wildcard(regex[i])
           THEN {j \in 0 .. Len(text) : \E k \in before : k <= j}
           ELSE {j \in 1 .. Len(text) : /\ j - 1 \in before
                                        /\ is_wildcard(regex[i]) \/ regex[i].value = text[j]}]

LEMMA ReachesExist ==
  ASSUME NEW regex \in Seq(RegexCharacters), NEW text, Len(text) \in Nat
  PROVE  \E r : /\ Reaches(r, regex, text)
                /\ r \in [0 .. Len(regex) -> SUBSET (0 .. Len(text))]
                /\ Matches(regex, text) <=> Len(text) \in r[Len(regex)]
<1> DEFINE D == 0 .. Len(regex)
           R == SUBSET (0 .. Len(text))
           rank == [i \in D |-> i]
           Value(i, before) ==
             IF is_greedy_wildcard(regex[i])
               THEN {j \in 0 .. Len(text) : \E k \in before : k <= j}
               ELSE {j \in 1 .. Len(text) : /\ j - 1 \in before
                                            /\ is_wildcard(regex[i]) \/ regex[i].value = text[j]}
           G == [i \in D |-> [f \in [D -> R] |-> IF i = 0 THEN {0} ELSE Value(i, f[i - 1])]]
<1>1. rank \in [D -> 0 .. Len(regex)] /\ Len(regex) \in Nat
  OBVIOUS
<1>2. ASSUME NEW i \in D, i # 0 PROVE i - 1 \in D /\ rank[i - 1] < rank[i]
  BY <1>2
<1>3. G \in [D -> [[D -> R] -> R]] /\ R # {}
  <2>1. \A i, before : Value(i, before) \in R
    <3>1. \A j \in 1 .. Len(text) : j \in 0 .. Len(text)
      OBVIOUS
    <3>2. QED
      BY <3>1
  <2>2. {0} \in R
    OBVIOUS
  <2> HIDE DEF Value, R
  <2>3. QED
    BY <2>1, <2>2
<1>4. ASSUME NEW i \in D, NEW f \in [D -> R], NEW g \in [D -> R],
             \A y \in D : rank[y] < rank[i] => f[y] = g[y]
      PROVE  G[i][f] = G[i][g]
  <2>1. i # 0 => f[i - 1] = g[i - 1]
    BY <1>2, <1>4
  <2> HIDE DEF Value
  <2>2. QED
    BY <2>1
<1>5. PICK h \in [D -> R] : h = [i \in D |-> G[i][h]]
  <2> HIDE DEF D, R, rank, G
  <2>1. Recurses(D, R, rank, Len(regex), G)
    BY <1>1, <1>3, <1>4 DEF Recurses
  <2>2. QED
    BY <2>1, Recursion
<1>6. h = [i \in D |-> IF i = 0 THEN {0} ELSE Value(i, h[i - 1])]
  <2> HIDE DEF Value
  <2>1. QED
    BY <1>5
<1>7. Reaches(h, regex, text)
  BY <1>6 DEF Reaches
<1>8. PICK r : Reaches(r, regex, text) /\ (Matches(regex, text) <=> Len(text) \in r[Len(regex)])
  BY <1>7 DEF Reaches, Matches
<1>9. r \in [D -> R]
  BY <1>8 DEF Reaches
<1>10. QED
  BY <1>8, <1>9

\* Its rule.
LEMMA ReachesRule ==
  ASSUME NEW regex \in Seq(RegexCharacters), NEW text, NEW r, Reaches(r, regex, text)
  PROVE  /\ r[0] = {0}
         /\ \A i \in 1 .. Len(regex) :
              r[i] = IF is_greedy_wildcard(regex[i])
                       THEN {j \in 0 .. Len(text) : \E k \in r[i - 1] : k <= j}
                       ELSE {j \in 1 .. Len(text) :
                               /\ j - 1 \in r[i - 1]
                               /\ is_wildcard(regex[i]) \/ regex[i].value = text[j]}
<1>1. \A i \in 1 .. Len(regex) : i \in 0 .. Len(regex) /\ i # 0
  OBVIOUS
<1>2. 0 \in 0 .. Len(regex)
  OBVIOUS
<1>3. QED
  BY <1>1, <1>2 DEF Reaches

\* A place is reached from the one before it if that one is a greedy wildcard.
LEMMA ClosureRule ==
  ASSUME NEW regex \in Seq(RegexCharacters), NEW M \in SUBSET (1 .. Len(regex) + 1),
         NEW q \in 1 .. Len(regex) + 1
  PROVE  q \in closure(regex, M)
           <=> \/ q \in M
               \/ q > 1 /\ is_greedy_wildcard(regex[q - 1]) /\ q - 1 \in closure(regex, M)
<1>1. ASSUME q \in closure(regex, M), q \notin M
      PROVE  q > 1 /\ is_greedy_wildcard(regex[q - 1]) /\ q - 1 \in closure(regex, M)
  <2>1. PICK p \in M : p < q /\ \A k \in p .. q - 1 : is_greedy_wildcard(regex[k])
    BY <1>1 DEF closure
  <2>2. p \in Nat /\ p >= 1 /\ q - 1 \in p .. q - 1 /\ q - 1 \in 1 .. Len(regex) + 1
    BY <2>1
  <2>3. CASE p = q - 1
    BY <2>1, <2>2, <2>3 DEF closure
  <2>4. CASE p # q - 1
    <3>1. p < q - 1 /\ \A k \in p .. (q - 1) - 1 : is_greedy_wildcard(regex[k])
      BY <2>1, <2>2, <2>4
    <3>2. QED
      BY <2>1, <2>2, <3>1 DEF closure
  <2>5. QED
    BY <2>3, <2>4
<1>2. ASSUME q > 1, is_greedy_wildcard(regex[q - 1]), q - 1 \in closure(regex, M)
      PROVE  q \in closure(regex, M)
  <2>1. CASE q - 1 \in M
    <3>1. q - 1 < q /\ \A k \in q - 1 .. q - 1 : k = q - 1
      OBVIOUS
    <3>2. QED
      BY <1>2, <2>1, <3>1 DEF closure
  <2>2. CASE q - 1 \notin M
    <3>1. PICK p \in M : p < q - 1 /\ \A k \in p .. (q - 1) - 1 : is_greedy_wildcard(regex[k])
      BY <1>2, <2>2 DEF closure
    <3>2. \A k \in p .. q - 1 : k = q - 1 \/ k \in p .. (q - 1) - 1
      BY <3>1
    <3>3. p < q
      BY <3>1
    <3>4. QED
      BY <1>2, <3>1, <3>2, <3>3 DEF closure
  <2>3. QED
    BY <2>1, <2>2
<1>3. q \in M => q \in closure(regex, M)
  BY DEF closure
<1>4. QED
  BY <1>1, <1>2, <1>3

LEMMA ClosureUnique ==
  ASSUME NEW regex \in Seq(RegexCharacters), NEW M \in SUBSET (1 .. Len(regex) + 1),
         NEW X \in SUBSET (1 .. Len(regex) + 1),
         \A q \in 1 .. Len(regex) + 1 :
           q \in X <=> \/ q \in M
                       \/ q > 1 /\ is_greedy_wildcard(regex[q - 1]) /\ q - 1 \in X
  PROVE  X = closure(regex, M)
<1> DEFINE Same(q) == q \in X <=> q \in closure(regex, M)
           S == {n \in Nat : n \in 1 .. Len(regex) + 1 => Same(n)}
<1>1. 0 \in S
  OBVIOUS
<1>2. ASSUME NEW n \in Nat, n \in S PROVE n + 1 \in S
  <2>1. SUFFICES ASSUME n + 1 \in 1 .. Len(regex) + 1 PROVE Same(n + 1)
    OBVIOUS
  <2>2. PICK q \in 1 .. Len(regex) + 1 : q = n + 1
    BY <2>1
  <2>3. q > 1 => Same(q - 1)
    BY <1>2, <2>2
  <2>4. Same(q)
    BY <2>3, ClosureRule
  <2>5. QED
    BY <2>2, <2>4
<1>3. \A q \in 1 .. Len(regex) + 1 : Same(q)
  <2>1. Nat \subseteq S
    <3> HIDE DEF S
    <3>1. QED
      BY <1>1, <1>2, SetInduction
  <2>2. QED
    BY <2>1
<1>4. closure(regex, M) \in SUBSET (1 .. Len(regex) + 1)
  BY PlacesOfRegex
<1>5. QED
  BY <1>3, <1>4

\* The places in the regex that k characters of the text lead to; a greedy wildcard is
\* left only by the character behind it.
PlaceReached(reached, regex, q, k) ==
  k \in IF q <= Len(regex) /\ is_greedy_wildcard(regex[q]) THEN reached[q] ELSE reached[q - 1]
PlacesAt(reached, regex, k) ==
  {q \in 1 .. Len(regex) + 1 : PlaceReached(reached, regex, q, k)}

LEMMA FirstPlaces ==
  ASSUME NEW regex \in Seq(RegexCharacters), NEW text, Len(text) \in Nat,
         NEW r \in [0 .. Len(regex) -> SUBSET (0 .. Len(text))], Reaches(r, regex, text)
  PROVE  PlacesAt(r, regex, 0) = closure(regex, {1})
<1> DEFINE X == PlacesAt(r, regex, 0)
<1>1. ASSUME NEW q \in 1 .. Len(regex) + 1 PROVE q \in X <=> 0 \in r[q - 1]
  <2>1. CASE q <= Len(regex) /\ is_greedy_wildcard(regex[q])
    <3>1. q \in 1 .. Len(regex) /\ q - 1 \in 0 .. Len(regex)
      BY <2>1
    <3>2. 0 \in r[q] <=> \E k \in r[q - 1] : k <= 0
      BY <2>1, <3>1, ReachesRule
    <3>3. r[q - 1] \subseteq 0 .. Len(text)
      BY <3>1
    <3>4. (\E k \in r[q - 1] : k <= 0) <=> 0 \in r[q - 1]
      BY <3>3
    <3>5. QED
      BY <2>1, <3>2, <3>4 DEF PlacesAt, PlaceReached
  <2>2. CASE ~(q <= Len(regex) /\ is_greedy_wildcard(regex[q]))
    BY <2>2 DEF PlacesAt, PlaceReached
  <2>3. QED
    BY <2>1, <2>2
<1>2. ASSUME NEW q \in 1 .. Len(regex) + 1
      PROVE  q \in X <=> \/ q \in {1}
                         \/ q > 1 /\ is_greedy_wildcard(regex[q - 1]) /\ q - 1 \in X
  <2>1. CASE q = 1
    BY <1>1, <2>1, ReachesRule
  <2>2. CASE q # 1
    <3>1. PICK i \in 1 .. Len(regex) : i = q - 1
      BY <2>2
    <3>2. is_greedy_wildcard(regex[i]) => (i \in X <=> 0 \in r[i])
      BY <3>1 DEF PlacesAt, PlaceReached
    <3>3. ~is_greedy_wildcard(regex[i]) => 0 \notin r[i]
      BY ReachesRule
    <3>4. QED
      BY <1>1, <2>2, <3>1, <3>2, <3>3
  <2>3. QED
    BY <2>1, <2>2
<1>3. X \in SUBSET (1 .. Len(regex) + 1) /\ {1} \in SUBSET (1 .. Len(regex) + 1)
  BY DEF PlacesAt
<1>4. QED
  <2> HIDE DEF X
  <2>1. QED
    BY <1>2, <1>3, ClosureUnique

LEMMA NextPlaces ==
  ASSUME NEW regex \in Seq(RegexCharacters), NEW text, Len(text) \in Nat,
         NEW r \in [0 .. Len(regex) -> SUBSET (0 .. Len(text))], Reaches(r, regex, text),
         NEW k \in 1 .. Len(text)
  PROVE  PlacesAt(r, regex, k) = transition(regex, PlacesAt(r, regex, k - 1), text[k])
<1> DEFINE X == PlacesAt(r, regex, k)
           Y == PlacesAt(r, regex, k - 1)
<1>1. PICK here : here = {p \in Y : p <= Len(regex)}
  OBVIOUS
<1>2. PICK staying : staying = {p \in here : is_greedy_wildcard(regex[p])}
  OBVIOUS
<1>3. PICK passing : passing = {p \in here : \/ regex[p].type = "NonGreedyWildcard"
                                             \/ regex[p].type = "Normal" /\ regex[p].value = text[k]}
  OBVIOUS
<1>4. PICK M : M = staying \cup {p + 1 : p \in passing}
  OBVIOUS
<1>5. transition(regex, Y, text[k]) = closure(regex, M)
  BY <1>1, <1>2, <1>3, <1>4 DEF transition
<1>6. \A p \in here : p \in 1 .. Len(regex)
  BY <1>1 DEF PlacesAt
<1>7. M \in SUBSET (1 .. Len(regex) + 1)
  <2>1. \A p \in 1 .. Len(regex) : p \in 1 .. Len(regex) + 1 /\ p + 1 \in 1 .. Len(regex) + 1
    OBVIOUS
  <2>2. QED
    BY <1>2, <1>3, <1>4, <1>6, <2>1
<1>8. ASSUME NEW q \in 1 .. Len(regex) + 1
      PROVE  k \in r[q - 1]
               <=> \/ q > 1 /\ is_greedy_wildcard(regex[q - 1]) /\ q - 1 \in X
                   \/ q - 1 \in passing
  <2>1. CASE q = 1
    <3>1. r[0] = {0} /\ q - 1 = 0 /\ 0 \notin passing
      BY <1>3, <1>6, <2>1, ReachesRule
    <3>2. QED
      BY <2>1, <3>1
  <2>2. CASE q # 1
    <3>1. PICK i \in 1 .. Len(regex) : i = q - 1
      BY <2>2
    <3>2. regex[i] \in RegexCharacters
      OBVIOUS
    <3>3. CASE is_greedy_wildcard(regex[i])
      <4>1. i \in X <=> k \in r[i]
        BY <3>3 DEF PlacesAt, PlaceReached
      <4>2. i \notin passing
        BY <1>3, <3>3 DEF is_greedy_wildcard
      <4>3. QED
        BY <2>2, <3>1, <3>3, <4>1, <4>2
    <3>4. CASE ~is_greedy_wildcard(regex[i])
      <4>1. k \in r[i] <=> /\ k - 1 \in r[i - 1]
                           /\ is_wildcard(regex[i]) \/ regex[i].value = text[k]
        BY <3>4, ReachesRule
      <4>2. i \in Y <=> k - 1 \in r[i - 1]
        BY <3>4 DEF PlacesAt, PlaceReached
      <4>3. i \in here <=> i \in Y
        BY <1>1
      <4>4. (is_wildcard(regex[i]) \/ regex[i].value = text[k])
              <=> \/ regex[i].type = "NonGreedyWildcard"
                  \/ regex[i].type = "Normal" /\ regex[i].value = text[k]
        BY <3>2, <3>4 DEF is_wildcard, is_greedy_wildcard, RegexCharacters, Kinds
      <4>5. QED
        BY <1>3, <3>1, <3>4, <4>1, <4>2, <4>3, <4>4
    <3>5. QED
      BY <3>3, <3>4
  <2>3. QED
    BY <2>1, <2>2
<1>9. ASSUME NEW q \in 1 .. Len(regex) + 1
      PROVE  q \in X <=> k \in r[q - 1] \/ q \in staying
  <2>1. CASE q <= Len(regex) /\ is_greedy_wildcard(regex[q])
    <3>1. q \in 1 .. Len(regex) /\ q - 1 \in 0 .. Len(regex)
      BY <2>1
    <3>2. \A j \in 0 .. Len(text) : j \in r[q] <=> \E l \in r[q - 1] : l <= j
      BY <2>1, <3>1, ReachesRule
    <3>3. r[q - 1] \subseteq 0 .. Len(text)
      BY <3>1
    <3>4. k \in r[q] <=> k \in r[q - 1] \/ k - 1 \in r[q]
      <4>1. k \in 0 .. Len(text) /\ k - 1 \in 0 .. Len(text)
        OBVIOUS
      <4>2. \A l \in 0 .. Len(text) : l <= k <=> l = k \/ l <= k - 1
        OBVIOUS
      <4>3. QED
        BY <3>2, <3>3, <4>1, <4>2
    <3>5. q \in staying <=> k - 1 \in r[q]
      BY <1>1, <1>2, <2>1 DEF PlacesAt, PlaceReached
    <3>6. q \in X <=> k \in r[q]
      BY <2>1 DEF PlacesAt, PlaceReached
    <3>7. QED
      BY <3>4, <3>5, <3>6
  <2>2. CASE ~(q <= Len(regex) /\ is_greedy_wildcard(regex[q]))
    <3>1. q \notin staying
      BY <1>1, <1>2, <2>2
    <3>2. q \in X <=> k \in r[q - 1]
      BY <2>2 DEF PlacesAt, PlaceReached
    <3>3. QED
      BY <3>1, <3>2
  <2>3. QED
    BY <2>1, <2>2
<1>10. ASSUME NEW q \in 1 .. Len(regex) + 1
       PROVE  q \in X <=> \/ q \in M
                          \/ q > 1 /\ is_greedy_wildcard(regex[q - 1]) /\ q - 1 \in X
  <2>1. q \in M <=> q \in staying \/ q - 1 \in passing
    <3>1. \A p \in passing : p \in Int
      BY <1>3, <1>6
    <3>2. q - 1 \in passing => (q - 1) + 1 = q
      OBVIOUS
    <3>3. \A p \in Int : p + 1 = q => p = q - 1
      OBVIOUS
    <3>4. QED
      BY <1>4, <3>1, <3>2, <3>3
  <2>2. QED
    BY <1>8, <1>9, <2>1
<1>11. X \in SUBSET (1 .. Len(regex) + 1)
  BY DEF PlacesAt
<1>12. QED
  <2> HIDE DEF X
  <2>1. QED
    BY <1>5, <1>7, <1>10, <1>11, ClosureUnique

\* The text matches if it leads behind the last place.
LEMMA LastPlace ==
  ASSUME NEW regex \in Seq(RegexCharacters), NEW r, NEW k
  PROVE  Len(regex) + 1 \in PlacesAt(r, regex, k) <=> k \in r[Len(regex)]
<1>1. Len(regex) + 1 \in 1 .. Len(regex) + 1 /\ ~(Len(regex) + 1 <= Len(regex))
      /\ (Len(regex) + 1) - 1 = Len(regex)
  OBVIOUS
<1>2. QED
  BY <1>1 DEF PlacesAt, PlaceReached

\* state is what TypesOf defines: the states that each number of characters leads to.
Lexes(state, text) ==
  state = [k \in 0 .. Len(text) |->
    IF k = 0 THEN {get_dfa.root}
    ELSE {get_dfa.delta[q][text[k]] : q \in {p \in state[k - 1] : text[k] \in DOMAIN get_dfa.delta[p]}}]

LEMMA LexesExist ==
  ASSUME NEW text, Len(text) \in Nat
  PROVE  \E f : /\ Lexes(f, text)
                /\ f \in [0 .. Len(text) -> SUBSET DOMAIN get_dfa.delta]
                /\ TypesOf(text) = UNION {get_dfa.ids[q] : q \in f[Len(text)]}
<1> DEFINE D == 0 .. Len(text)
           R == SUBSET DOMAIN get_dfa.delta
           rank == [k \in D |-> k]
           Value(k, before) ==
             {get_dfa.delta[q][text[k]] : q \in {p \in before : text[k] \in DOMAIN get_dfa.delta[p]}}
           G == [k \in D |-> [f \in [D -> R] |-> IF k = 0 THEN {get_dfa.root} ELSE Value(k, f[k - 1])]]
<1>1. rank \in [D -> 0 .. Len(text)]
  OBVIOUS
<1>2. ASSUME NEW k \in D, k # 0 PROVE k - 1 \in D /\ rank[k - 1] < rank[k]
  BY <1>2
<1>3. \A k : \A before \in R : Value(k, before) \in R
  BY LexerAssumption DEF get_dfa
<1>4. {get_dfa.root} \in R
  BY LexerAssumption DEF get_dfa
<1>5. G \in [D -> [[D -> R] -> R]] /\ R # {}
  <2>1. ASSUME NEW k \in D, NEW f \in [D -> R]
        PROVE  (IF k = 0 THEN {get_dfa.root} ELSE Value(k, f[k - 1])) \in R
    <3>1. k # 0 => f[k - 1] \in R
      BY <1>2
    <3> HIDE DEF Value, R
    <3>2. QED
      BY <1>3, <1>4, <3>1
  <2> HIDE DEF Value, R
  <2>2. QED
    BY <1>4, <2>1
<1>6. ASSUME NEW k \in D, NEW f \in [D -> R], NEW g \in [D -> R],
             \A y \in D : rank[y] < rank[k] => f[y] = g[y]
      PROVE  G[k][f] = G[k][g]
  <2>1. k # 0 => f[k - 1] = g[k - 1]
    BY <1>2, <1>6
  <2> HIDE DEF Value
  <2>2. QED
    BY <2>1
<1>7. PICK h \in [D -> R] : h = [k \in D |-> G[k][h]]
  <2> HIDE DEF D, R, rank, G
  <2>1. Recurses(D, R, rank, Len(text), G)
    BY <1>1, <1>5, <1>6 DEF Recurses
  <2>2. QED
    BY <2>1, Recursion
<1>8. h = [k \in D |-> IF k = 0 THEN {get_dfa.root} ELSE Value(k, h[k - 1])]
  <2> HIDE DEF Value
  <2>1. QED
    BY <1>7
<1>9. Lexes(h, text)
  BY <1>8 DEF Lexes
<1>10. PICK f : Lexes(f, text) /\ TypesOf(text) = UNION {get_dfa.ids[q] : q \in f[Len(text)]}
  BY <1>9 DEF Lexes, TypesOf
<1>11. f \in [D -> R]
  <2>1. f = [k \in D |-> IF k = 0 THEN {get_dfa.root} ELSE Value(k, f[k - 1])]
    BY <1>10 DEF Lexes
  <2>2. DOMAIN f = D /\ f = [k \in D |-> f[k]]
    BY <2>1
  <2>3. f[0] \in R
    BY <1>4, <2>1
  <2>4. ASSUME NEW k \in Nat, k \in D => f[k] \in R PROVE k + 1 \in D => f[k + 1] \in R
    <3>1. SUFFICES ASSUME k + 1 \in D PROVE f[k + 1] \in R
      OBVIOUS
    <3>2. f[k] \in R /\ (k + 1) - 1 = k /\ k + 1 # 0
      BY <2>4, <3>1
    <3>3. f[k + 1] = Value(k + 1, f[k])
      <4> HIDE DEF Value, D
      <4>1. QED
        BY <2>1, <3>1, <3>2
    <3>4. QED
      <4> HIDE DEF Value, R
      <4>1. QED
        BY <1>3, <3>2, <3>3
  <2>5. \A k \in D : f[k] \in R
    <3> DEFINE S == {k \in Nat : k \in D => f[k] \in R}
    <3>1. 0 \in S /\ \A k \in Nat : k \in S => k + 1 \in S
      <4> HIDE DEF D, R
      <4>1. QED
        BY <2>3, <2>4
    <3>2. Nat \subseteq S
      <4> HIDE DEF S
      <4>1. QED
        BY <3>1, SetInduction
    <3>3. QED
      BY <3>2
  <2>6. QED
    BY <2>2, <2>5
<1>12. QED
  BY <1>10, <1>11

LexStep(states, c) ==
  {get_dfa.delta[q][c] : q \in {p \in states : c \in DOMAIN get_dfa.delta[p]}}

LEMMA LexesRule ==
  ASSUME NEW text, Len(text) \in Nat, NEW f, Lexes(f, text)
  PROVE  /\ f[0] = {get_dfa.root}
         /\ \A k \in 1 .. Len(text) : f[k] = LexStep(f[k - 1], text[k])
<1>1. \A k \in 1 .. Len(text) : k \in 0 .. Len(text) /\ k # 0
  OBVIOUS
<1>2. 0 \in 0 .. Len(text)
  OBVIOUS
<1>3. QED
  BY <1>1, <1>2 DEF Lexes, LexStep

\* A text leads through the pairs of the state that it leads the lexer to and the places
\* that it leads to in the regex.
LEMMA TraceIsRight ==
  ASSUME NEW regex \in Seq(RegexCharacters), NEW text, NEW a, Trace(regex, text, a),
         NEW f, Lexes(f, text),
         NEW r \in [0 .. Len(regex) -> SUBSET (0 .. Len(text))], Reaches(r, regex, text)
  PROVE  f[Len(text)] = {a[Len(text)].state1}
         /\ a[Len(text)].state2 = PlacesAt(r, regex, Len(text))
<1>0. Len(text) \in Nat
  BY DEF Trace
<1> DEFINE Right(k) == f[k] = {a[k].state1} /\ a[k].state2 = PlacesAt(r, regex, k)
           S == {k \in Nat : k <= Len(text) => Right(k)}
<1>1. 0 \in S
  <2>1. a[0].state1 = get_dfa.root /\ a[0].state2 = closure(regex, {1})
    BY DEF Trace, FirstPair
  <2>2. QED
    BY <1>0, <2>1, LexesRule, FirstPlaces
<1>2. ASSUME NEW n \in Nat, n \in S PROVE n + 1 \in S
  <2>1. SUFFICES ASSUME n + 1 <= Len(text) PROVE Right(n + 1)
    OBVIOUS
  <2>2. PICK k \in 1 .. Len(text) : k = n + 1 /\ k - 1 = n
    BY <1>0, <2>1
  <2>3. Right(k - 1)
    BY <1>2, <2>1, <2>2, <1>0
  <2>4. Reads(regex, a[k - 1], text[k], a[k])
    BY DEF Trace
  <2>5. f[k] = {a[k].state1}
    <3>1. f[k] = LexStep({a[k - 1].state1}, text[k])
      BY <1>0, <2>3, LexesRule
    <3>2. QED
      BY <2>4, <3>1 DEF Reads, LexStep
  <2>6. a[k].state2 = PlacesAt(r, regex, k)
    <3>1. a[k].state2 = transition(regex, a[k - 1].state2, text[k])
      BY <2>4 DEF Reads
    <3>2. PlacesAt(r, regex, k) = transition(regex, PlacesAt(r, regex, k - 1), text[k])
      BY <1>0, NextPlaces
    <3>3. QED
      BY <2>3, <3>1, <3>2
  <2>7. QED
    BY <2>2, <2>5, <2>6
<1>3. Len(text) \in S
  <2> HIDE DEF S
  <2>1. QED
    BY <1>0, <1>1, <1>2, SetInduction
<1>4. QED
  BY <1>0, <1>3

\* What leads both somewhere leads through the pairs.
LEMMA TraceExists ==
  ASSUME NEW regex \in Seq(RegexCharacters), NEW text \in Seq(Characters),
         NEW f \in [0 .. Len(text) -> SUBSET DOMAIN get_dfa.delta], Lexes(f, text),
         NEW r \in [0 .. Len(regex) -> SUBSET (0 .. Len(text))], Reaches(r, regex, text),
         f[Len(text)] # {}, PlacesAt(r, regex, Len(text)) # {}
  PROVE  \E a : Trace(regex, text, a)
<1> DEFINE X(k) == PlacesAt(r, regex, k)
<1>1. PICK n \in Nat : n = Len(text)
  OBVIOUS
<1>2. ASSUME NEW k \in 1 .. n
      PROVE  /\ f[k] = LexStep(f[k - 1], text[k])
             /\ X(k) = transition(regex, X(k - 1), text[k])
  <2>1. k \in 1 .. Len(text) /\ Len(text) \in Nat
    BY <1>1
  <2>2. X(k) = transition(regex, X(k - 1), text[k])
    BY <2>1, NextPlaces
  <2>3. QED
    BY <2>1, <2>2, LexesRule
<1>3. \A k \in 0 .. n : f[k] # {} /\ X(k) # {}
  <2> DEFINE Full(k) == f[k] # {} /\ X(k) # {}
             S == {d \in Nat : d <= n => Full(n - d)}
  <2>1. 0 \in S
    BY <1>1
  <2>2. ASSUME NEW d \in Nat, d \in S PROVE d + 1 \in S
    <3>1. SUFFICES ASSUME d + 1 <= n PROVE Full(n - (d + 1))
      OBVIOUS
    <3>2. PICK k \in 1 .. n : k = n - d /\ k - 1 = n - (d + 1)
      <4>1. n - d \in 1 .. n /\ (n - d) - 1 = n - (d + 1)
        BY <3>1
      <4>2. QED
        BY <4>1
    <3>3. Full(k)
      BY <2>2, <3>1, <3>2
    <3>4. f[k - 1] # {}
      BY <1>2, <3>3 DEF LexStep
    <3>5. transition(regex, {}, text[k]) = {}
      BY DEF transition, closure
    <3>6. X(k - 1) # {}
      BY <1>2, <3>3, <3>5
    <3>7. QED
      BY <3>2, <3>4, <3>6
  <2>3. Nat \subseteq S
    <3> HIDE DEF S
    <3>1. QED
      BY <2>1, <2>2, SetInduction
  <2>4. \A k \in 0 .. n : n - k \in Nat /\ n - (n - k) = k /\ n - k <= n
    OBVIOUS
  <2>5. QED
    BY <2>3, <2>4
<1>4. PICK s : s = [k \in 0 .. n |-> CHOOSE q : q \in f[k]]
  OBVIOUS
<1>5. \A k \in 0 .. n : s[k] \in f[k] /\ s[k] \in DOMAIN get_dfa.delta
  BY <1>1, <1>3, <1>4
<1>6. \A k \in 0 .. n : f[k] = {s[k]}
  <2> DEFINE S == {k \in Nat : k <= n => f[k] = {s[k]}}
  <2>1. 0 \in S
    BY <1>1, <1>5, LexesRule
  <2>2. ASSUME NEW m \in Nat, m \in S PROVE m + 1 \in S
    <3>1. SUFFICES ASSUME m + 1 <= n PROVE f[m + 1] = {s[m + 1]}
      OBVIOUS
    <3>2. PICK k \in 1 .. n : k = m + 1 /\ k - 1 = m
      BY <3>1
    <3>3. f[k - 1] = {s[k - 1]} /\ s[k] \in f[k]
      BY <1>5, <2>2, <3>1, <3>2
    <3>4. f[k] = LexStep({s[k - 1]}, text[k])
      BY <1>2, <3>3
    <3>5. QED
      BY <3>2, <3>3, <3>4 DEF LexStep
  <2>3. Nat \subseteq S
    <3> HIDE DEF S
    <3>1. QED
      BY <2>1, <2>2, SetInduction
  <2>4. QED
    BY <2>3
<1>7. PICK a : a = [k \in 0 .. n |-> [state1 |-> s[k], state2 |-> X(k)]]
  OBVIOUS
<1>8. a \in [0 .. n -> Pairs(regex)]
  BY <1>5, <1>7 DEF Pairs, PlacesAt
<1>9. a[0] = FirstPair(regex)
  <2>1. s[0] = get_dfa.root
    <3>1. f[0] = {get_dfa.root}
      BY <1>1, LexesRule
    <3>2. s[0] \in f[0]
      BY <1>5
    <3>3. QED
      BY <3>1, <3>2
  <2>2. X(0) = closure(regex, {1})
    BY FirstPlaces
  <2>3. 0 \in 0 .. n
    OBVIOUS
  <2>4. QED
    BY <1>7, <2>1, <2>2, <2>3 DEF FirstPair
<1>10. ASSUME NEW k \in 1 .. n PROVE Reads(regex, a[k - 1], text[k], a[k])
  <2>1. k \in 0 .. n /\ k - 1 \in 0 .. n
    OBVIOUS
  <2>2. f[k] = LexStep({s[k - 1]}, text[k])
    BY <1>2, <1>6, <2>1
  <2>3. text[k] \in DOMAIN get_dfa.delta[s[k - 1]] /\ s[k] = get_dfa.delta[s[k - 1]][text[k]]
    BY <1>5, <2>1, <2>2 DEF LexStep
  <2>4. /\ a[k - 1].state1 = s[k - 1] /\ a[k - 1].state2 = X(k - 1)
        /\ a[k] = [state1 |-> s[k], state2 |-> X(k)]
    BY <1>7, <2>1
  <2>5. X(k) # {} /\ X(k) = transition(regex, X(k - 1), text[k])
    BY <1>2, <1>3, <2>1
  <2>6. text[k] \in Characters
    BY <1>1
  <2> HIDE DEF X
  <2>7. QED
    BY <2>3, <2>4, <2>5, <2>6 DEF Reads
<1>11. QED
  BY <1>1, <1>8, <1>9, <1>10 DEF Trace

\* The types that get_matching_variable_types finds are those of the texts that both
\* the lexer's automaton and the regex accept.
LEMMA MatchingTypes ==
  ASSUME NEW regex \in Seq(RegexCharacters), NEW type
  PROVE  type \in get_matching_variable_types(regex)
           <=> \E text \in Seq(Characters) : type \in TypesOf(text) /\ Matches(regex, text)
<1>1. ASSUME type \in get_matching_variable_types(regex)
      PROVE  \E text \in Seq(Characters) : type \in TypesOf(text) /\ Matches(regex, text)
  <2>1. PICK pair \in visited_pairs(regex) :
          is_accepting(regex, pair) /\ type \in get_dfa.ids[pair.state1]
    BY <1>1 DEF get_matching_variable_types
  <2>2. PICK text, a : Trace(regex, text, a) /\ a[Len(text)] = pair
    BY <2>1, VisitedByText
  <2>3. text \in Seq(Characters) /\ Len(text) \in Nat
    BY <2>2 DEF Trace
  <2>4. PICK f : Lexes(f, text) /\ TypesOf(text) = UNION {get_dfa.ids[q] : q \in f[Len(text)]}
    BY <2>3, LexesExist
  <2>5. PICK r \in [0 .. Len(regex) -> SUBSET (0 .. Len(text))] :
          Reaches(r, regex, text) /\ (Matches(regex, text) <=> Len(text) \in r[Len(regex)])
    BY <2>3, ReachesExist
  <2>6. f[Len(text)] = {pair.state1} /\ pair.state2 = PlacesAt(r, regex, Len(text))
    BY <2>2, <2>4, <2>5, TraceIsRight
  <2>7. type \in TypesOf(text)
    BY <2>1, <2>4, <2>6
  <2>8. Matches(regex, text)
    BY <2>1, <2>5, <2>6, LastPlace DEF is_accepting
  <2>9. QED
    BY <2>3, <2>7, <2>8
<1>2. ASSUME NEW text \in Seq(Characters), type \in TypesOf(text), Matches(regex, text)
      PROVE  type \in get_matching_variable_types(regex)
  <2>1. PICK f \in [0 .. Len(text) -> SUBSET DOMAIN get_dfa.delta] :
          Lexes(f, text) /\ TypesOf(text) = UNION {get_dfa.ids[q] : q \in f[Len(text)]}
    BY LexesExist
  <2>2. PICK r \in [0 .. Len(regex) -> SUBSET (0 .. Len(text))] :
          Reaches(r, regex, text) /\ (Matches(regex, text) <=> Len(text) \in r[Len(regex)])
    BY ReachesExist
  <2>3. PICK q \in f[Len(text)] : type \in get_dfa.ids[q]
    BY <1>2, <2>1
  <2>4. Len(regex) + 1 \in PlacesAt(r, regex, Len(text))
    BY <1>2, <2>2, LastPlace
  <2>5. PICK a : Trace(regex, text, a)
    BY <2>1, <2>2, <2>3, <2>4, TraceExists
  <2>6. f[Len(text)] = {a[Len(text)].state1}
        /\ a[Len(text)].state2 = PlacesAt(r, regex, Len(text))
    BY <2>1, <2>2, <2>5, TraceIsRight
  <2>7. a[Len(text)] \in visited_pairs(regex)
    BY <2>5, VisitedByText
  <2>8. is_accepting(regex, a[Len(text)]) /\ type \in get_dfa.ids[a[Len(text)].state1]
    BY <2>3, <2>4, <2>6 DEF is_accepting
  <2>9. QED
    BY <2>7, <2>8 DEF get_matching_variable_types
<1>3. QED
  BY <1>1, <1>2

-----------------------------------------------------------------------------
(***************************************************************************)
(* The types of the interpretations.                                       *)
(***************************************************************************)
IsView(e, view) ==
  /\ view.begin \in 0 .. Len(e)
  /\ view.end \in 0 .. Len(e)
  /\ view.begin <= view.end

LEMMA ExtendedView ==
  ASSUME NEW e, Len(e) \in Nat, NEW view, IsView(e, view)
  PROVE  LET extended == extend_to_adjacent_greedy_wildcards(e, view)
         IN IsView(e, extended) /\ extended.begin <= view.begin /\ view.end <= extended.end
BY DEF IsView, extend_to_adjacent_greedy_wildcards

LEMMA CharsOfView ==
  ASSUME NEW e \in Seq(ExpressionCharacters), NEW view, IsView(e, view)
  PROVE  /\ chars(e, view) \in Seq(ExpressionCharacters)
         /\ Len(chars(e, view)) = view.end - view.begin
         /\ \A k \in 1 .. view.end - view.begin : chars(e, view)[k] = e[view.begin + k]
         /\ get_search_string(e, view) \in Seq(STRING)
         /\ Len(get_search_string(e, view)) = view.end - view.begin
         /\ \A k \in 1 .. view.end - view.begin :
              get_search_string(e, view)[k] = e[view.begin + k].value
<1>1. PICK b \in 0 .. Len(e), n \in 0 .. Len(e) :
        b = view.begin /\ n = view.end /\ b <= n
  BY DEF IsView
<1>2. chars(e, view) = SubSeq(e, b + 1, n)
  BY <1>1 DEF chars
<1>3. \A k \in b + 1 .. n : k \in 1 .. Len(e)
  OBVIOUS
<1>4. /\ SubSeq(e, b + 1, n) \in Seq(ExpressionCharacters)
      /\ Len(SubSeq(e, b + 1, n)) = n - b
      /\ \A k \in 1 .. n - b : SubSeq(e, b + 1, n)[k] = e[b + k]
  <2>1. n - b \in Nat
    BY <1>1
  <2>2. Len(SubSeq(e, b + 1, n)) = n - b
    BY <1>1, <1>3, SubSeqProperties
  <2>3. \A k \in 1 .. n - b : (b + 1) + k - 1 = b + k
    OBVIOUS
  <2>4. SubSeq(e, b + 1, n) \in Seq(ExpressionCharacters)
    BY <1>3, SubSeqProperties
  <2>5. ASSUME NEW k \in 1 .. n - b PROVE SubSeq(e, b + 1, n)[k] = e[b + k]
    <3>1. k \in 1 .. (n - (b + 1)) + 1
      OBVIOUS
    <3>2. SubSeq(e, b + 1, n)[k] = e[(b + 1) + k - 1]
      BY <1>3, <3>1, SubSeqProperties
    <3>3. QED
      BY <2>3, <3>2
  <2>6. QED
    BY <2>2, <2>4, <2>5
<1>5. PICK cs \in Seq(ExpressionCharacters) : cs = chars(e, view) /\ Len(cs) = n - b
  BY <1>2, <1>4
<1>6. /\ search_string_of(cs) \in Seq(STRING)
      /\ Len(search_string_of(cs)) = n - b
      /\ \A k \in 1 .. n - b : search_string_of(cs)[k] = cs[k].value
  <2>1. DOMAIN cs = 1 .. n - b /\ n - b \in Nat
    BY <1>1, <1>5
  <2>2. \A k \in 1 .. n - b : cs[k].value \in STRING
    <3>1. \A k \in 1 .. n - b : cs[k] \in ExpressionCharacters
      BY <1>5, <2>1
    <3>2. QED
      BY <3>1 DEF ExpressionCharacters
  <2>3. QED
    BY <2>1, <2>2 DEF search_string_of
<1>7. QED
  BY <1>1, <1>2, <1>4, <1>5, <1>6 DEF get_search_string

LEMMA RegexOfView ==
  ASSUME NEW e \in Seq(ExpressionCharacters), NEW view, IsView(e, view)
  PROVE  generate_regex_string(e, view) \in Seq(RegexCharacters)
<1>1. PICK cs \in Seq(ExpressionCharacters) : cs = chars(e, view)
  BY CharsOfView
<1>2. PICK P : P = {k \in DOMAIN cs : ~is_escape(cs[k])}
  OBVIOUS
<1>3. \A k \in P \cap DOMAIN cs : cs[k] \in RegexCharacters
  <2>1. \A k \in DOMAIN cs : cs[k] \in ExpressionCharacters
    OBVIOUS
  <2>2. \A c \in ExpressionCharacters : ~is_escape(c) => c \in RegexCharacters
    BY DEF is_escape, ExpressionCharacters, RegexCharacters
  <2>3. QED
    BY <1>2, <2>1, <2>2
<1>4. AtPlaces(cs, P) \in Seq(RegexCharacters)
  BY <1>3, AtPlacesMembers
<1>5. QED
  BY <1>1, <1>2, <1>4 DEF generate_regex_string, WithoutEscapes

\* An interpretation of a view is one token, which has the text of the view with the
\* wildcards next to it.
TextOf(e, view) ==
  IF get_search_string(e, view) = <<Star>> THEN <<Star>>
  ELSE get_search_string(e, extend_to_adjacent_greedy_wildcards(e, view))

LEMMA TypesAreInts ==
  ASSUME NEW regex \in Seq(RegexCharacters)
  PROVE  get_matching_variable_types(regex) \subseteq Int
<1>1. visited_pairs(regex) \subseteq Pairs(regex)
  BY VisitedAreReached DEF Least
<1>2. \A p \in Pairs(regex) : get_dfa.ids[p.state1] \subseteq Int
  BY LexerAssumption DEF Pairs, get_dfa
<1>3. QED
  BY <1>1, <1>2 DEF get_matching_variable_types

LEMMA SingleTokens ==
  ASSUME NEW e \in Seq(ExpressionCharacters), NEW view, IsView(e, view),
         NEW s \in get_all_single_token_interpretations(e, view)
  PROVE  /\ is_well_formed(e, view)
         /\ \E token \in Tokens : s = <<token>> /\ token.text = TextOf(e, view)
<1>1. PICK x : x = extend_to_adjacent_greedy_wildcards(e, view)
  OBVIOUS
<1>2. IsView(e, x)
  BY <1>1, ExtendedView
<1>3. PICK text \in Seq(STRING) : text = get_search_string(e, x)
  BY <1>2, CharsOfView
<1>4. PICK regex \in Seq(RegexCharacters) : regex = generate_regex_string(e, x)
  BY <1>2, RegexOfView
<1>5. PICK types \in SUBSET Int : types = get_matching_variable_types(regex)
  BY TypesAreInts
<1>6. PICK wild \in BOOLEAN : wild = contains_wildcard(regex)
  BY DEF contains_wildcard
<1>7. is_well_formed(e, view)
  BY DEF get_all_single_token_interpretations
<1>8. CASE get_search_string(e, view) = <<Star>>
  <2>1. s = <<StaticQueryToken(<<Star>>)>>
    BY <1>7, <1>8 DEF get_all_single_token_interpretations
  <2>2. StaticQueryToken(<<Star>>) \in Tokens /\ StaticQueryToken(<<Star>>).text = <<Star>>
    <3>1. <<Star>> \in Seq(STRING)
      BY <1>8, CharsOfView
    <3>2. QED
      BY <3>1 DEF StaticQueryToken, Tokens
  <2>3. QED
    BY <1>7, <1>8, <2>1, <2>2 DEF TextOf
<1>9. CASE get_search_string(e, view) # <<Star>>
  <2>1. s = <<StaticQueryToken(text)>> \/ \E t \in types : s = <<VariableQueryToken(t, text, wild)>>
    BY <1>1, <1>3, <1>4, <1>5, <1>6, <1>7, <1>9 DEF get_all_single_token_interpretations
  <2>2. StaticQueryToken(text) \in Tokens /\ StaticQueryToken(text).text = text
    BY DEF StaticQueryToken, Tokens
  <2>3. \A t \in types : /\ VariableQueryToken(t, text, wild) \in Tokens
                         /\ VariableQueryToken(t, text, wild).text = text
    BY DEF VariableQueryToken, Tokens
  <2>4. TextOf(e, view) = text
    BY <1>1, <1>3, <1>9 DEF TextOf
  <2>5. QED
    BY <1>7, <2>1, <2>2, <2>3, <2>4
<1>10. QED
  BY <1>8, <1>9

\* A token is appended, or its text to that of the last one if both are static.
LEMMA AppendedToken ==
  ASSUME NEW prefix \in Seq(Tokens), NEW token \in Tokens
  PROVE  IF prefix # << >> /\ Last(prefix).kind = "static" /\ token.kind = "static"
         THEN append_query_interpretation(prefix, <<token>>)
                = Append(Front(prefix), StaticQueryToken(Last(prefix).text \o token.text))
         ELSE append_query_interpretation(prefix, <<token>>) = Append(prefix, token)
<1>1. <<token>> # << >> /\ <<token>>[1] = token /\ Tail(<<token>>) = << >>
  OBVIOUS
<1>2. prefix \o <<token>> = Append(prefix, token)
  OBVIOUS
<1>3. CASE prefix # << >> /\ Last(prefix).kind = "static" /\ token.kind = "static"
  <2>1. PICK merged : merged = StaticQueryToken(Last(prefix).text \o token.text)
    OBVIOUS
  <2>2. prefix[Len(prefix)] \in Tokens
    BY <1>3
  <2>3. merged \in Tokens
    <3>1. Last(prefix).text \in Seq(STRING) /\ token.text \in Seq(STRING)
      BY <2>2 DEF Last, Tokens
    <3>2. Last(prefix).text \o token.text \in Seq(STRING)
      BY <3>1
    <3>3. QED
      BY <2>1, <3>2 DEF StaticQueryToken, Tokens
  <2>4. Front(prefix) \in Seq(Tokens)
    BY <1>3 DEF Front
  <2>5. (Front(prefix) \o <<merged>>) \o << >> = Append(Front(prefix), merged)
    BY <2>3, <2>4
  <2>6. QED
    BY <1>1, <1>3, <2>1, <2>5 DEF append_query_interpretation
<1>4. CASE ~(prefix # << >> /\ Last(prefix).kind = "static" /\ token.kind = "static")
  BY <1>1, <1>2, <1>4 DEF append_query_interpretation
<1>5. QED
  BY <1>3, <1>4

LEMMA AppendedIsTyped ==
  ASSUME NEW prefix \in Seq(Tokens), NEW token \in Tokens
  PROVE  append_query_interpretation(prefix, <<token>>) \in Seq(Tokens)
<1>1. CASE prefix # << >> /\ Last(prefix).kind = "static" /\ token.kind = "static"
  <2>1. prefix[Len(prefix)] \in Tokens
    BY <1>1
  <2>2. Last(prefix).text \in Seq(STRING) /\ token.text \in Seq(STRING)
    BY <2>1 DEF Last, Tokens
  <2>3. Last(prefix).text \o token.text \in Seq(STRING)
    BY <2>2
  <2>4. StaticQueryToken(Last(prefix).text \o token.text) \in Tokens
    BY <2>3 DEF StaticQueryToken, Tokens
  <2>5. Front(prefix) \in Seq(Tokens)
    BY <1>1 DEF Front
  <2>6. Append(Front(prefix), StaticQueryToken(Last(prefix).text \o token.text)) \in Seq(Tokens)
    BY <2>4, <2>5
  <2>7. QED
    BY <1>1, <2>6, AppendedToken
<1>2. CASE ~(prefix # << >> /\ Last(prefix).kind = "static" /\ token.kind = "static")
  BY <1>2, AppendedToken
<1>3. QED
  BY <1>1, <1>2

\* What the body of the loops adds.
LEMMA AddedInterpretations ==
  ASSUME TypeOK, InterpretView
  PROVE  LET e == Expression(m_processed_query_string)
             view == [begin |-> begin_idx, end |-> end_idx]
         IN /\ begin_idx \in Nat /\ end_idx \in 1 .. Len(m_processed_query_string)
            /\ begin_idx < end_idx
            /\ e \in Seq(ExpressionCharacters) /\ IsView(e, view)
            /\ \A k \in DOMAIN query_interpretations : k # end_idx =>
                 query_interpretations'[k] = query_interpretations[k]
            /\ DOMAIN query_interpretations' = DOMAIN query_interpretations
            /\ \A i \in query_interpretations'[end_idx] :
                 \/ i \in query_interpretations[end_idx]
                 \/ \E prefix \in IF begin_idx = 0 THEN {<< >>} ELSE query_interpretations[begin_idx],
                       s \in get_all_single_token_interpretations(e, view) :
                      /\ i = append_query_interpretation(prefix, s)
                      /\ get_search_string(e, view) = <<Star>>
                         \/ ~starts_or_ends_with_greedy_wildcard(chars(e, view))
<1>1. PICK e \in Seq(ExpressionCharacters) :
        e = Expression(m_processed_query_string) /\ Len(e) = Len(m_processed_query_string)
  BY ExpressionRule DEF TypeOK
<1>2. PICK view : view = [begin |-> begin_idx, end |-> end_idx]
  OBVIOUS
<1>3. begin_idx \in Nat /\ end_idx \in 1 .. Len(e) /\ begin_idx < end_idx
  BY <1>1 DEF TypeOK, InterpretView
<1>4. IsView(e, view)
  BY <1>2, <1>3 DEF IsView
<1>5. PICK skipped \in BOOLEAN :
        skipped = (/\ get_search_string(e, view) # <<Star>>
                   /\ starts_or_ends_with_greedy_wildcard(chars(e, view)))
  OBVIOUS
<1>6. PICK suffixes :
        suffixes = IF skipped THEN {} ELSE get_all_single_token_interpretations(e, view)
  OBVIOUS
<1>7. PICK prefixes :
        prefixes = IF begin_idx = 0 THEN {<< >>} ELSE query_interpretations[begin_idx]
  OBVIOUS
<1>8. query_interpretations' =
        [query_interpretations EXCEPT ![end_idx] = @ \cup
           {append_query_interpretation(p, s) : p \in prefixes, s \in suffixes}]
  BY <1>1, <1>2, <1>5, <1>6, <1>7 DEF InterpretView
<1>9. end_idx \in DOMAIN query_interpretations
  BY <1>1, <1>3 DEF TypeOK
<1>10. query_interpretations'[end_idx] = query_interpretations[end_idx] \cup
         {append_query_interpretation(p, s) : p \in prefixes, s \in suffixes}
  BY <1>8, <1>9
<1>11. \A i \in query_interpretations'[end_idx] :
         \/ i \in query_interpretations[end_idx]
         \/ \E prefix \in prefixes, s \in get_all_single_token_interpretations(e, view) :
              /\ i = append_query_interpretation(prefix, s)
              /\ get_search_string(e, view) = <<Star>>
                 \/ ~starts_or_ends_with_greedy_wildcard(chars(e, view))
  BY <1>5, <1>6, <1>10
<1>12. /\ DOMAIN query_interpretations' = DOMAIN query_interpretations
       /\ \A k \in DOMAIN query_interpretations : k # end_idx =>
            query_interpretations'[k] = query_interpretations[k]
  BY <1>8
<1>13. QED
  BY <1>1, <1>2, <1>3, <1>4, <1>7, <1>11, <1>12

LEMMA CollapsedString ==
  ASSUME NEW s \in Seq(STRING)
  PROVE  collapsed(s) \in Seq(STRING)
<1>1. \A P : AtPlaces(s, P) \in Seq(STRING)
  <2>1. TAKE P
  <2>2. \A k \in P \cap DOMAIN s : s[k] \in STRING
    OBVIOUS
  <2>3. QED
    BY <2>2, AtPlacesMembers
<1>2. QED
  BY <1>1 DEF collapsed

LEMMA InitTypeOK == Init => TypeOK
<1>1. SUFFICES ASSUME Init PROVE TypeOK
  OBVIOUS
<1>2. PICK query_string \in Queries :
        LET processed == collapsed(query_string) IN
        /\ m_processed_query_string = processed
        /\ query_interpretations = [k \in 1 .. Len(processed) |-> {}]
        /\ begin_idx = 0
        /\ end_idx = IF processed = << >> THEN 0 ELSE 1
        /\ pc = IF processed = << >> THEN "done" ELSE "loop"
  BY <1>1 DEF Init
<1>3. m_processed_query_string \in Seq(STRING)
  BY <1>2, QueryAssumption, CollapsedString
<1>4. PICK n \in Nat : n = Len(m_processed_query_string)
  BY <1>3
<1>5. m_processed_query_string # << >> => n >= 1
  BY <1>3, <1>4
<1>6. QED
  BY <1>2, <1>3, <1>4, <1>5 DEF TypeOK

LEMMA NextTypeOK == TypeOK /\ [Next]_vars => TypeOK'
<1>1. SUFFICES ASSUME TypeOK, [Next]_vars PROVE TypeOK'
  OBVIOUS
<1>2. PICK n \in Nat : n = Len(m_processed_query_string)
  BY <1>1 DEF TypeOK
<1>3. CASE InterpretView
  <2>1. /\ begin_idx \in Nat /\ end_idx \in 1 .. n /\ begin_idx < end_idx
        /\ DOMAIN query_interpretations' = DOMAIN query_interpretations
    BY <1>1, <1>2, <1>3, AddedInterpretations
  <2>2. begin_idx \in DOMAIN query_interpretations \/ begin_idx = 0
    BY <1>1, <1>2, <2>1 DEF TypeOK
  <2>3. \A prefix \in IF begin_idx = 0 THEN {<< >>} ELSE query_interpretations[begin_idx] :
          prefix \in Seq(Tokens)
    <3>1. << >> \in Seq(Tokens)
      OBVIOUS
    <3>2. begin_idx # 0 => query_interpretations[begin_idx] \subseteq Seq(Tokens)
      BY <1>1, <2>2 DEF TypeOK
    <3>3. QED
      BY <3>1, <3>2
  <2>4. ASSUME NEW i \in query_interpretations'[end_idx] PROVE i \in Seq(Tokens)
    <3>1. CASE i \in query_interpretations[end_idx]
      BY <1>1, <1>2, <2>1, <3>1 DEF TypeOK
    <3>2. CASE i \notin query_interpretations[end_idx]
      <4>1. PICK e, view :
              /\ e \in Seq(ExpressionCharacters) /\ IsView(e, view)
              /\ \E prefix \in IF begin_idx = 0 THEN {<< >>} ELSE query_interpretations[begin_idx],
                    s \in get_all_single_token_interpretations(e, view) :
                   i = append_query_interpretation(prefix, s)
        BY <1>1, <1>3, <3>2, AddedInterpretations
      <4>2. PICK prefix \in Seq(Tokens), s \in get_all_single_token_interpretations(e, view) :
              i = append_query_interpretation(prefix, s)
        BY <2>3, <4>1
      <4>3. PICK token \in Tokens : s = <<token>>
        BY <4>1, SingleTokens
      <4>4. QED
        BY <4>2, <4>3, AppendedIsTyped
    <3>3. QED
      BY <3>1, <3>2
  <2>5. \A k \in DOMAIN query_interpretations : query_interpretations'[k] \subseteq Seq(Tokens)
    <3>1. TAKE k \in DOMAIN query_interpretations
    <3>2. CASE k = end_idx
      BY <2>4, <3>2
    <3>3. CASE k # end_idx
      BY <1>1, <1>3, <3>3, AddedInterpretations DEF TypeOK
    <3>4. QED
      BY <3>2, <3>3
  <2>6. /\ begin_idx' = begin_idx + 1
        /\ UNCHANGED <<m_processed_query_string, end_idx, pc>>
    BY <1>3 DEF InterpretView
  <2>7. QED
    BY <1>1, <1>2, <2>1, <2>5, <2>6 DEF TypeOK
<1>4. CASE NextEnd
  BY <1>1, <1>2, <1>4 DEF NextEnd, TypeOK
<1>5. CASE ReturnInterpretations
  BY <1>1, <1>5 DEF ReturnInterpretations, TypeOK
<1>6. CASE UNCHANGED vars
  BY <1>1, <1>6 DEF vars, TypeOK
<1>7. QED
  BY <1>1, <1>3, <1>4, <1>5, <1>6 DEF Next

\* Every interpretation is a sequence of tokens, a variable's type is one of the lexer's,
\* and the loops of get_all_multi_token_interpretations stay within the query and the
\* table.
THEOREM TypeCorrect == Spec => []TypeOK
<1>1. QED
  BY InitTypeOK, NextTypeOK, PTL DEF Spec

LEMMA ExactTypes ==
  ASSUME Texts = Seq(Characters), NEW regex \in Seq(RegexCharacters)
  PROVE  get_matching_variable_types(regex)
           = UNION {VariableTypes[text] : text \in {t \in DOMAIN VariableTypes : Matches(regex, t)}}
<1>1. /\ DOMAIN VariableTypes = {t \in Seq(Characters) : TypesOf(t) # {}}
      /\ \A t \in DOMAIN VariableTypes : VariableTypes[t] = TypesOf(t)
  BY DEF VariableTypes
<1>2. \A type : type \in get_matching_variable_types(regex)
                  <=> \E t \in DOMAIN VariableTypes : Matches(regex, t) /\ type \in VariableTypes[t]
  BY <1>1, MatchingTypes
<1>3. QED
  BY <1>2

LEMMA RegexesAskedTyped ==
  ASSUME TypeOK
  PROVE  RegexesAsked \subseteq Seq(RegexCharacters)
<1>1. PICK e \in Seq(ExpressionCharacters) :
        e = Expression(m_processed_query_string) /\ Len(e) = Len(m_processed_query_string)
  BY ExpressionRule DEF TypeOK
<1>2. ASSUME NEW b \in {begin_idx} \cap 0 .. end_idx - 1
      PROVE  LET view == [begin |-> b, end |-> end_idx]
             IN generate_regex_string(e, extend_to_adjacent_greedy_wildcards(e, view))
                  \in Seq(RegexCharacters)
  <2>1. PICK view : view = [begin |-> b, end |-> end_idx]
    OBVIOUS
  <2>2. end_idx \in 0 .. Len(e) /\ b \in 0 .. Len(e) /\ b <= end_idx
    BY <1>1 DEF TypeOK
  <2>3. IsView(e, view)
    BY <2>1, <2>2 DEF IsView
  <2>4. IsView(e, extend_to_adjacent_greedy_wildcards(e, view))
    BY <2>3, ExtendedView
  <2>5. QED
    BY <2>1, <2>4, RegexOfView
<1>3. QED
  BY <1>1, <1>2 DEF RegexesAsked

\* get_intersect, asked about any view of any query, answers with exactly the types of
\* the variables that the wildcards of the view match: no type is missed however often
\* the lexer's automaton has to go round for it, and none is found of which there is no
\* text.  Texts stands for all that a log may hold.
THEOREM IntersectionsAreExact ==
  ASSUME Texts = Seq(Characters)
  PROVE  Spec => []IntersectIsExact
<1>1. TypeOK => IntersectIsExact
  BY RegexesAskedTyped, ExactTypes DEF IntersectIsExact
<1>2. QED
  BY <1>1, InitTypeOK, NextTypeOK, PTL DEF Spec

-----------------------------------------------------------------------------
(***************************************************************************)
(* The text that the tokens of an interpretation spell.                    *)
(***************************************************************************)
\* The characters of strings.
Letters == STRING
Strings == Seq(Letters)

LEMMA StringsJoin == << >> \in Strings /\ \A s, t \in Strings : s \o t \in Strings
BY DEF Strings

\* flatten is what FlattenSeq defines.
Flattens(flatten, ts) ==
  flatten = [i \in 1 .. Len(ts) |-> IF i = 1 THEN ts[i] ELSE flatten[i - 1] \o ts[i]]

LEMMA FlattenExists ==
  ASSUME NEW ts \in Seq(Strings), ts # << >>
  PROVE  \E f : Flattens(f, ts) /\ FlattenSeq(ts) = f[Len(ts)]
<1> DEFINE D == 1 .. Len(ts)
           R == Strings
           rank == [k \in D |-> k]
           G == [k \in D |-> [f \in [D -> R] |-> IF k = 1 THEN ts[k] ELSE f[k - 1] \o ts[k]]]
<1>1. rank \in [D -> 0 .. Len(ts)] /\ Len(ts) \in Nat /\ Len(ts) # 0
  OBVIOUS
<1>2. ASSUME NEW k \in D, k # 1 PROVE k - 1 \in D /\ rank[k - 1] < rank[k]
  BY <1>2
<1>3. G \in [D -> [[D -> R] -> R]] /\ R # {}
  <2>1. ASSUME NEW k \in D, NEW f \in [D -> R]
        PROVE  (IF k = 1 THEN ts[k] ELSE f[k - 1] \o ts[k]) \in R
    <3>1. ts[k] \in R
      OBVIOUS
    <3>2. k # 1 => f[k - 1] \in R
      BY <1>2
    <3>3. QED
      BY <3>1, <3>2, StringsJoin
  <2>2. << >> \in R
    BY StringsJoin
  <2>3. QED
    BY <2>1, <2>2
<1>4. ASSUME NEW k \in D, NEW f \in [D -> R], NEW g \in [D -> R],
             \A y \in D : rank[y] < rank[k] => f[y] = g[y]
      PROVE  G[k][f] = G[k][g]
  <2>1. k # 1 => f[k - 1] = g[k - 1]
    BY <1>2, <1>4
  <2>2. QED
    BY <2>1
<1>5. PICK h \in [D -> R] : h = [k \in D |-> G[k][h]]
  <2> HIDE DEF D, R, rank, G
  <2>1. Recurses(D, R, rank, Len(ts), G)
    BY <1>1, <1>3, <1>4 DEF Recurses
  <2>2. QED
    BY <2>1, Recursion
<1>6. Flattens(h, ts)
  BY <1>5 DEF Flattens
<1>7. QED
  BY <1>1, <1>6 DEF Flattens, FlattenSeq

LEMMA FlattensRule ==
  ASSUME NEW ts \in Seq(Strings), NEW f, Flattens(f, ts)
  PROVE  \A i \in 1 .. Len(ts) :
           f[i] \in Strings /\ f[i] = IF i = 1 THEN ts[i] ELSE f[i - 1] \o ts[i]
<1>1. \A i \in 1 .. Len(ts) : f[i] = IF i = 1 THEN ts[i] ELSE f[i - 1] \o ts[i]
  BY DEF Flattens
<1> DEFINE S == {i \in Nat : i \in 1 .. Len(ts) => f[i] \in Strings}
<1>2. 0 \in S
  OBVIOUS
<1>3. ASSUME NEW n \in Nat, n \in S PROVE n + 1 \in S
  <2>1. SUFFICES ASSUME n + 1 \in 1 .. Len(ts) PROVE f[n + 1] \in Strings
    OBVIOUS
  <2>2. ts[n + 1] \in Strings
    BY <2>1
  <2>3. PICK i \in 1 .. Len(ts) : i = n + 1 /\ i - 1 = n
    BY <2>1
  <2>4. i # 1 => f[i - 1] \in Strings
    BY <1>3, <2>3
  <2>5. QED
    BY <1>1, <2>2, <2>3, <2>4, StringsJoin
<1>4. Nat \subseteq S
  <2> HIDE DEF S
  <2>1. QED
    BY <1>2, <1>3, SetInduction
<1>5. QED
  BY <1>1, <1>4

LEMMA FlattenIsString ==
  ASSUME NEW ts \in Seq(Strings)
  PROVE  FlattenSeq(ts) \in Strings
<1>1. CASE ts = << >>
  <2>1. FlattenSeq(ts) = << >>
    BY <1>1 DEF FlattenSeq
  <2>2. QED
    BY <2>1, StringsJoin
<1>2. CASE ts # << >>
  <2>1. Len(ts) \in 1 .. Len(ts)
    BY <1>2
  <2>2. QED
    BY <1>2, <2>1, FlattenExists, FlattensRule
<1>3. QED
  BY <1>1, <1>2

LEMMA FlattenOne ==
  ASSUME NEW t \in Strings
  PROVE  FlattenSeq(<<t>>) = t
<1>1. <<t>> \in Seq(Strings) /\ Len(<<t>>) = 1 /\ <<t>>[1] = t /\ <<t>> # << >>
  OBVIOUS
<1>2. PICK ts : ts = <<t>>
  OBVIOUS
<1>3. PICK f : Flattens(f, ts) /\ FlattenSeq(ts) = f[1]
  BY <1>1, <1>2, FlattenExists
<1>4. f[1] = t
  <2>1. ts \in Seq(Strings) /\ 1 \in 1 .. Len(ts) /\ ts[1] = t
    BY <1>1, <1>2
  <2>2. f[1] = IF 1 = 1 THEN ts[1] ELSE f[1 - 1] \o ts[1]
    BY <1>3, <2>1, FlattensRule
  <2>3. QED
    BY <2>1, <2>2
<1>5. QED
  BY <1>2, <1>3, <1>4

LEMMA FlattenAppend ==
  ASSUME NEW ts \in Seq(Strings), ts # << >>, NEW t \in Strings
  PROVE  FlattenSeq(Append(ts, t)) = FlattenSeq(ts) \o t
<1>0. Append(ts, t) \in Seq(Strings)
  OBVIOUS
<1>1. PICK us \in Seq(Strings) : us = Append(ts, t)
  BY <1>0
<1>2. PICK n \in Nat : n = Len(ts) /\ n >= 1
  OBVIOUS
<1>3. us # << >> /\ Len(us) = n + 1 /\ us[n + 1] = t /\ \A k \in 1 .. n : us[k] = ts[k]
  BY <1>1, <1>2
<1>4. PICK f : Flattens(f, ts) /\ FlattenSeq(ts) = f[n]
  BY <1>2, FlattenExists
<1>5. PICK g : Flattens(g, us) /\ FlattenSeq(us) = g[n + 1]
  BY <1>3, FlattenExists
<1>6. \A i \in 1 .. n : f[i] = IF i = 1 THEN ts[i] ELSE f[i - 1] \o ts[i]
  BY <1>2, <1>4, FlattensRule
<1>7. \A i \in 1 .. n + 1 : g[i] = IF i = 1 THEN us[i] ELSE g[i - 1] \o us[i]
  BY <1>3, <1>5, FlattensRule
<1> DEFINE S == {i \in Nat : i \in 1 .. n => f[i] = g[i]}
<1>8. 0 \in S
  OBVIOUS
<1>9. ASSUME NEW m \in Nat, m \in S PROVE m + 1 \in S
  <2>1. SUFFICES ASSUME m + 1 \in 1 .. n PROVE f[m + 1] = g[m + 1]
    OBVIOUS
  <2>2. PICK i \in 1 .. n : i = m + 1 /\ i - 1 = m /\ i \in 1 .. n + 1
    BY <2>1
  <2>3. i # 1 => f[i - 1] = g[i - 1]
    BY <1>9, <2>2
  <2>4. f[i] = g[i]
    BY <1>3, <1>6, <1>7, <2>2, <2>3
  <2>5. QED
    BY <2>2, <2>4
<1>10. f[n] = g[n]
  <2> HIDE DEF S
  <2>1. n \in S
    BY <1>8, <1>9, SetInduction
  <2>2. QED
    BY <1>2, <2>1 DEF S
<1>11. n + 1 \in 1 .. n + 1 /\ n + 1 # 1 /\ (n + 1) - 1 = n
  BY <1>2
<1>12. g[n + 1] = g[n] \o t
  BY <1>3, <1>7, <1>11
<1>13. QED
  BY <1>1, <1>4, <1>5, <1>10, <1>12

TextsOf(interpretation) == [i \in DOMAIN interpretation |-> interpretation[i].text]
Spelled(interpretation) == FlattenSeq(TextsOf(interpretation))

LEMMA TextsOfTokens ==
  ASSUME NEW p \in Seq(Tokens)
  PROVE  /\ TextsOf(p) \in Seq(Strings) /\ Len(TextsOf(p)) = Len(p)
         /\ Spelled(p) \in Strings
<1>1. \A i \in DOMAIN p : p[i].text \in Strings
  <2>1. \A i \in DOMAIN p : p[i] \in Tokens
    OBVIOUS
  <2>2. QED
    BY <2>1 DEF Tokens, Strings, Letters
<1>2. DOMAIN p = 1 .. Len(p) /\ Len(p) \in Nat
  OBVIOUS
<1>3. TextsOf(p) \in Seq(Strings) /\ Len(TextsOf(p)) = Len(p)
  BY <1>1, <1>2 DEF TextsOf
<1>4. QED
  BY <1>3, FlattenIsString DEF Spelled

LEMMA SpelledAppend ==
  ASSUME NEW p \in Seq(Tokens), NEW token \in Tokens
  PROVE  Spelled(Append(p, token)) = IF p = << >> THEN token.text ELSE Spelled(p) \o token.text
<1>1. token.text \in Strings
  BY DEF Tokens, Strings, Letters
<1>2. TextsOf(Append(p, token)) = Append(TextsOf(p), token.text)
  <2>1. PICK n \in Nat : n = Len(p) /\ DOMAIN p = 1 .. n
    OBVIOUS
  <2>2. PICK u : u = Append(p, token)
    OBVIOUS
  <2>3. DOMAIN u = 1 .. n + 1 /\ u[n + 1] = token /\ \A i \in 1 .. n : u[i] = p[i]
    BY <2>1, <2>2
  <2>4. PICK ts \in Seq(Strings) : ts = TextsOf(p) /\ Len(ts) = n
    BY <2>1, TextsOfTokens
  <2>5. Append(ts, token.text) \in Seq(Strings)
    BY <1>1, <2>4
  <2>6. PICK us \in Seq(Strings) : us = Append(ts, token.text)
    BY <2>5
  <2>7. us = [i \in 1 .. n + 1 |-> IF i = n + 1 THEN token.text ELSE ts[i]]
    BY <2>4, <2>6
  <2>8. \A i \in 1 .. n + 1 : u[i].text = us[i]
    <3>1. \A i \in 1 .. n : ts[i] = p[i].text
      BY <2>1, <2>4 DEF TextsOf
    <3>2. \A i \in 1 .. n + 1 : i # n + 1 => i \in 1 .. n
      OBVIOUS
    <3>3. QED
      BY <2>3, <2>7, <3>1, <3>2
  <2>9. TextsOf(u) = us
    BY <2>3, <2>7, <2>8 DEF TextsOf
  <2>10. QED
    BY <2>2, <2>4, <2>6, <2>9
<1>3. CASE p = << >>
  <2>1. TextsOf(p) = << >>
    <3>1. TextsOf(p) \in Seq(Strings) /\ Len(TextsOf(p)) = 0
      BY <1>3, TextsOfTokens
    <3>2. QED
      BY <3>1
  <2>2. Append(TextsOf(p), token.text) = <<token.text>>
    BY <2>1
  <2>3. QED
    BY <1>1, <1>2, <1>3, <2>2, FlattenOne DEF Spelled
<1>4. CASE p # << >>
  <2>1. PICK ts \in Seq(Strings) : ts = TextsOf(p) /\ ts # << >>
    BY <1>4, TextsOfTokens
  <2>2. FlattenSeq(Append(ts, token.text)) = FlattenSeq(ts) \o token.text
    BY <1>1, <2>1, FlattenAppend
  <2>3. QED
    BY <1>2, <1>4, <2>1, <2>2 DEF Spelled
<1>5. QED
  BY <1>3, <1>4

-----------------------------------------------------------------------------
(***************************************************************************)
(* The characters of a string, one after the other.                        *)
(***************************************************************************)

LEMMA LetterRule ==
  ASSUME NEW s \in Seq(Letters)
  PROVE  /\ Expression(s) \in Seq(ExpressionCharacters)
         /\ Len(Expression(s)) = Len(s)
         /\ \A k \in 1 .. Len(s) :
              /\ Expression(s)[k] \in ExpressionCharacters
              /\ Expression(s)[k].value = s[k]
              /\ Expression(s)[k].type =
                   IF k > 1 /\ Expression(s)[k - 1].type = "Escape" THEN "Normal" ELSE Kind(s[k])
<1>1. Expression(s) \in Seq(ExpressionCharacters) /\ Len(Expression(s)) = Len(s)
  BY ExpressionRule DEF Letters
<1>2. \A k \in 1 .. Len(s) :
        /\ Expression(s)[k].value = s[k]
        /\ Expression(s)[k].type =
             IF k > 1 /\ Expression(s)[k - 1].type = "Escape" THEN "Normal" ELSE Kind(s[k])
  BY ExpressionRule DEF Letters
<1>3. \A k \in 1 .. Len(s) : Expression(s)[k] \in ExpressionCharacters
  BY <1>1
<1>4. QED
  BY <1>1, <1>2, <1>3

LEMMA CollapsedLetters ==
  ASSUME NEW s \in Seq(Letters)
  PROVE  collapsed(s) \in Seq(Letters)
BY CollapsedString DEF Letters

\* The type of the last character.
LastType(s) == IF s = << >> THEN "none" ELSE Expression(s)[Len(s)].type
NextType(type, c) == IF type = "Escape" THEN "Normal" ELSE Kind(c)

\* No two greedy wildcards are neighbours.
Collapsed(s) ==
  \A k \in 2 .. Len(s) : ~(/\ is_greedy_wildcard(Expression(s)[k - 1])
                           /\ is_greedy_wildcard(Expression(s)[k]))

LEMMA Appended ==
  ASSUME NEW E, NEW s \in Seq(E), NEW c \in E
  PROVE  /\ Append(s, c) \in Seq(E) /\ Len(Append(s, c)) = Len(s) + 1
         /\ Append(s, c) # << >> /\ Append(s, c)[Len(s) + 1] = c
         /\ \A k \in 1 .. Len(s) : Append(s, c)[k] = s[k]
         /\ s = << >> <=> Len(s) = 0
OBVIOUS

\* The types of a string's characters do not depend on those that follow.
LEMMA SameTypes ==
  ASSUME NEW s \in Seq(Letters), NEW t \in Seq(Letters), NEW n \in Nat,
         n <= Len(s), n <= Len(t), \A k \in 1 .. n : s[k] = t[k]
  PROVE  \A k \in 1 .. n : Expression(s)[k] = Expression(t)[k]
<1> DEFINE Same(k) == k \in 1 .. n => Expression(s)[k] = Expression(t)[k]
           S == {k \in Nat : Same(k)}
<1>1. 0 \in S
  OBVIOUS
<1>2. ASSUME NEW m \in Nat, m \in S PROVE m + 1 \in S
  <2>1. SUFFICES ASSUME m + 1 \in 1 .. n PROVE Expression(s)[m + 1] = Expression(t)[m + 1]
    OBVIOUS
  <2>2. PICK k \in 1 .. n : k = m + 1 /\ k - 1 = m
    BY <2>1
  <2>3. k > 1 => Expression(s)[k - 1] = Expression(t)[k - 1]
    BY <1>2, <2>2
  <2>4. k \in 1 .. Len(s) /\ k \in 1 .. Len(t) /\ s[k] = t[k]
    OBVIOUS
  <2>5. /\ Expression(s)[k].value = Expression(t)[k].value
        /\ Expression(s)[k].type = Expression(t)[k].type
    BY <2>3, <2>4, LetterRule
  <2>6. Expression(s)[k] \in ExpressionCharacters /\ Expression(t)[k] \in ExpressionCharacters
    BY <2>4, LetterRule
  <2>7. QED
    BY <2>2, <2>5, <2>6 DEF ExpressionCharacters
<1>3. Nat \subseteq S
  <2> HIDE DEF S
  <2>1. QED
    BY <1>1, <1>2, SetInduction
<1>4. QED
  BY <1>3

LEMMA ExpressionAppend ==
  ASSUME NEW s \in Seq(Letters), NEW c \in Letters
  PROVE  /\ Append(s, c) \in Seq(Letters) /\ Len(Append(s, c)) = Len(s) + 1
         /\ \A k \in 1 .. Len(s) : Expression(Append(s, c))[k] = Expression(s)[k]
         /\ LastType(Append(s, c)) = NextType(LastType(s), c)
         /\ Expression(Append(s, c))[Len(s) + 1].type = NextType(LastType(s), c)
<1>1. PICK n \in Nat : n = Len(s)
  OBVIOUS
<1>2. PICK t \in Seq(Letters) : t = Append(s, c)
  BY Appended
<1>3. Len(t) = n + 1 /\ t[n + 1] = c /\ (\A k \in 1 .. n : t[k] = s[k]) /\ t # << >>
  <2>1. Len(Append(s, c)) = Len(s) + 1
    BY Appended
  <2>2. Append(s, c)[Len(s) + 1] = c
    BY Appended
  <2>3. Append(s, c) # << >>
    BY Appended
  <2>4. \A k \in 1 .. Len(s) : Append(s, c)[k] = s[k]
    BY Appended
  <2>5. QED
    BY <1>1, <1>2, <2>1, <2>2, <2>3, <2>4
<1>4. \A k \in 1 .. n : Expression(t)[k] = Expression(s)[k]
  BY <1>1, <1>3, SameTypes
<1>5. Expression(t)[n + 1].type = NextType(LastType(s), c)
  <2>1. PICK k \in 1 .. Len(t) : k = n + 1 /\ k - 1 = n
    BY <1>3
  <2>2. Expression(t)[k].type =
          IF k > 1 /\ Expression(t)[k - 1].type = "Escape" THEN "Normal" ELSE Kind(c)
    BY <1>3, <2>1, LetterRule
  <2>3. CASE n = 0
    <3>1. LastType(s) = "none"
      BY <1>1, <2>3, Appended DEF LastType
    <3>2. QED
      BY <2>1, <2>2, <2>3, <3>1 DEF NextType
  <2>4. CASE n # 0
    <3>1. LastType(s) = Expression(s)[n].type /\ n \in 1 .. n
      BY <1>1, <2>4, Appended DEF LastType
    <3>2. QED
      BY <1>4, <2>1, <2>2, <2>4, <3>1 DEF NextType
  <2>5. QED
    BY <2>3, <2>4
<1>6. LastType(t) = NextType(LastType(s), c)
  BY <1>3, <1>5 DEF LastType
<1>7. QED
  BY <1>1, <1>2, <1>3, <1>4, <1>5, <1>6

LEMMA PushesRule ==
  ASSUME NEW s, NEW P, NEW f, Pushes(f, s, P), NEW n \in Nat, Len(s) = n, NEW k \in 1 .. n
  PROVE  f[k] = IF k \in P THEN Append(f[k - 1], s[k]) ELSE f[k - 1]
<1>1. k \in 0 .. n /\ k # 0
  OBVIOUS
<1>2. QED
  BY <1>1 DEF Pushes

\* What is pushed for the places of the longer string is what is pushed for those of the
\* shorter one, and its last element if that has a place.
LEMMA AtPlacesAppend ==
  ASSUME NEW E, NEW s \in Seq(E), NEW c \in E, NEW P, NEW Q,
         \A k \in 1 .. Len(s) : k \in P <=> k \in Q
  PROVE  /\ Len(s) + 1 \in P => AtPlaces(Append(s, c), P) = Append(AtPlaces(s, Q), c)
         /\ Len(s) + 1 \notin P => AtPlaces(Append(s, c), P) = AtPlaces(s, Q)
<1>1. PICK n \in Nat : n = Len(s)
  OBVIOUS
<1>2. PICK t \in Seq(E) : t = Append(s, c)
  BY Appended
<1>3. Len(t) = n + 1 /\ t[n + 1] = c /\ (\A k \in 1 .. n : t[k] = s[k])
  BY <1>1, <1>2
<1>4. PICK f : Pushes(f, s, Q) /\ AtPlaces(s, Q) = f[n]
  BY <1>1, PushesExist
<1>5. PICK g : Pushes(g, t, P) /\ AtPlaces(t, P) = g[n + 1]
  BY <1>3, PushesExist
<1> DEFINE Same(k) == k <= n => f[k] = g[k]
           S == {k \in Nat : Same(k)}
<1>6. 0 \in S
  BY <1>1, <1>3, <1>4, <1>5 DEF Pushes
<1>7. ASSUME NEW m \in Nat, m \in S PROVE m + 1 \in S
  <2>1. SUFFICES ASSUME m + 1 <= n PROVE f[m + 1] = g[m + 1]
    OBVIOUS
  <2>2. PICK k \in 1 .. n : k = m + 1 /\ k - 1 = m
    BY <2>1
  <2>3. f[k - 1] = g[k - 1]
    BY <1>7, <2>1, <2>2
  <2>4. f[k] = IF k \in Q THEN Append(f[k - 1], s[k]) ELSE f[k - 1]
    BY <1>1, <1>4, PushesRule
  <2>5. g[k] = IF k \in P THEN Append(g[k - 1], t[k]) ELSE g[k - 1]
    <3>1. k \in 1 .. n + 1
      OBVIOUS
    <3>2. QED
      BY <1>3, <1>5, <3>1, PushesRule
  <2>6. (k \in P <=> k \in Q) /\ s[k] = t[k]
    BY <1>1, <1>3
  <2>7. QED
    BY <2>2, <2>3, <2>4, <2>5, <2>6
<1>8. f[n] = g[n]
  <2>1. n \in S
    <3> HIDE DEF S
    <3>1. QED
      BY <1>6, <1>7, SetInduction
  <2>2. QED
    BY <2>1
<1>9. g[n + 1] = IF n + 1 \in P THEN Append(g[n], c) ELSE g[n]
  <2>1. PICK k \in 1 .. n + 1 : k = n + 1 /\ k - 1 = n
    OBVIOUS
  <2>2. g[k] = IF k \in P THEN Append(g[k - 1], t[k]) ELSE g[k - 1]
    BY <1>3, <1>5, PushesRule
  <2>3. QED
    BY <1>3, <2>1, <2>2
<1>10. QED
  BY <1>1, <1>2, <1>4, <1>5, <1>8, <1>9

LEMMA StringInduction ==
  ASSUME NEW T, << >> \in T,
         \A s \in Seq(Letters) : \A c \in Letters : s \in T => Append(s, c) \in T
  PROVE  Seq(Letters) \subseteq T
<1> DEFINE All(n) == \A s \in Seq(Letters) : Len(s) = n => s \in T
           S == {n \in Nat : All(n)}
<1>1. 0 \in S
  OBVIOUS
<1>2. ASSUME NEW n \in Nat, n \in S PROVE n + 1 \in S
  <2>1. SUFFICES ASSUME NEW s \in Seq(Letters), Len(s) = n + 1 PROVE s \in T
    OBVIOUS
  <2>2. s # << >> /\ Len(s) - 1 = n
    BY <2>1
  <2>3. /\ Front(s) \in Seq(Letters) /\ Len(Front(s)) = n
        /\ Last(s) \in Letters /\ Append(Front(s), Last(s)) = s
    <3>1. Front(s) \in Seq(Letters) /\ Len(Front(s)) = n
      BY <2>1, <2>2 DEF Front
    <3>2. Last(s) \in Letters
      BY <2>1, <2>2 DEF Last
    <3>3. Append(Front(s), Last(s)) = s
      BY <2>1, <2>2 DEF Front, Last
    <3>4. QED
      BY <3>1, <3>2, <3>3
  <2>4. Front(s) \in T
    BY <1>2, <2>3
  <2>5. QED
    BY <2>3, <2>4
<1>3. Nat \subseteq S
  <2> HIDE DEF S
  <2>1. QED
    BY <1>1, <1>2, SetInduction
<1>4. QED
  BY <1>3

\* The places that collapsed keeps.
Kept(s) ==
  LET e == Expression(s)
  IN {k \in DOMAIN e : ~(k > 1 /\ is_greedy_wildcard(e[k]) /\ is_greedy_wildcard(e[k - 1]))}

LEMMA CollapsedAppend ==
  ASSUME NEW s \in Seq(Letters), NEW c \in Letters
  PROVE  collapsed(Append(s, c))
           = IF LastType(s) = "GreedyWildcard" /\ NextType(LastType(s), c) = "GreedyWildcard"
             THEN collapsed(s) ELSE Append(collapsed(s), c)
<1>1. PICK n \in Nat : n = Len(s)
  OBVIOUS
<1>2. PICK t \in Seq(Letters) : t = Append(s, c) /\ Len(t) = n + 1
  BY <1>1, ExpressionAppend
<1>3. /\ \A k \in 1 .. n : Expression(t)[k] = Expression(s)[k]
      /\ Expression(t)[n + 1].type = NextType(LastType(s), c)
  BY <1>1, <1>2, ExpressionAppend
<1>4. DOMAIN Expression(s) = 1 .. n /\ DOMAIN Expression(t) = 1 .. n + 1
  <2>1. Expression(s) \in Seq(ExpressionCharacters) /\ Len(Expression(s)) = n
        /\ Expression(t) \in Seq(ExpressionCharacters) /\ Len(Expression(t)) = n + 1
    BY <1>1, <1>2, LetterRule
  <2>2. QED
    BY <2>1
<1>5. \A k \in 1 .. n : k \in Kept(t) <=> k \in Kept(s)
  <2>1. TAKE k \in 1 .. n
  <2>2. k > 1 => k - 1 \in 1 .. n
    OBVIOUS
  <2>3. k > 1 => Expression(t)[k - 1] = Expression(s)[k - 1]
    BY <1>3, <2>2
  <2>4. Expression(t)[k] = Expression(s)[k]
    BY <1>3
  <2>5. k \in 1 .. n + 1
    OBVIOUS
  <2>6. QED
    BY <1>4, <2>3, <2>4, <2>5 DEF Kept
<1>6. n + 1 \in Kept(t)
        <=> ~(LastType(s) = "GreedyWildcard" /\ NextType(LastType(s), c) = "GreedyWildcard")
  <2>1. PICK m \in 1 .. n + 1 : m = n + 1 /\ m - 1 = n
    OBVIOUS
  <2>2. m \in Kept(t) <=> ~(m > 1 /\ is_greedy_wildcard(Expression(t)[m])
                                  /\ is_greedy_wildcard(Expression(t)[m - 1]))
    BY <1>4 DEF Kept
  <2>3. CASE n = 0
    <3>1. LastType(s) = "none"
      BY <1>1, <2>3, Appended DEF LastType
    <3>2. ~(m > 1)
      BY <2>1, <2>3
    <3>3. QED
      BY <2>1, <2>2, <3>1, <3>2
  <2>4. CASE n # 0
    <3>1. LastType(s) = Expression(s)[n].type
      BY <1>1, <2>4, Appended DEF LastType
    <3>2. Expression(t)[n] = Expression(s)[n] /\ m > 1
      BY <1>3, <2>1, <2>4
    <3>3. QED
      BY <1>3, <2>1, <2>2, <3>1, <3>2 DEF is_greedy_wildcard
  <2>5. QED
    BY <2>3, <2>4
<1>7. collapsed(t) = AtPlaces(t, Kept(t)) /\ collapsed(s) = AtPlaces(s, Kept(s))
  BY DEF collapsed, Kept
<1>8. AtPlaces(Append(s, c), Kept(t))
        = IF n + 1 \in Kept(t) THEN Append(AtPlaces(s, Kept(s)), c) ELSE AtPlaces(s, Kept(s))
  <2>1. PICK P, Q : P = Kept(t) /\ Q = Kept(s)
    OBVIOUS
  <2>2. \A k \in 1 .. Len(s) : k \in P <=> k \in Q
    BY <1>1, <1>5, <2>1
  <2>3. \A E : s \in Seq(E) /\ c \in E =>
          /\ Len(s) + 1 \in P => AtPlaces(Append(s, c), P) = Append(AtPlaces(s, Q), c)
          /\ Len(s) + 1 \notin P => AtPlaces(Append(s, c), P) = AtPlaces(s, Q)
    BY <2>2, AtPlacesAppend
  <2>4. /\ Len(s) + 1 \in P => AtPlaces(Append(s, c), P) = Append(AtPlaces(s, Q), c)
        /\ Len(s) + 1 \notin P => AtPlaces(Append(s, c), P) = AtPlaces(s, Q)
    BY <2>3
  <2>5. QED
    BY <1>1, <2>1, <2>4
<1>9. QED
  BY <1>2, <1>6, <1>7, <1>8

LEMMA CollapsedEmpty == collapsed(<< >>) = << >>
<1>1. << >> \in Seq(Letters) /\ Len(<< >>) = 0
  OBVIOUS
<1>2. PICK f : Pushes(f, << >>, Kept(<< >>)) /\ AtPlaces(<< >>, Kept(<< >>)) = f[0]
  BY <1>1, PushesExist
<1>3. f[0] = << >>
  BY <1>1, <1>2 DEF Pushes
<1>4. QED
  BY <1>2, <1>3 DEF collapsed, Kept

\* What Query::Query leaves has no two neighbouring wildcards, and ends as the search
\* string does.
LEMMA CollapsedIsCollapsed ==
  ASSUME NEW s \in Seq(Letters)
  PROVE  Collapsed(collapsed(s)) /\ LastType(collapsed(s)) = LastType(s)
<1> DEFINE T == {t \in Seq(Letters) :
                   Collapsed(collapsed(t)) /\ LastType(collapsed(t)) = LastType(t)}
<1>1. << >> \in T
  <2>1. Collapsed(<< >>)
    BY DEF Collapsed
  <2>2. << >> \in Seq(Letters)
    OBVIOUS
  <2>3. QED
    BY <2>1, <2>2, CollapsedEmpty
<1>2. ASSUME NEW t \in Seq(Letters), NEW c \in Letters, t \in T
      PROVE  Append(t, c) \in T
  <2>1. PICK u \in Seq(Letters) : u = collapsed(t)
    BY CollapsedLetters
  <2>2. Collapsed(u) /\ LastType(u) = LastType(t)
    BY <1>2, <2>1
  <2>3. /\ Append(t, c) \in Seq(Letters)
        /\ LastType(Append(t, c)) = NextType(LastType(t), c)
    BY ExpressionAppend
  <2>4. CASE LastType(t) = "GreedyWildcard" /\ NextType(LastType(t), c) = "GreedyWildcard"
    <3>1. collapsed(Append(t, c)) = u
      BY <2>1, <2>4, CollapsedAppend
    <3>2. QED
      BY <2>2, <2>3, <2>4, <3>1
  <2>5. CASE ~(LastType(t) = "GreedyWildcard" /\ NextType(LastType(t), c) = "GreedyWildcard")
    <3>1. collapsed(Append(t, c)) = Append(u, c)
      BY <2>1, <2>5, CollapsedAppend
    <3>2. PICK n \in Nat : n = Len(u)
      OBVIOUS
    <3>3. PICK w : w = Append(u, c)
      OBVIOUS
    <3>4. /\ Len(w) = n + 1
          /\ \A k \in 1 .. n : Expression(w)[k] = Expression(u)[k]
          /\ Expression(w)[n + 1].type = NextType(LastType(t), c)
          /\ LastType(w) = NextType(LastType(t), c)
      BY <2>2, <3>2, <3>3, ExpressionAppend
    <3>5. ASSUME NEW k \in 2 .. n + 1
          PROVE  ~(/\ is_greedy_wildcard(Expression(w)[k - 1])
                   /\ is_greedy_wildcard(Expression(w)[k]))
      <4>1. CASE k # n + 1
        <5>1. k \in 2 .. n /\ k \in 1 .. n /\ k - 1 \in 1 .. n
          BY <4>1
        <5>2. QED
          BY <2>2, <3>2, <3>4, <5>1 DEF Collapsed
      <4>2. CASE k = n + 1
        <5>1. k - 1 = n /\ n \in 1 .. n /\ n # 0
          BY <4>2
        <5>2. LastType(u) = Expression(u)[n].type
          BY <3>2, <5>1, Appended DEF LastType
        <5>3. Expression(w)[n].type = LastType(t)
          BY <2>2, <3>4, <5>1, <5>2
        <5>4. QED
          BY <2>5, <3>4, <4>2, <5>1, <5>3 DEF is_greedy_wildcard
      <4>3. QED
        BY <4>1, <4>2
    <3>6. Collapsed(w)
      BY <3>4, <3>5 DEF Collapsed
    <3>7. QED
      BY <2>3, <3>1, <3>3, <3>4, <3>6
  <2>6. QED
    BY <2>4, <2>5
<1>3. Seq(Letters) \subseteq T
  <2> HIDE DEF T
  <2>1. QED
    BY <1>1, <1>2, StringInduction
<1>4. QED
  BY <1>3

\* What no wildcard follows another in is kept as it is.
LEMMA CollapsedStays ==
  ASSUME NEW s \in Seq(Letters), Collapsed(s)
  PROVE  collapsed(s) = s
<1> DEFINE T == {t \in Seq(Letters) : Collapsed(t) => collapsed(t) = t}
<1>1. << >> \in T
  BY CollapsedEmpty
<1>2. ASSUME NEW t \in Seq(Letters), NEW c \in Letters, t \in T
      PROVE  Append(t, c) \in T
  <2>1. PICK n \in Nat : n = Len(t)
    OBVIOUS
  <2>2. PICK w \in Seq(Letters) : w = Append(t, c) /\ Len(w) = n + 1
    BY <2>1, ExpressionAppend
  <2>3. SUFFICES ASSUME Collapsed(w) PROVE collapsed(w) = w
    BY <2>2
  <2>4. /\ \A k \in 1 .. n : Expression(w)[k] = Expression(t)[k]
        /\ Expression(w)[n + 1].type = NextType(LastType(t), c)
    BY <2>1, <2>2, ExpressionAppend
  <2>5. Collapsed(t)
    <3>1. \A k \in 2 .. n : k \in 2 .. n + 1 /\ k \in 1 .. n /\ k - 1 \in 1 .. n
      OBVIOUS
    <3>2. QED
      BY <2>1, <2>2, <2>3, <2>4, <3>1 DEF Collapsed
  <2>6. ~(LastType(t) = "GreedyWildcard" /\ NextType(LastType(t), c) = "GreedyWildcard")
    <3>1. CASE n = 0
      <4>1. LastType(t) = "none"
        BY <2>1, <3>1, Appended DEF LastType
      <4>2. QED
        BY <4>1
    <3>2. CASE n # 0
      <4>1. LastType(t) = Expression(t)[n].type /\ n \in 1 .. n
        BY <2>1, <3>2, Appended DEF LastType
      <4>2. PICK k \in 2 .. n + 1 : k = n + 1 /\ k - 1 = n
        BY <3>2
      <4>3. ~(/\ is_greedy_wildcard(Expression(w)[k - 1])
              /\ is_greedy_wildcard(Expression(w)[k]))
        BY <2>2, <2>3 DEF Collapsed
      <4>4. QED
        BY <2>4, <4>1, <4>2, <4>3 DEF is_greedy_wildcard
    <3>3. QED
      BY <3>1, <3>2
  <2>7. collapsed(w) = Append(collapsed(t), c)
    BY <2>2, <2>6, CollapsedAppend
  <2>8. QED
    BY <1>2, <2>2, <2>5, <2>7
<1>3. Seq(Letters) \subseteq T
  <2> HIDE DEF T
  <2>1. QED
    BY <1>1, <1>2, StringInduction
<1>4. QED
  BY <1>3

LEMMA ConcatAppend ==
  ASSUME NEW E, NEW s \in Seq(E), NEW t \in Seq(E), NEW c \in E
  PROVE  s \o Append(t, c) = Append(s \o t, c)
<1>1. PICK u \in Seq(E) : u = Append(t, c) /\ Len(u) = Len(t) + 1
  BY Appended
<1>2. PICK v \in Seq(E) : v = s \o t /\ Len(v) = Len(s) + Len(t)
  BY ConcatProperties
<1>3. PICK x \in Seq(E) : x = s \o u
  BY ConcatProperties
<1>4. PICK y \in Seq(E) : y = Append(v, c)
  BY Appended
<1>5. Len(x) = Len(y) /\ \A k \in 1 .. Len(x) : x[k] = y[k]
  BY <1>1, <1>2, <1>3, <1>4
<1>6. x = y
  BY <1>5, SeqEqual
<1>7. QED
  BY <1>1, <1>2, <1>3, <1>4, <1>6

\* A string that is continued collapses as what it collapses to.
LEMMA CollapsedOver ==
  ASSUME NEW f \in Seq(Letters), NEW g \in Seq(Letters), collapsed(f) = collapsed(g),
         NEW t \in Seq(Letters)
  PROVE  collapsed(f \o t) = collapsed(g \o t)
<1> DEFINE T == {u \in Seq(Letters) : collapsed(f \o u) = collapsed(g \o u)}
<1>1. << >> \in T
  <2>1. f \o << >> = f /\ g \o << >> = g /\ << >> \in Seq(Letters)
    OBVIOUS
  <2>2. QED
    BY <2>1
<1>2. ASSUME NEW u \in Seq(Letters), NEW c \in Letters, u \in T
      PROVE  Append(u, c) \in T
  <2>1. PICK v \in Seq(Letters), w \in Seq(Letters) : v = f \o u /\ w = g \o u
    <3>1. f \o u \in Seq(Letters) /\ g \o u \in Seq(Letters)
      OBVIOUS
    <3>2. QED
      BY <3>1
  <2>2. f \o Append(u, c) = Append(v, c) /\ g \o Append(u, c) = Append(w, c)
    <3>1. f \o Append(u, c) = Append(f \o u, c)
      BY ConcatAppend
    <3>2. g \o Append(u, c) = Append(g \o u, c)
      BY ConcatAppend
    <3>3. QED
      BY <2>1, <3>1, <3>2
  <2>3. collapsed(v) = collapsed(w)
    BY <1>2, <2>1
  <2>4. LastType(v) = LastType(w)
    BY <2>3, CollapsedIsCollapsed
  <2>5. collapsed(Append(v, c)) = collapsed(Append(w, c))
    BY <2>3, <2>4, CollapsedAppend
  <2>6. Append(u, c) \in Seq(Letters)
    BY Appended
  <2>7. QED
    BY <2>2, <2>5, <2>6
<1>3. Seq(Letters) \subseteq T
  <2> HIDE DEF T
  <2>1. QED
    BY <1>1, <1>2, StringInduction
<1>4. QED
  BY <1>3

LEMMA PrefixFacts ==
  ASSUME NEW E, NEW q \in Seq(E), NEW n \in 0 .. Len(q)
  PROVE  /\ SubSeq(q, 1, n) \in Seq(E) /\ Len(SubSeq(q, 1, n)) = n
         /\ \A k \in 1 .. n : SubSeq(q, 1, n)[k] = q[k]
OBVIOUS

\* t is q from n on, up to m.
Continues(t, q, n, m) == Len(t) = m - n /\ \A k \in 1 .. m - n : t[k] = q[n + k]

LEMMA PrefixJoined ==
  ASSUME NEW E, NEW q \in Seq(E), NEW n \in 0 .. Len(q), NEW m \in 0 .. Len(q), n <= m,
         NEW t \in Seq(E), Continues(t, q, n, m)
  PROVE  SubSeq(q, 1, n) \o t = SubSeq(q, 1, m)
<1>0. \A l \in 0 .. Len(q) :
        /\ SubSeq(q, 1, l) \in Seq(E) /\ Len(SubSeq(q, 1, l)) = l
        /\ \A k \in 1 .. l : SubSeq(q, 1, l)[k] = q[k]
  BY PrefixFacts
<1>1. PICK f \in Seq(E) : f = SubSeq(q, 1, n) /\ Len(f) = n /\ \A k \in 1 .. n : f[k] = q[k]
  BY <1>0
<1>2. PICK g \in Seq(E) : g = SubSeq(q, 1, m) /\ Len(g) = m /\ \A k \in 1 .. m : g[k] = q[k]
  BY <1>0
<1>3. PICK h \in Seq(E) : h = f \o t
  <2>1. f \o t \in Seq(E)
    OBVIOUS
  <2>2. QED
    BY <2>1
<1>4. Len(h) = m
  BY <1>1, <1>3 DEF Continues
<1>5. ASSUME NEW k \in 1 .. m PROVE h[k] = g[k]
  <2>1. CASE k <= n
    BY <1>1, <1>2, <1>3, <2>1
  <2>2. CASE ~(k <= n)
    <3>1. k - n \in 1 .. m - n /\ n + (k - n) = k
      BY <2>2
    <3>2. h[k] = t[k - n]
      BY <1>1, <1>3, <2>2 DEF Continues
    <3>3. t[k - n] = q[n + (k - n)]
      BY <3>1 DEF Continues
    <3>4. QED
      BY <1>2, <3>1, <3>2, <3>3
  <2>3. QED
    BY <2>1, <2>2
<1>6. h = g
  BY <1>2, <1>4, <1>5, SeqEqual
<1>7. QED
  BY <1>1, <1>2, <1>3, <1>6

LEMMA PrefixCollapsed ==
  ASSUME NEW q \in Seq(Letters), Collapsed(q), NEW n \in 0 .. Len(q)
  PROVE  /\ collapsed(SubSeq(q, 1, n)) = SubSeq(q, 1, n)
         /\ n > 0 => LastType(SubSeq(q, 1, n)) = Expression(q)[n].type
<1>1. PICK f \in Seq(Letters) : f = SubSeq(q, 1, n) /\ Len(f) = n /\ \A k \in 1 .. n : f[k] = q[k]
  BY PrefixFacts
<1>2. \A k \in 1 .. n : Expression(f)[k] = Expression(q)[k]
  <2>1. n \in Nat /\ n <= Len(f) /\ n <= Len(q)
    BY <1>1
  <2>2. QED
    BY <1>1, <2>1, SameTypes
<1>3. Collapsed(f)
  <2>1. \A k \in 2 .. n : k \in 2 .. Len(q) /\ k \in 1 .. n /\ k - 1 \in 1 .. n
    OBVIOUS
  <2>2. QED
    BY <1>1, <1>2, <2>1 DEF Collapsed
<1>4. n > 0 => LastType(f) = Expression(q)[n].type
  BY <1>1, <1>2, Appended DEF LastType
<1>5. QED
  BY <1>1, <1>3, <1>4, CollapsedStays

-----------------------------------------------------------------------------
(***************************************************************************)
(* The text of a view behind the text in front of it.                      *)
(***************************************************************************)

\* Where the text ends that interpretations of the first k characters spell, and where
\* the text does that is in front of a view from b on.
EndOf(e, k) == extend_to_adjacent_greedy_wildcards(e, [begin |-> 0, end |-> k]).end
StartOf(e, b) == IF b = 0 THEN 0 ELSE EndOf(e, b)

\* A view that the body of the loops does not skip.
IsAsked(e, view) ==
  /\ is_well_formed(e, view)
  /\ get_search_string(e, view) = <<Star>>
     \/ ~starts_or_ends_with_greedy_wildcard(chars(e, view))

LEMMA LettersOfView ==
  ASSUME NEW e \in Seq(ExpressionCharacters), NEW view, IsView(e, view)
  PROVE  /\ get_search_string(e, view) \in Seq(Letters)
         /\ Len(get_search_string(e, view)) = view.end - view.begin
         /\ \A k \in 1 .. view.end - view.begin :
              get_search_string(e, view)[k] = e[view.begin + k].value
BY CharsOfView DEF Letters

LEMMA EndOfRule ==
  ASSUME NEW e, NEW k
  PROVE  EndOf(e, k) = IF k < Len(e) /\ is_greedy_wildcard(e[k + 1]) THEN k + 1 ELSE k
BY DEF EndOf, extend_to_adjacent_greedy_wildcards

LEMMA KindOfStar == Kind(Star) = "GreedyWildcard"
BY DEF Kind, Star, QuestionMark, Backslash

\* A wildcard that is a view of its own.
LEMMA SpelledStar ==
  ASSUME NEW q \in Seq(Letters), Collapsed(q),
         NEW b \in 0 .. Len(q), NEW n \in 1 .. Len(q), b < n,
         NEW view, view = [begin |-> b, end |-> n],
         is_well_formed(Expression(q), view), get_search_string(Expression(q), view) = <<Star>>,
         NEW f \in Seq(Letters), collapsed(f) = SubSeq(q, 1, StartOf(Expression(q), b))
  PROVE  collapsed(f \o <<Star>>) = SubSeq(q, 1, EndOf(Expression(q), n))
<1>1. PICK e \in Seq(ExpressionCharacters) : e = Expression(q) /\ Len(e) = Len(q)
  BY LetterRule
<1>2. IsView(e, view)
  BY <1>1 DEF IsView
<1>3. n = b + 1 /\ q[n] = Star
  <2>1. Len(get_search_string(e, view)) = n - b /\ get_search_string(e, view)[1] = e[b + 1].value
    <3>1. 1 \in 1 .. n - b
      OBVIOUS
    <3>2. /\ Len(get_search_string(e, view)) = view.end - view.begin
          /\ \A k \in 1 .. view.end - view.begin :
               get_search_string(e, view)[k] = e[view.begin + k].value
      BY <1>2, LettersOfView
    <3>3. QED
      BY <3>1, <3>2
  <2>2. Len(<<Star>>) = 1 /\ <<Star>>[1] = Star
    OBVIOUS
  <2>3. n = b + 1 /\ e[b + 1].value = Star
    <3>1. get_search_string(e, view) = <<Star>>
      BY <1>1
    <3>2. n - b = 1 /\ e[b + 1].value = Star
      BY <2>1, <2>2, <3>1
    <3>3. QED
      BY <3>2
  <2>4. QED
    BY <1>1, <2>3, LetterRule
<1>4. e[n].type = "GreedyWildcard"
  <2>1. b > 0 => e[b].type # "Escape"
    BY <1>1 DEF is_well_formed, is_escape
  <2>2. n - 1 = b
    BY <1>3
  <2>3. e[n].type = IF n > 1 /\ e[n - 1].type = "Escape" THEN "Normal" ELSE Kind(q[n])
    BY <1>1, LetterRule
  <2>4. e[n].type = Kind(Star)
    BY <1>3, <2>1, <2>2, <2>3
  <2>5. QED
    BY <2>4, KindOfStar
<1>5. EndOf(e, n) = n
  <2>1. ~(n < Len(e) /\ is_greedy_wildcard(e[n + 1]))
    <3>1. SUFFICES ASSUME n < Len(e) PROVE ~is_greedy_wildcard(e[n + 1])
      OBVIOUS
    <3>2. PICK k \in 2 .. Len(q) : k = n + 1 /\ k - 1 = n
      BY <1>1, <3>1
    <3>3. ~(is_greedy_wildcard(e[k - 1]) /\ is_greedy_wildcard(e[k]))
      BY <1>1 DEF Collapsed
    <3>4. QED
      BY <1>4, <3>2, <3>3 DEF is_greedy_wildcard
  <2>2. QED
    BY <2>1, EndOfRule
<1>6. Star \in Letters /\ <<Star>> \in Seq(Letters)
  <2>1. q[n] \in Letters
    OBVIOUS
  <2>2. QED
    BY <1>3, <2>1
<1>7. collapsed(SubSeq(q, 1, n)) = SubSeq(q, 1, n)
      /\ LastType(SubSeq(q, 1, n)) = "GreedyWildcard"
  BY <1>1, <1>4, PrefixCollapsed
<1>8. CASE b = 0
  <2>1. collapsed(f) = << >>
    BY <1>8, SubSeqEmpty DEF StartOf
  <2>2. << >> \in Seq(Letters) /\ collapsed(<< >>) = << >>
    BY CollapsedEmpty
  <2>3. collapsed(f \o <<Star>>) = collapsed(<< >> \o <<Star>>)
    BY <1>6, <2>1, <2>2, CollapsedOver
  <2>4. << >> \o <<Star>> = SubSeq(q, 1, n)
    <3>1. PICK t \in Seq(Letters) : t = <<Star>>
      BY <1>6
    <3>2. Len(t) = 1 /\ t[1] = Star
      BY <3>1
    <3>3. Continues(t, q, 0, 1)
      BY <1>3, <1>8, <3>2 DEF Continues
    <3>4. SubSeq(q, 1, 0) \o t = SubSeq(q, 1, 1)
      BY <1>3, <1>8, <3>3, PrefixJoined
    <3>5. SubSeq(q, 1, 0) = << >>
      BY SubSeqEmpty
    <3>6. QED
      BY <1>3, <1>8, <3>1, <3>4, <3>5
  <2>5. QED
    BY <1>1, <1>5, <1>7, <2>3, <2>4
<1>9. CASE b # 0
  <2>1. StartOf(e, b) = n
    <3>1. b < Len(e) /\ is_greedy_wildcard(e[b + 1])
      BY <1>1, <1>3, <1>4 DEF is_greedy_wildcard
    <3>2. QED
      BY <1>3, <1>9, <3>1, EndOfRule DEF StartOf
  <2>2. PICK g \in Seq(Letters) : g = SubSeq(q, 1, n)
    <3>1. n \in 0 .. Len(q)
      OBVIOUS
    <3>2. QED
      BY <3>1, PrefixFacts
  <2>3. collapsed(f \o <<Star>>) = collapsed(g \o <<Star>>)
    <3>1. collapsed(f) = collapsed(g)
      BY <1>1, <1>7, <2>1, <2>2
    <3>2. QED
      BY <1>6, <3>1, CollapsedOver
  <2>4. g \o <<Star>> = Append(g, Star)
    BY <1>6
  <2>5. LastType(g) = "GreedyWildcard" /\ NextType(LastType(g), Star) = "GreedyWildcard"
    BY <1>7, <2>2, KindOfStar DEF NextType
  <2>6. collapsed(Append(g, Star)) = collapsed(g)
    BY <1>6, <2>5, CollapsedAppend
  <2>7. QED
    BY <1>1, <1>5, <1>7, <2>2, <2>3, <2>4, <2>6
<1>10. QED
  BY <1>8, <1>9

LEMMA SuffixFacts ==
  ASSUME NEW E, NEW q \in Seq(E), NEW n \in 0 .. Len(q), NEW m \in 0 .. Len(q), n <= m
  PROVE  /\ SubSeq(q, n + 1, m) \in Seq(E) /\ Len(SubSeq(q, n + 1, m)) = m - n
         /\ \A k \in 1 .. m - n : SubSeq(q, n + 1, m)[k] = q[n + k]
<1>1. PICK l : l = n + 1 /\ l \in Int /\ m \in Int /\ \A i \in l .. m : q[i] \in E
  OBVIOUS
<1>2. /\ SubSeq(q, l, m) \in Seq(E)
      /\ Len(SubSeq(q, l, m)) = IF l <= m THEN (m - l) + 1 ELSE 0
      /\ \A i \in 1 .. (m - l) + 1 : SubSeq(q, l, m)[i] = q[(l + i) - 1]
  BY <1>1, SubSeqProperties
<1>3. (m - l) + 1 = m - n /\ (l <= m \/ m - n = 0) /\ \A k \in Int : (l + k) - 1 = n + k
  BY <1>1
<1>4. Len(SubSeq(q, l, m)) = m - n
  BY <1>2, <1>3
<1>5. ASSUME NEW k \in 1 .. m - n PROVE SubSeq(q, l, m)[k] = q[n + k]
  <2>1. k \in 1 .. (m - l) + 1 /\ k \in Int
    BY <1>3
  <2>2. SubSeq(q, l, m)[k] = q[(l + k) - 1]
    BY <1>2, <2>1
  <2>3. QED
    BY <1>3, <2>1, <2>2
<1>6. QED
  BY <1>1, <1>2, <1>4, <1>5

\* t is u with c in front of it.
Precedes(c, u, t) ==
  Len(t) = Len(u) + 1 /\ t[1] = c /\ \A k \in 1 .. Len(u) : t[k + 1] = u[k]

LEMMA Regrouped ==
  ASSUME NEW g \in Seq(Letters), NEW c \in Letters, NEW t \in Seq(Letters), NEW u \in Seq(Letters),
         Precedes(c, u, t)
  PROVE  collapsed(g \o t) = collapsed(Append(g, c) \o u)
<1>1. PICK v \in Seq(Letters) : v = Append(g, c)
  BY Appended
<1>2. /\ Len(v) = Len(g) + 1 /\ v[Len(g) + 1] = c
       /\ \A k \in 1 .. Len(g) : v[k] = g[k]
  BY <1>1, Appended
<1>3. PICK x \in Seq(Letters) : x = g \o t
  BY ConcatProperties
<1>4. /\ Len(x) = Len(g) + Len(t)
       /\ \A k \in 1 .. Len(g) + Len(t) : x[k] = IF k <= Len(g) THEN g[k] ELSE t[k - Len(g)]
  BY <1>3, ConcatProperties
<1>5. PICK y \in Seq(Letters) : y = v \o u
  BY ConcatProperties
<1>6. /\ Len(y) = Len(v) + Len(u)
       /\ \A k \in 1 .. Len(v) + Len(u) : y[k] = IF k <= Len(v) THEN v[k] ELSE u[k - Len(v)]
  BY <1>5, ConcatProperties
<1>7. PICK n \in Nat, m \in Nat : n = Len(g) /\ m = Len(u)
  OBVIOUS
<1>8. Len(t) = m + 1 /\ t[1] = c /\ \A k \in 1 .. m : t[k + 1] = u[k]
  BY <1>7 DEF Precedes
<1>9. Len(x) = n + (m + 1) /\ Len(y) = (n + 1) + m /\ Len(x) = Len(y)
  BY <1>2, <1>4, <1>6, <1>7, <1>8
<1>10. ASSUME NEW k \in 1 .. n + (m + 1) PROVE x[k] = y[k]
  <2>1. x[k] = IF k <= n THEN g[k] ELSE t[k - n]
    BY <1>4, <1>7, <1>8
  <2>2. y[k] = IF k <= n + 1 THEN v[k] ELSE u[k - (n + 1)]
    BY <1>2, <1>6, <1>7
  <2>3. CASE k <= n
    BY <1>2, <1>7, <2>1, <2>2, <2>3
  <2>4. CASE k = n + 1
    <3>1. ~(k <= n) /\ k - n = 1
      BY <2>4
    <3>2. QED
      BY <1>2, <1>7, <1>8, <2>1, <2>2, <2>4, <3>1
  <2>5. CASE k > n + 1
    <3>1. PICK i \in 1 .. m : i = k - (n + 1) /\ k - n = i + 1
      BY <2>5
    <3>2. ~(k <= n) /\ ~(k <= n + 1)
      BY <2>5
    <3>3. QED
      BY <1>8, <2>1, <2>2, <3>1, <3>2
  <2>6. QED
    BY <2>3, <2>4, <2>5
<1>11. x = y
  BY <1>9, <1>10, SeqEqual
<1>12. QED
  BY <1>1, <1>3, <1>5, <1>11

\* The text from the wildcard at b on, behind the text up to b.
LEMMA SpelledTwice ==
  ASSUME NEW q \in Seq(Letters), Collapsed(q),
         NEW b \in 1 .. Len(q), NEW m \in b .. Len(q), is_greedy_wildcard(Expression(q)[b]),
         NEW t \in Seq(Letters), Continues(t, q, b - 1, m)
  PROVE  collapsed(SubSeq(q, 1, b) \o t) = SubSeq(q, 1, m)
<1>1. PICK g \in Seq(Letters) : g = SubSeq(q, 1, b)
  <2>1. b \in 0 .. Len(q)
    OBVIOUS
  <2>2. QED
    BY <2>1, PrefixFacts
<1>2. PICK u \in Seq(Letters) : u = SubSeq(q, b + 1, m)
  <2>1. b \in 0 .. Len(q) /\ m \in 0 .. Len(q) /\ b <= m
    OBVIOUS
  <2>2. QED
    BY <2>1, SuffixFacts
<1>3. Len(u) = m - b /\ \A k \in 1 .. m - b : u[k] = q[b + k]
  <2>1. b \in 0 .. Len(q) /\ m \in 0 .. Len(q) /\ b <= m
    OBVIOUS
  <2>2. QED
    BY <1>2, <2>1, SuffixFacts
<1>4. PICK c \in Letters : c = q[b]
  OBVIOUS
<1>5. PICK v \in Seq(Letters) : v = Append(g, c)
  BY Appended
<1>6. Precedes(c, u, t)
  <2>1. PICK a \in Nat : a = b - 1 /\ b = a + 1
    OBVIOUS
  <2>2. Len(t) = m - a /\ \A k \in 1 .. m - a : t[k] = q[a + k]
    BY <2>1 DEF Continues
  <2>3. Len(t) = Len(u) + 1
    <3>1. m \in Int
      OBVIOUS
    <3>2. QED
      BY <1>3, <2>1, <2>2, <3>1
  <2>4. t[1] = c
    <3>1. 1 \in 1 .. m - a
      BY <2>1
    <3>2. QED
      BY <1>4, <2>1, <2>2, <3>1
  <2>5. ASSUME NEW k \in 1 .. Len(u) PROVE t[k + 1] = u[k]
    <3>1. PICK i \in 1 .. m - a : i = k + 1 /\ a + i = b + k /\ k \in 1 .. m - b
      BY <1>3, <2>1
    <3>2. QED
      BY <1>3, <2>2, <3>1
  <2>6. QED
    BY <2>3, <2>4, <2>5 DEF Precedes
<1>7. collapsed(g \o t) = collapsed(v \o u)
  <2>1. collapsed(g \o t) = collapsed(Append(g, c) \o u)
    BY <1>6, Regrouped
  <2>2. QED
    BY <1>5, <2>1
<1>8. collapsed(v) = collapsed(g)
  <2>1. LastType(g) = "GreedyWildcard"
    <3>1. b \in 0 .. Len(q) /\ b > 0
      OBVIOUS
    <3>2. QED
      BY <1>1, <3>1, PrefixCollapsed DEF is_greedy_wildcard
  <2>2. Kind(c) = "GreedyWildcard"
    <3>1. Expression(q)[b].type =
            IF b > 1 /\ Expression(q)[b - 1].type = "Escape" THEN "Normal" ELSE Kind(c)
      BY <1>4, LetterRule
    <3>2. QED
      BY <3>1 DEF is_greedy_wildcard
  <2>3. NextType(LastType(g), c) = "GreedyWildcard"
    BY <2>1, <2>2 DEF NextType
  <2>4. QED
    BY <1>5, <2>1, <2>3, CollapsedAppend
<1>9. collapsed(v \o u) = collapsed(g \o u)
  BY <1>8, CollapsedOver
<1>10. g \o u = SubSeq(q, 1, m)
  <2>1. b \in 0 .. Len(q) /\ m \in 0 .. Len(q) /\ b <= m
    OBVIOUS
  <2>2. Continues(u, q, b, m)
    BY <1>3 DEF Continues
  <2>3. QED
    BY <1>1, <2>1, <2>2, PrefixJoined
<1>11. collapsed(SubSeq(q, 1, m)) = SubSeq(q, 1, m)
  <2>1. m \in 0 .. Len(q)
    OBVIOUS
  <2>2. QED
    BY <2>1, PrefixCollapsed
<1>12. QED
  BY <1>1, <1>7, <1>9, <1>10, <1>11

\* Any other view, with the wildcards next to it: that in front of it is spelled twice,
\* and collapses.
LEMMA SpelledText ==
  ASSUME NEW q \in Seq(Letters), Collapsed(q),
         NEW b \in 0 .. Len(q), NEW n \in 1 .. Len(q), b < n,
         NEW view, view = [begin |-> b, end |-> n],
         ~starts_or_ends_with_greedy_wildcard(chars(Expression(q), view)),
         NEW f \in Seq(Letters), collapsed(f) = SubSeq(q, 1, StartOf(Expression(q), b))
  PROVE  LET extended == extend_to_adjacent_greedy_wildcards(Expression(q), view)
         IN collapsed(f \o get_search_string(Expression(q), extended))
              = SubSeq(q, 1, EndOf(Expression(q), n))
<1>1. PICK e \in Seq(ExpressionCharacters) : e = Expression(q) /\ Len(e) = Len(q)
  BY LetterRule
<1>2. IsView(e, view)
  BY <1>1 DEF IsView
<1>3. PICK x : x = extend_to_adjacent_greedy_wildcards(e, view)
  OBVIOUS
<1>4. PICK m : m = EndOf(e, n)
  OBVIOUS
<1>5. m \in n .. Len(q) /\ x.end = m
  <2>1. n + 1 <= Len(q) \/ ~(n < Len(q))
    OBVIOUS
  <2>2. m = IF n < Len(e) /\ is_greedy_wildcard(e[n + 1]) THEN n + 1 ELSE n
    BY <1>4, EndOfRule
  <2>3. x.end = m
    BY <1>3, <2>2 DEF extend_to_adjacent_greedy_wildcards
  <2>4. QED
    BY <1>1, <2>2, <2>3
<1>6. ~is_greedy_wildcard(e[b + 1])
  <2>1. 1 \in 1 .. n - b
    OBVIOUS
  <2>2. /\ chars(e, view) \in Seq(ExpressionCharacters) /\ Len(chars(e, view)) = n - b
        /\ \A k \in 1 .. n - b : chars(e, view)[k] = e[b + k]
    BY <1>2, CharsOfView
  <2>3. chars(e, view)[1] = e[b + 1] /\ chars(e, view) # << >>
    BY <2>1, <2>2
  <2>4. QED
    BY <1>1, <2>3 DEF starts_or_ends_with_greedy_wildcard
<1>7. StartOf(e, b) = b
  BY <1>6, EndOfRule DEF StartOf
<1>8. PICK g \in Seq(Letters) : g = SubSeq(q, 1, b)
  BY PrefixFacts
<1>9. collapsed(g) = g /\ collapsed(f) = collapsed(g)
  BY <1>1, <1>7, <1>8, PrefixCollapsed
<1>10. collapsed(SubSeq(q, 1, m)) = SubSeq(q, 1, m)
  <2>1. m \in 0 .. Len(q)
    BY <1>5
  <2>2. QED
    BY <2>1, PrefixCollapsed
<1>11. PICK t \in Seq(Letters) :
         /\ t = get_search_string(e, x) /\ Len(t) = m - x.begin
         /\ \A k \in 1 .. m - x.begin : t[k] = e[x.begin + k].value
  <2>1. IsView(e, x)
    BY <1>2, <1>3, ExtendedView
  <2>2. QED
    BY <1>5, <2>1, LettersOfView
<1>12. \A k \in 1 .. Len(q) : e[k].value = q[k]
  BY <1>1, LetterRule
<1>13. collapsed(f \o t) = collapsed(g \o t)
  BY <1>9, CollapsedOver
<1>14. CASE ~(b > 0 /\ is_greedy_wildcard(e[b]))
  <2>1. x.begin = b
    BY <1>3, <1>14 DEF extend_to_adjacent_greedy_wildcards
  <2>2. \A k \in 1 .. m - b : b + k \in 1 .. Len(q)
    BY <1>5
  <2>3. Continues(t, q, b, m)
    BY <1>11, <1>12, <2>1, <2>2 DEF Continues
  <2>4. g \o t = SubSeq(q, 1, m)
    <3>1. m \in 0 .. Len(q) /\ b <= m
      BY <1>5
    <3>2. QED
      BY <1>8, <2>3, <3>1, PrefixJoined
  <2>5. QED
    BY <1>1, <1>3, <1>4, <1>10, <1>11, <1>13, <2>4
<1>15. CASE b > 0 /\ is_greedy_wildcard(e[b])
  <2>1. /\ b \in 1 .. Len(q) /\ m \in b .. Len(q)
        /\ \A k \in 1 .. m - (b - 1) : (b - 1) + k \in 1 .. Len(q)
    BY <1>5, <1>15
  <2>2. x.begin = b - 1
    BY <1>3, <1>15 DEF extend_to_adjacent_greedy_wildcards
  <2>3. Continues(t, q, b - 1, m)
    BY <1>11, <1>12, <2>1, <2>2 DEF Continues
  <2>4. collapsed(g \o t) = SubSeq(q, 1, m)
    BY <1>1, <1>8, <1>15, <2>1, <2>3, SpelledTwice
  <2>5. QED
    BY <1>1, <1>3, <1>4, <1>11, <1>13, <2>4
<1>16. QED
  BY <1>14, <1>15

LEMMA SpelledView ==
  ASSUME NEW q \in Seq(Letters), Collapsed(q),
         NEW b \in 0 .. Len(q), NEW n \in 1 .. Len(q), b < n,
         NEW view, view = [begin |-> b, end |-> n], IsAsked(Expression(q), view),
         NEW f \in Seq(Letters), collapsed(f) = SubSeq(q, 1, StartOf(Expression(q), b))
  PROVE  collapsed(f \o TextOf(Expression(q), view)) = SubSeq(q, 1, EndOf(Expression(q), n))
<1>1. CASE get_search_string(Expression(q), view) = <<Star>>
  BY <1>1, SpelledStar DEF IsAsked, TextOf
<1>2. CASE get_search_string(Expression(q), view) # <<Star>>
  BY <1>2, SpelledText DEF IsAsked, TextOf
<1>3. QED
  BY <1>1, <1>2

-----------------------------------------------------------------------------
(***************************************************************************)
(* What an interpretation spells.                                          *)
(***************************************************************************)

\* No two static tokens are neighbours.
Apart(interpretation) ==
  \A i \in 1 .. Len(interpretation) - 1 :
    "variable" \in {interpretation[i].kind, interpretation[i + 1].kind}

LEMMA StaticTokens ==
  \A text \in Seq(Letters) :
    /\ StaticQueryToken(text) \in Tokens
    /\ StaticQueryToken(text).text = text /\ StaticQueryToken(text).kind = "static"
BY DEF StaticQueryToken, Tokens, Letters

LEMMA TokenKinds == \A token \in Tokens : token.kind \in {"static", "variable"}
BY DEF Tokens

LEMMA AppendedApart ==
  ASSUME NEW prefix \in Seq(Tokens), Apart(prefix), NEW token \in Tokens
  PROVE  Apart(append_query_interpretation(prefix, <<token>>))
<1>1. PICK n \in Nat : n = Len(prefix) /\ (prefix = << >> <=> n = 0)
  BY Appended
<1>2. \A i \in 1 .. n : prefix[i] \in Tokens /\ prefix[i].kind \in {"static", "variable"}
  <2>1. \A i \in 1 .. n : prefix[i] \in Tokens
    BY <1>1
  <2>2. QED
    BY <2>1, TokenKinds
<1>3. CASE prefix # << >> /\ Last(prefix).kind = "static" /\ token.kind = "static"
  <2>1. PICK front \in Seq(Tokens) :
          front = Front(prefix) /\ Len(front) = n - 1 /\ \A i \in 1 .. n - 1 : front[i] = prefix[i]
    <3>1. Front(prefix) \in Seq(Tokens) /\ Len(Front(prefix)) = n - 1
          /\ \A i \in 1 .. n - 1 : Front(prefix)[i] = prefix[i]
      BY <1>1, <1>3 DEF Front
    <3>2. QED
      BY <3>1
  <2>2. PICK merged \in Tokens :
          merged = StaticQueryToken(Last(prefix).text \o token.text) /\ merged.kind = "static"
    <3>1. prefix[n] \in Tokens /\ Last(prefix) = prefix[n]
      BY <1>1, <1>3 DEF Last
    <3>2. Last(prefix).text \in Seq(STRING) /\ token.text \in Seq(STRING)
      BY <3>1 DEF Tokens
    <3>3. Last(prefix).text \o token.text \in Seq(STRING)
      BY <3>2
    <3>4. QED
      BY <3>3, StaticTokens DEF Letters
  <2>3. PICK new \in Seq(Tokens) : new = Append(front, merged)
    BY Appended
  <2>4. Len(new) = n /\ new[n] = merged /\ \A i \in 1 .. n - 1 : new[i] = prefix[i]
    <3>1. /\ Len(new) = Len(front) + 1 /\ new[Len(front) + 1] = merged
          /\ \A i \in 1 .. Len(front) : new[i] = front[i]
      BY <2>3, Appended
    <3>2. QED
      BY <1>1, <2>1, <3>1
  <2>5. prefix[n].kind = "static"
    BY <1>1, <1>3 DEF Last
  <2>6. \A i \in 1 .. n : new[i].kind = prefix[i].kind
    BY <2>2, <2>4, <2>5
  <2>7. Apart(new)
    <3>1. \A i \in 1 .. n - 1 : i \in 1 .. n /\ i + 1 \in 1 .. n
      BY <1>1
    <3>2. QED
      BY <1>1, <2>4, <2>6, <3>1 DEF Apart
  <2>8. append_query_interpretation(prefix, <<token>>) = new
    BY <1>3, <2>1, <2>2, <2>3, AppendedToken
  <2>9. QED
    BY <2>7, <2>8
<1>4. CASE ~(prefix # << >> /\ Last(prefix).kind = "static" /\ token.kind = "static")
  <2>1. PICK new \in Seq(Tokens) : new = Append(prefix, token)
    BY Appended
  <2>2. Len(new) = n + 1 /\ new[n + 1] = token /\ \A i \in 1 .. n : new[i] = prefix[i]
    <3>1. /\ Len(new) = Len(prefix) + 1 /\ new[Len(prefix) + 1] = token
          /\ \A i \in 1 .. Len(prefix) : new[i] = prefix[i]
      BY <2>1, Appended
    <3>2. QED
      BY <1>1, <3>1
  <2>3. ASSUME NEW i \in 1 .. n PROVE "variable" \in {new[i].kind, new[i + 1].kind}
    <3>1. CASE i < n
      <4>1. i \in 1 .. n - 1 /\ i \in 1 .. n /\ i + 1 \in 1 .. n
        BY <3>1
      <4>2. QED
        BY <1>1, <2>2, <4>1 DEF Apart
    <3>2. CASE ~(i < n)
      <4>1. i = n /\ Last(prefix) = prefix[n] /\ prefix # << >>
        BY <1>1, <3>2 DEF Last
      <4>2. prefix[n].kind = "variable" \/ token.kind = "variable"
        <5>1. token.kind \in {"static", "variable"}
          BY TokenKinds
        <5>2. QED
          BY <1>2, <1>4, <4>1, <5>1
      <4>3. QED
        BY <2>2, <4>1, <4>2
    <3>3. QED
      BY <3>1, <3>2
  <2>4. Apart(new)
    <3>1. (n + 1) - 1 = n
      OBVIOUS
    <3>2. QED
      BY <2>2, <2>3, <3>1 DEF Apart
  <2>5. append_query_interpretation(prefix, <<token>>) = new
    BY <1>4, <2>1, AppendedToken
  <2>6. QED
    BY <2>4, <2>5
<1>5. QED
  BY <1>3, <1>4

LEMMA SpelledEmpty == Spelled(<< >>) = << >>
<1>1. TextsOf(<< >>) = << >>
  BY DEF TextsOf
<1>2. QED
  BY <1>1 DEF Spelled, FlattenSeq

\* The token's text comes behind that of the others, merged or not.
LEMMA SpelledAppended ==
  ASSUME NEW prefix \in Seq(Tokens), NEW token \in Tokens
  PROVE  Spelled(append_query_interpretation(prefix, <<token>>)) = Spelled(prefix) \o token.text
<1>1. PICK s \in Seq(Letters) : s = Spelled(prefix)
  BY TextsOfTokens DEF Strings
<1>2. PICK t \in Seq(Letters) : t = token.text
  BY DEF Tokens, Letters
<1>3. ASSUME NEW p \in Seq(Tokens), NEW k \in Tokens
      PROVE  Spelled(Append(p, k)) = Spelled(p) \o k.text
  <2>1. CASE p = << >>
    <3>1. PICK u \in Seq(Letters) : u = k.text
      BY DEF Tokens, Letters
    <3>2. << >> \o u = u
      BY ConcatEmptySeq
    <3>3. QED
      BY <2>1, <3>1, <3>2, SpelledAppend, SpelledEmpty
  <2>2. CASE p # << >>
    BY <2>2, SpelledAppend
  <2>3. QED
    BY <2>1, <2>2
<1>4. CASE prefix # << >> /\ Last(prefix).kind = "static" /\ token.kind = "static"
  <2>1. PICK front \in Seq(Tokens), last \in Tokens :
          front = Front(prefix) /\ last = Last(prefix) /\ prefix = Append(front, last)
    <3>1. Front(prefix) \in Seq(Tokens)
      BY <1>4 DEF Front
    <3>2. Last(prefix) \in Tokens
      BY <1>4 DEF Last
    <3>3. prefix = Append(Front(prefix), Last(prefix))
      BY <1>4 DEF Front, Last
    <3>4. QED
      BY <3>1, <3>2, <3>3
  <2>2. PICK u \in Seq(Letters) : u = last.text
    BY DEF Tokens, Letters
  <2>3. PICK f \in Seq(Letters) : f = Spelled(front)
    BY TextsOfTokens DEF Strings
  <2>4. PICK w \in Seq(Letters) : w = u \o t
    BY ConcatProperties
  <2>5. PICK merged \in Tokens : merged = StaticQueryToken(w) /\ merged.text = w
    BY StaticTokens
  <2>6. s = f \o u
    BY <1>1, <1>3, <2>1, <2>2, <2>3
  <2>7. append_query_interpretation(prefix, <<token>>) = Append(front, merged)
    BY <1>2, <1>4, <2>1, <2>2, <2>4, <2>5, AppendedToken
  <2>8. Spelled(Append(front, merged)) = f \o w
    BY <1>3, <2>3, <2>5
  <2>9. f \o w = s \o t
    <3>1. PICK x \in Seq(Letters), y \in Seq(Letters) : x = f \o w /\ y = s \o t
      BY ConcatProperties
    <3>2. PICK i \in Nat, j \in Nat, l \in Nat : i = Len(f) /\ j = Len(u) /\ l = Len(t)
      OBVIOUS
    <3>3. Len(w) = j + l /\ \A k \in 1 .. j + l : w[k] = IF k <= j THEN u[k] ELSE t[k - j]
      BY <2>4, <3>2, ConcatProperties
    <3>4. Len(s) = i + j /\ \A k \in 1 .. i + j : s[k] = IF k <= i THEN f[k] ELSE u[k - i]
      BY <2>6, <3>2, ConcatProperties
    <3>5. /\ Len(x) = i + (j + l)
          /\ \A k \in 1 .. i + (j + l) : x[k] = IF k <= i THEN f[k] ELSE w[k - i]
      <4>1. /\ Len(x) = Len(f) + Len(w)
            /\ \A k \in 1 .. Len(f) + Len(w) :
                 x[k] = IF k <= Len(f) THEN f[k] ELSE w[k - Len(f)]
        BY <3>1, ConcatProperties
      <4>2. QED
        BY <3>2, <3>3, <4>1
    <3>6. /\ Len(y) = (i + j) + l
          /\ \A k \in 1 .. (i + j) + l : y[k] = IF k <= i + j THEN s[k] ELSE t[k - (i + j)]
      BY <3>1, <3>2, <3>4, ConcatProperties
    <3>7. ASSUME NEW k \in 1 .. Len(x) PROVE x[k] = y[k]
      <4>1. k \in 1 .. i + (j + l) /\ k \in 1 .. (i + j) + l
        BY <3>5
      <4>2. CASE k <= i
        <5>1. k \in 1 .. i + j /\ k <= i + j
          BY <4>1, <4>2
        <5>2. QED
          BY <3>4, <3>5, <3>6, <4>1, <4>2, <5>1
      <4>3. CASE i < k /\ k <= i + j
        <5>1. k - i \in 1 .. j + l /\ k - i <= j /\ k \in 1 .. i + j /\ ~(k <= i)
          BY <4>3
        <5>2. QED
          BY <3>3, <3>4, <3>5, <3>6, <4>1, <4>3, <5>1
      <4>4. CASE i + j < k
        <5>1. k - i \in 1 .. j + l /\ ~(k - i <= j) /\ (k - i) - j = k - (i + j) /\ ~(k <= i)
              /\ ~(k <= i + j)
          BY <4>1, <4>4
        <5>2. QED
          BY <3>3, <3>5, <3>6, <4>1, <5>1
      <4>5. QED
        BY <4>2, <4>3, <4>4
    <3>8. Len(x) = Len(y)
      BY <3>5, <3>6
    <3>9. x = y
      BY <3>7, <3>8, SeqEqual
    <3>10. QED
      BY <3>1, <3>9
  <2>10. QED
    BY <1>1, <1>2, <2>7, <2>8, <2>9
<1>5. CASE ~(prefix # << >> /\ Last(prefix).kind = "static" /\ token.kind = "static")
  BY <1>3, <1>5, AppendedToken
<1>6. QED
  BY <1>4, <1>5

-----------------------------------------------------------------------------
(***************************************************************************)
(* The interpretations of the first k characters spell them.               *)
(***************************************************************************)
Spells(q, interpretation, k) ==
  /\ collapsed(Spelled(interpretation)) = SubSeq(q, 1, EndOf(Expression(q), k))
  /\ Apart(interpretation)

SpellInv ==
  /\ TypeOK
  /\ Collapsed(m_processed_query_string)
  /\ \A k \in DOMAIN query_interpretations : \A interpretation \in query_interpretations[k] :
       Spells(m_processed_query_string, interpretation, k)

LEMMA SpellInvSpells == SpellInv => InterpretationsSpellQuery
BY DEF SpellInv, InterpretationsSpellQuery, Spells, Spelled, TextsOf, EndOf, Apart

LEMMA AppendedSpells ==
  ASSUME NEW q \in Seq(Letters), Collapsed(q),
         NEW b \in 0 .. Len(q), NEW n \in 1 .. Len(q), b < n,
         NEW view, view = [begin |-> b, end |-> n], IsAsked(Expression(q), view),
         NEW token \in Tokens, token.text = TextOf(Expression(q), view),
         NEW prefix \in Seq(Tokens), IF b = 0 THEN prefix = << >> ELSE Spells(q, prefix, b)
  PROVE  Spells(q, append_query_interpretation(prefix, <<token>>), n)
<1>1. PICK s \in Seq(Letters) : s = Spelled(prefix)
  BY TextsOfTokens DEF Strings
<1>2. collapsed(s) = SubSeq(q, 1, StartOf(Expression(q), b)) /\ Apart(prefix)
  <2>1. CASE b = 0
    <3>1. collapsed(s) = << >>
      BY <1>1, <2>1, SpelledEmpty, CollapsedEmpty
    <3>2. SubSeq(q, 1, 0) = << >>
      BY SubSeqEmpty
    <3>3. Apart(<< >>)
      BY DEF Apart
    <3>4. QED
      BY <2>1, <3>1, <3>2, <3>3 DEF StartOf
  <2>2. CASE b # 0
    BY <1>1, <2>2 DEF Spells, StartOf
  <2>3. QED
    BY <2>1, <2>2
<1>3. collapsed(s \o token.text) = SubSeq(q, 1, EndOf(Expression(q), n))
  <2>1. collapsed(s \o TextOf(Expression(q), view)) = SubSeq(q, 1, EndOf(Expression(q), n))
    BY <1>2, SpelledView
  <2>2. QED
    BY <2>1
<1>4. QED
  BY <1>1, <1>2, <1>3, SpelledAppended, AppendedApart DEF Spells

LEMMA InitSpells == Init => SpellInv
<1>1. SUFFICES ASSUME Init PROVE SpellInv
  OBVIOUS
<1>2. PICK query_string \in Queries :
        LET processed == collapsed(query_string) IN
        /\ m_processed_query_string = processed
        /\ query_interpretations = [k \in 1 .. Len(processed) |-> {}]
  BY <1>1 DEF Init
<1>3. Collapsed(m_processed_query_string)
  <2>1. query_string \in Seq(Letters)
    BY QueryAssumption DEF Letters
  <2>2. QED
    BY <1>2, <2>1, CollapsedIsCollapsed
<1>4. QED
  BY <1>1, <1>2, <1>3, InitTypeOK DEF SpellInv

LEMMA NextSpells == SpellInv /\ [Next]_vars => SpellInv'
<1>1. SUFFICES ASSUME SpellInv, [Next]_vars PROVE SpellInv'
  OBVIOUS
<1>2. TypeOK /\ TypeOK'
  BY <1>1, NextTypeOK DEF SpellInv
<1>3. m_processed_query_string' = m_processed_query_string
  BY <1>1 DEF Next, InterpretView, NextEnd, ReturnInterpretations, vars
<1>4. PICK q \in Seq(Letters) : q = m_processed_query_string /\ Collapsed(q)
  BY <1>1, <1>2 DEF SpellInv, TypeOK, Letters
<1>5. CASE InterpretView
  <2>1. PICK e \in Seq(ExpressionCharacters) : e = Expression(q)
    BY LetterRule
  <2>2. PICK b \in 0 .. Len(q), n \in 1 .. Len(q) : b = begin_idx /\ n = end_idx /\ b < n
    <3>1. begin_idx \in Nat /\ end_idx \in 1 .. Len(q) /\ begin_idx < end_idx
      BY <1>2, <1>4, <1>5, AddedInterpretations
    <3>2. begin_idx \in 0 .. Len(q)
      BY <3>1
    <3>3. QED
      BY <3>1, <3>2
  <2>3. PICK view : view = [begin |-> b, end |-> n]
    OBVIOUS
  <2>4. /\ IsView(e, view)
        /\ \A k \in DOMAIN query_interpretations : k # n =>
             query_interpretations'[k] = query_interpretations[k]
        /\ DOMAIN query_interpretations' = DOMAIN query_interpretations
        /\ \A i \in query_interpretations'[n] :
             \/ i \in query_interpretations[n]
             \/ \E prefix \in IF b = 0 THEN {<< >>} ELSE query_interpretations[b],
                   s \in get_all_single_token_interpretations(e, view) :
                  /\ i = append_query_interpretation(prefix, s)
                  /\ get_search_string(e, view) = <<Star>>
                     \/ ~starts_or_ends_with_greedy_wildcard(chars(e, view))
    BY <1>2, <1>4, <1>5, <2>1, <2>2, <2>3, AddedInterpretations
  <2>5. ASSUME NEW i \in query_interpretations'[n] PROVE Spells(q, i, n)
    <3>1. CASE i \in query_interpretations[n]
      <4>1. n \in DOMAIN query_interpretations
        BY <1>2, <1>4 DEF TypeOK
      <4>2. QED
        BY <1>1, <1>4, <3>1, <4>1 DEF SpellInv
    <3>2. CASE i \notin query_interpretations[n]
      <4>1. PICK prefix \in IF b = 0 THEN {<< >>} ELSE query_interpretations[b],
                 s \in get_all_single_token_interpretations(e, view) :
              /\ i = append_query_interpretation(prefix, s)
              /\ get_search_string(e, view) = <<Star>>
                 \/ ~starts_or_ends_with_greedy_wildcard(chars(e, view))
        BY <2>4, <3>2
      <4>2. PICK token \in Tokens :
              s = <<token>> /\ token.text = TextOf(e, view) /\ is_well_formed(e, view)
        BY <2>4, SingleTokens
      <4>3. IsAsked(e, view)
        BY <4>1, <4>2 DEF IsAsked
      <4>4. prefix \in Seq(Tokens) /\ IF b = 0 THEN prefix = << >> ELSE Spells(q, prefix, b)
        <5>1. CASE b = 0
          <6>1. prefix = << >>
            BY <4>1, <5>1
          <6>2. << >> \in Seq(Tokens)
            OBVIOUS
          <6>3. QED
            BY <5>1, <6>1, <6>2
        <5>2. CASE b # 0
          <6>1. b \in DOMAIN query_interpretations /\ prefix \in query_interpretations[b]
            BY <1>2, <1>4, <4>1, <5>2 DEF TypeOK
          <6>2. prefix \in Seq(Tokens)
            BY <1>2, <6>1 DEF TypeOK
          <6>3. QED
            BY <1>1, <1>4, <5>2, <6>1, <6>2 DEF SpellInv
        <5>3. QED
          BY <5>1, <5>2
      <4>5. Spells(q, append_query_interpretation(prefix, <<token>>), n)
        BY <1>4, <2>1, <2>2, <2>3, <4>2, <4>3, <4>4, AppendedSpells
      <4>6. QED
        BY <4>1, <4>2, <4>5
    <3>3. QED
      BY <3>1, <3>2
  <2>6. ASSUME NEW k \in DOMAIN query_interpretations', NEW i \in query_interpretations'[k]
        PROVE  Spells(q, i, k)
    <3>1. CASE k = n
      BY <2>5, <2>6, <3>1
    <3>2. CASE k # n
      BY <1>1, <1>4, <2>4, <2>6, <3>2 DEF SpellInv
    <3>3. QED
      BY <3>1, <3>2
  <2>7. QED
    BY <1>2, <1>3, <1>4, <2>6 DEF SpellInv
<1>6. CASE NextEnd \/ ReturnInterpretations \/ UNCHANGED vars
  <2>1. query_interpretations' = query_interpretations
    BY <1>6 DEF NextEnd, ReturnInterpretations, vars
  <2>2. QED
    BY <1>1, <1>2, <1>3, <2>1 DEF SpellInv
<1>7. QED
  BY <1>1, <1>5, <1>6 DEF Next

\* No interpretation loses or repeats a part of the query, whatever views
\* get_all_multi_token_interpretations made it of and to whatever wildcards they were
\* extended: its tokens spell the query up to the end of the last view, wildcards that
\* two views share collapsed.  No two static tokens meet in
\* append_query_interpretation.
THEOREM InterpretationsAreTheQuery == Spec => []InterpretationsSpellQuery
<1>1. QED
  BY InitSpells, NextSpells, SpellInvSpells, PTL DEF Spec
=============================================================================
