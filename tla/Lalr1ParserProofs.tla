------------------------- MODULE Lalr1ParserProofs -------------------------
(***************************************************************************)
(* Proofs about the LALR(1) parser, for every grammar, every set of token  *)
(* types, every schema and every size of the input buffer: the tables that *)
(* generate() makes, what the parse stacks hold, and that each reduction   *)
(* and each acceptance of parse() finds what the code takes for granted.   *)
(***************************************************************************)
EXTENDS Lalr1Parser, Induction, SequenceTheorems

-----------------------------------------------------------------------------
(***************************************************************************)
(* The productions that add_production makes of those added.               *)
(***************************************************************************)
LEMMA FiniteImage ==
  ASSUME NEW S, IsFiniteSet(S), NEW f
  PROVE  IsFiniteSet({f[x] : x \in S})
<1> DEFINE T == {f[x] : x \in S}
<1>1. PICK h : h = [x \in S |-> f[x]]
  OBVIOUS
<1>2. h \in Surjection(S, T)
  BY <1>1 DEF Surjection
<1>3. IsFiniteSet(T)
  <2> HIDE DEF T
  <2>1. QED
    BY <1>2, FS_Surjection
<1>4. QED
  BY <1>3

\* A grammar as add_production leaves it: the second production is that of the root.
IsGrammar(G) ==
  /\ IsFiniteSet(G.terminals)
  /\ Len(G.prods) \in Nat /\ 2 <= Len(G.prods) /\ DOMAIN G.prods = 1 .. Len(G.prods)
  /\ \A p \in DOMAIN G.prods : G.prods[p].body \in Seq(Symbols(G) \ {StartPrime})
  /\ \A p \in DOMAIN G.prods : G.prods[p].head = StartPrime <=> p = m_root_production_id
  /\ G.prods[m_root_production_id].body = <<G.prods[1].head>>
  /\ is_productive(G)

Productions(names) == [head : names, body : Seq(names), rule : SUBSET Nat]

\* What was added before production number i + 1 has become prods.
Becomes(added, names, i, prods) ==
  /\ prods \in Seq(Productions(names \cup {StartPrime}))
  /\ i = 0 => prods = <<>>
  /\ i > 0 => /\ 2 <= Len(prods)
              /\ prods[2].head = StartPrime /\ prods[2].body = <<prods[1].head>>
              /\ \A p \in DOMAIN prods :
                   prods[p].body \in Seq(names) /\ (p # 2 => prods[p].head \in names)
              /\ \A j \in 1 .. i : \E p \in DOMAIN prods : prods[p].head = added[j].head

LEMMA ProductionAdded ==
  ASSUME NEW names, StartPrime \notin names, NEW added \in Seq(Productions(names)),
         NEW i \in Nat, i < Len(added), NEW prods, Becomes(added, names, i, prods)
  PROVE  Becomes(added, names, i + 1, add_production(prods, added[i + 1]))
<1>1. PICK p \in Productions(names) : p = added[i + 1]
  OBVIOUS
<1>2. p = [head |-> p.head, body |-> p.body, rule |-> p.rule]
      /\ p.head \in names /\ p.body \in Seq(names) /\ p.rule \in SUBSET Nat
  BY DEF Productions
<1> DEFINE N == names \cup {StartPrime}
<1>3. prods \in Seq(Productions(N))
  BY DEF Becomes
<1>4. p \in Productions(N)
  <2>1. Seq(names) \subseteq Seq(N)
    OBVIOUS
  <2>2. QED
    BY <1>2, <2>1 DEF Productions
<1>5. PICK same : same = {j \in DOMAIN prods : prods[j].head = p.head /\ prods[j].body = p.body}
  OBVIOUS
<1>6. CASE same # {}
  <2>1. i > 0
    BY <1>3, <1>5, <1>6 DEF Becomes
  <2>2. PICK new : new = [j \in DOMAIN prods |->
                            IF j \in same THEN [prods[j] EXCEPT !.rule = p.rule] ELSE prods[j]]
    OBVIOUS
  <2>3. ASSUME NEW j \in DOMAIN prods
        PROVE  /\ new[j].head = prods[j].head /\ new[j].body = prods[j].body
               /\ new[j] \in Productions(N)
    <3>1. prods[j] \in Productions(N)
      BY <1>3
    <3>2. QED
      BY <1>2, <2>2, <3>1 DEF Productions
  <2>4. new \in Seq(Productions(N)) /\ Len(new) = Len(prods)
    <3>1. PICK n \in Nat : n = Len(prods) /\ DOMAIN prods = 1 .. n
      BY <1>3
    <3>2. new \in [1 .. n -> Productions(N)]
      BY <2>2, <2>3, <3>1
    <3>3. new \in Seq(Productions(N))
      BY <3>2, SeqDef
    <3>4. DOMAIN new = 1 .. n /\ DOMAIN new = 1 .. Len(new) /\ Len(new) \in Nat
      BY <3>2, <3>3, LenProperties
    <3>5. Len(new) = n
      BY <3>4
    <3>6. QED
      BY <3>1, <3>3, <3>5
  <2>5. DOMAIN new = DOMAIN prods /\ 1 \in DOMAIN prods /\ 2 \in DOMAIN prods
    <3>1. PICK n \in Nat : n = Len(prods) /\ DOMAIN prods = 1 .. n
      BY <1>3
    <3>2. 2 <= n
      BY <2>1, <3>1 DEF Becomes
    <3>3. QED
      BY <2>2, <3>1, <3>2
  <2>6. \A j \in 1 .. i + 1 : \E q \in DOMAIN new : new[q].head = added[j].head
    <3>1. ASSUME NEW j \in 1 .. i PROVE \E q \in DOMAIN new : new[q].head = added[j].head
      BY <2>1, <2>3, <2>5 DEF Becomes
    <3>2. PICK q \in DOMAIN prods : prods[q].head = p.head
      BY <1>5, <1>6
    <3>3. new[q].head = added[i + 1].head
      BY <1>1, <2>3, <3>2
    <3>4. \A j \in 1 .. i + 1 : j \in 1 .. i \/ j = i + 1
      OBVIOUS
    <3>5. QED
      BY <2>5, <3>1, <3>3, <3>4
  <2>7. add_production(prods, p) = new
    BY <1>5, <1>6, <2>2 DEF add_production
  <2>8. 2 <= Len(new) /\ new[2].head = StartPrime /\ new[2].body = <<new[1].head>>
    BY <2>1, <2>3, <2>4, <2>5 DEF Becomes
  <2>9. \A q \in DOMAIN new : new[q].body \in Seq(names) /\ (q # 2 => new[q].head \in names)
    BY <2>1, <2>3, <2>5 DEF Becomes
  <2>10. i + 1 > 0 /\ i + 1 # 0
    OBVIOUS
  <2>11. Becomes(added, names, i + 1, new)
    BY <2>4, <2>6, <2>8, <2>9, <2>10 DEF Becomes
  <2>12. QED
    BY <1>1, <2>7, <2>11
<1>7. CASE same = {} /\ prods = <<>>
  <2>1. PICK root : root = Production(StartPrime, <<p.head>>, None)
    OBVIOUS
  <2>2. root.head = StartPrime /\ root.body = <<p.head>> /\ root \in Productions(N)
    <3>1. <<p.head>> \in Seq(N)
      BY <1>2
    <3>2. None \in SUBSET Nat
      BY DEF None
    <3>3. QED
      BY <2>1, <3>1, <3>2 DEF Production, Productions
  <2>3. PICK new : new = <<p, root>>
    OBVIOUS
  <2>4. new \in Seq(Productions(N)) /\ Len(new) = 2 /\ DOMAIN new = 1 .. 2
        /\ new[1] = p /\ new[2] = root
    BY <1>4, <2>2, <2>3
  <2>5. i = 0
    <3>1. Len(prods) = 0
      BY <1>7
    <3>2. QED
      BY <3>1 DEF Becomes
  <2>6. add_production(prods, p) = new
    BY <1>5, <1>7, <2>1, <2>3 DEF add_production
  <2>7. <<p.head>> \in Seq(names)
    BY <1>2
  <2>8. \A q \in 1 .. 2 : q = 1 \/ q = 2
    OBVIOUS
  <2>9. \A q \in 1 .. 2 : new[q].body \in Seq(names) /\ (q # 2 => new[q].head \in names)
    BY <1>2, <2>2, <2>4, <2>7, <2>8
  <2>10. \A j \in 1 .. i + 1 : \E q \in DOMAIN new : new[q].head = added[j].head
    <3>1. \A j \in 1 .. i + 1 : j = i + 1
      BY <2>5
    <3>2. new[1].head = added[i + 1].head /\ 1 \in DOMAIN new
      BY <1>1, <2>4
    <3>3. QED
      BY <3>1, <3>2
  <2>11. i + 1 > 0 /\ i + 1 # 0
    OBVIOUS
  <2>12. new[2].head = StartPrime /\ new[2].body = <<new[1].head>> /\ 2 <= Len(new)
    BY <2>2, <2>4
  <2>13. Becomes(added, names, i + 1, new)
    BY <2>4, <2>9, <2>10, <2>11, <2>12 DEF Becomes
  <2>14. QED
    BY <1>1, <2>6, <2>13
<1>8. CASE same = {} /\ prods # <<>>
  <2>1. PICK new : new = Append(prods, p)
    OBVIOUS
  <2>2. PICK n \in Nat : n = Len(prods)
    BY <1>3
  <2>3. /\ new \in Seq(Productions(N)) /\ Len(new) = n + 1 /\ DOMAIN new = 1 .. n + 1
        /\ new[n + 1] = p /\ \A q \in 1 .. n : new[q] = prods[q]
    BY <1>3, <1>4, <2>1, <2>2
  <2>4. i > 0 /\ 2 <= n
    BY <1>8, <2>2 DEF Becomes
  <2>5. DOMAIN prods = 1 .. n
    BY <1>3, <2>2
  <2>6. \A q \in 1 .. n + 1 : q \in 1 .. n \/ q = n + 1
    OBVIOUS
  <2>7. \A q \in DOMAIN new : new[q].body \in Seq(names) /\ (q # 2 => new[q].head \in names)
    BY <1>2, <2>3, <2>4, <2>5, <2>6 DEF Becomes
  <2>8. \A j \in 1 .. i + 1 : \E q \in DOMAIN new : new[q].head = added[j].head
    <3>1. ASSUME NEW j \in 1 .. i PROVE \E q \in DOMAIN new : new[q].head = added[j].head
      <4>1. PICK q \in 1 .. n : prods[q].head = added[j].head
        BY <2>4, <2>5 DEF Becomes
      <4>2. QED
        BY <2>3, <4>1
    <3>2. new[n + 1].head = added[i + 1].head /\ n + 1 \in DOMAIN new
      BY <1>1, <2>3
    <3>3. \A j \in 1 .. i + 1 : j \in 1 .. i \/ j = i + 1
      OBVIOUS
    <3>4. QED
      BY <3>1, <3>2, <3>3
  <2>9. new[1] = prods[1] /\ new[2] = prods[2]
    BY <2>3, <2>4
  <2>10. add_production(prods, p) = new
    BY <1>5, <1>8, <2>1 DEF add_production
  <2>11. i + 1 > 0 /\ i + 1 # 0
    OBVIOUS
  <2>12. new[2].head = StartPrime /\ new[2].body = <<new[1].head>> /\ 2 <= Len(new)
    BY <2>3, <2>4, <2>9 DEF Becomes
  <2>13. Becomes(added, names, i + 1, new)
    BY <2>3, <2>7, <2>8, <2>11, <2>12 DEF Becomes
  <2>14. QED
    BY <1>1, <2>10, <2>13
<1>9. QED
  BY <1>6, <1>7, <1>8

LEMMA AddedIsTyped ==
  ASSUME NEW N, StartPrime \in N, NEW prods \in Seq(Productions(N)), NEW p \in Productions(N)
  PROVE  add_production(prods, p) \in Seq(Productions(N))
<1>1. PICK same : same = {j \in DOMAIN prods : prods[j].head = p.head /\ prods[j].body = p.body}
  OBVIOUS
<1>2. CASE same # {}
  <2>1. PICK new : new = [j \in DOMAIN prods |->
                            IF j \in same THEN [prods[j] EXCEPT !.rule = p.rule] ELSE prods[j]]
    OBVIOUS
  <2>2. PICK n \in Nat : DOMAIN prods = 1 .. n
    OBVIOUS
  <2>3. ASSUME NEW j \in 1 .. n PROVE new[j] \in Productions(N)
    <3>1. prods[j] \in Productions(N)
      BY <2>2
    <3>2. QED
      BY <2>1, <2>2, <3>1 DEF Productions
  <2>4. new \in [1 .. n -> Productions(N)]
    BY <2>1, <2>2, <2>3
  <2>5. add_production(prods, p) = new
    BY <1>1, <1>2, <2>1 DEF add_production
  <2>6. QED
    BY <2>4, <2>5, SeqDef
<1>3. CASE same = {} /\ prods = <<>>
  <2>1. <<p.head>> \in Seq(N) /\ None \in SUBSET Nat
    BY DEF None, Productions
  <2>2. Production(StartPrime, <<p.head>>, None) \in Productions(N)
    BY <2>1 DEF Production, Productions
  <2>3. add_production(prods, p) = <<p, Production(StartPrime, <<p.head>>, None)>>
    BY <1>1, <1>3 DEF add_production
  <2>4. QED
    BY <2>2, <2>3
<1>4. CASE same = {} /\ prods # <<>>
  <2>1. add_production(prods, p) = Append(prods, p)
    BY <1>1, <1>4 DEF add_production
  <2>2. QED
    BY <2>1
<1>5. QED
  BY <1>2, <1>3, <1>4

IsAdding(after, added) ==
  after = [i \in 0 .. Len(added) |->
             IF i = 0 THEN <<>> ELSE add_production(after[i - 1], added[i])]

LEMMA AddingExists ==
  ASSUME NEW names, NEW added \in Seq(Productions(names))
  PROVE  \E after : IsAdding(after, added)
<1> DEFINE N == names \cup {StartPrime}
           R == Seq(Productions(N))
<1>1. PICK n \in Nat : n = Len(added) /\ DOMAIN added = 1 .. n
  OBVIOUS
<1>2. Productions(names) \subseteq Productions(N)
  <2>1. Seq(names) \subseteq Seq(N)
    OBVIOUS
  <2>2. QED
    BY <2>1 DEF Productions
<1>3. PICK step : step = [i \in 1 .. n |-> [prods \in R |-> add_production(prods, added[i])]]
  OBVIOUS
<1>4. ASSUME NEW i \in 1 .. n, NEW prods \in R PROVE step[i][prods] \in R
  <2>1. added[i] \in Productions(N)
    <3>1. added[i] \in Productions(names)
      BY <1>1
    <3> HIDE DEF N
    <3>2. QED
      BY <1>2, <3>1
  <2>2. add_production(prods, added[i]) \in R
    BY <2>1, AddedIsTyped
  <2>3. QED
    BY <1>3, <2>2
<1>5. step \in [1 .. n -> [R -> R]]
  <2> HIDE DEF R
  <2>1. \A i \in 1 .. n : step[i] = [prods \in R |-> step[i][prods]]
    BY <1>3
  <2>2. \A i \in 1 .. n : step[i] \in [R -> R]
    BY <1>4, <2>1
  <2>3. QED
    BY <1>3, <2>2
<1>6. PICK f \in [0 .. n -> R] : Iterates(f, n, <<>>, step)
  <2>1. <<>> \in R
    OBVIOUS
  <2> HIDE DEF R
  <2>2. QED
    BY <1>1, <1>5, <2>1, Iteration
<1>7. \A i \in 0 .. n : i # 0 => step[i][f[i - 1]] = add_production(f[i - 1], added[i])
  <2> HIDE DEF R
  <2>1. ASSUME NEW i \in 0 .. n, i # 0 PROVE i - 1 \in 0 .. n /\ i \in 1 .. n
    BY <2>1
  <2>2. \A i \in 0 .. n : f[i] \in R
    BY <1>6
  <2>3. QED
    BY <1>3, <2>1, <2>2
<1>8. IsAdding(f, added)
  BY <1>1, <1>6, <1>7 DEF IsAdding, Iterates
<1>9. QED
  BY <1>8

LEMMA AddedProductions ==
  ASSUME NEW names, StartPrime \notin names, NEW added \in Seq(Productions(names))
  PROVE  Becomes(added, names, Len(added), productions(added))
<1>1. PICK after : IsAdding(after, added) /\ productions(added) = after[Len(added)]
  <2>1. \E after : IsAdding(after, added)
    BY AddingExists
  <2>2. QED
    BY <2>1 DEF IsAdding, productions
<1>2. PICK n \in Nat : n = Len(added)
  OBVIOUS
<1>3. after[0] = <<>> /\ \A i \in 0 .. n : i # 0 => after[i] = add_production(after[i - 1], added[i])
  BY <1>1, <1>2 DEF IsAdding
<1> DEFINE S == {i \in Nat : i <= n => Becomes(added, names, i, after[i])}
<1>4. 0 \in S
  <2>1. <<>> \in Seq(Productions(names \cup {StartPrime}))
    OBVIOUS
  <2>2. Becomes(added, names, 0, <<>>)
    BY <2>1 DEF Becomes
  <2>3. QED
    BY <1>3, <2>2
<1>5. ASSUME NEW i \in Nat, i \in S PROVE i + 1 \in S
  <2>1. SUFFICES ASSUME i + 1 <= n PROVE Becomes(added, names, i + 1, after[i + 1])
    OBVIOUS
  <2>2. Becomes(added, names, i, after[i]) /\ i < Len(added)
    BY <1>2, <1>5, <2>1
  <2>3. Becomes(added, names, i + 1, add_production(after[i], added[i + 1]))
    BY <2>2, ProductionAdded
  <2>4. i + 1 \in 0 .. n /\ i + 1 # 0 /\ (i + 1) - 1 = i
    BY <2>1
  <2>5. after[i + 1] = add_production(after[i], added[i + 1])
    BY <1>3, <2>4
  <2>6. QED
    BY <2>3, <2>5
<1>6. n \in S
  <2> HIDE DEF S
  <2>1. QED
    BY <1>4, <1>5, SetInduction
<1>7. QED
  BY <1>1, <1>2, <1>6

\* The grammar of g.
GrammarOf(grammar) == [terminals |-> grammar.terminals, prods |-> productions(grammar.added)]

LEMMA GrammarsAreGrammars ==
  ASSUME NEW grammar \in Grammars
  PROVE  IsGrammar(GrammarOf(grammar))
<1>1. PICK added : added = grammar.added
  OBVIOUS
<1>2. PICK T : T = grammar.terminals
  OBVIOUS
<1>3. PICK names : names = (T \cup {p.head : p \in Range(added)}) \ {StartPrime}
  OBVIOUS
<1>4. PICK G : G = GrammarOf(grammar)
  OBVIOUS
<1>5. /\ IsFiniteSet(T) /\ added # <<>> /\ added \in Seq(Productions(names))
      /\ is_productive(G)
  BY <1>1, <1>2, <1>3, <1>4, GrammarAssumption DEF Productions, GrammarOf
<1>6. G.terminals = T /\ G.prods = productions(added)
  BY <1>1, <1>2, <1>4 DEF GrammarOf
<1>7. PICK n \in Nat : n = Len(added) /\ n > 0
  BY <1>5
<1>8. Becomes(added, names, n, G.prods)
  BY <1>3, <1>5, <1>6, <1>7, AddedProductions
<1>9. G.prods \in Seq(Productions(names \cup {StartPrime}))
  BY <1>8 DEF Becomes
<1>10. Len(G.prods) \in Nat /\ 2 <= Len(G.prods) /\ DOMAIN G.prods = 1 .. Len(G.prods)
  BY <1>7, <1>8, <1>9 DEF Becomes
<1>11. /\ G.prods[2].head = StartPrime /\ G.prods[2].body = <<G.prods[1].head>>
       /\ \A p \in DOMAIN G.prods :
                   G.prods[p].body \in Seq(names) /\ (p # 2 => G.prods[p].head \in names)
       /\ \A j \in 1 .. n : \E p \in DOMAIN G.prods : G.prods[p].head = added[j].head
  BY <1>7, <1>8 DEF Becomes
<1>12. names \subseteq Symbols(G) \ {StartPrime}
  <2>1. ASSUME NEW x \in names PROVE x \in Symbols(G) \ {StartPrime}
    <3>1. CASE x \in T
      BY <1>3, <1>6, <3>1 DEF Symbols
    <3>2. CASE x \notin T
      <4>1. PICK p \in Range(added) : x = p.head
        BY <1>3, <3>2
      <4>2. PICK j \in DOMAIN added : p = added[j]
        BY <4>1 DEF Range
      <4>3. j \in 1 .. n
        BY <1>5, <1>7
      <4>4. PICK q \in DOMAIN G.prods : G.prods[q].head = x
        BY <1>11, <4>1, <4>2, <4>3
      <4>5. QED
        BY <1>3, <4>4 DEF Symbols, NonTerminals
    <3>3. QED
      BY <3>1, <3>2
  <2>2. QED
    BY <2>1
<1>13. Seq(names) \subseteq Seq(Symbols(G) \ {StartPrime})
  BY <1>12
<1>14. \A p \in DOMAIN G.prods : G.prods[p].head = StartPrime <=> p = 2
  BY <1>3, <1>11
<1>15. QED
  BY <1>4, <1>5, <1>6, <1>10, <1>11, <1>13, <1>14 DEF IsGrammar, m_root_production_id
-----------------------------------------------------------------------------
(***************************************************************************)
(* What a worklist finds.                                                  *)
(***************************************************************************)
IsWorklist(P, step, start, W) ==
  /\ W \in SUBSET P
  /\ start \subseteq W
  /\ \A x \in W : step[x] \subseteq W
  /\ \A C \in SUBSET P : start \subseteq C /\ (\A x \in C : step[x] \subseteq C) => W \subseteq C

LEMMA Worklists ==
  ASSUME NEW P, IsFiniteSet(P), NEW step \in [P -> SUBSET P], NEW start \in SUBSET P
  PROVE  IsWorklist(P, step, start, worklist(step, start))
<1>1. PICK all : Loops(all, P, step) /\ worklist(step, start) = all[start]
  <2>1. \E all : Loops(all, P, step)
    BY LoopsExist
  <2>2. DOMAIN step = P
    OBVIOUS
  <2>3. QED
    BY <2>1, <2>2 DEF Loops, worklist, Onward
<1>2. PICK W : W = Least(P, step, start)
  OBVIOUS
<1>3. worklist(step, start) = W
  BY <1>1, <1>2, LoopsFindAll
<1>4. W \in SUBSET P /\ start \subseteq W
  BY <1>2 DEF Least
<1>5. \A C \in SUBSET P : (\A x \in C : step[x] \subseteq C) => C \in Closed(P, step)
  BY DEF Closed, Onward
<1>6. \A C \in Closed(P, step) : \A x \in C : step[x] \subseteq C
  BY DEF Closed, Onward
<1>7. \A C \in SUBSET P : start \subseteq C /\ (\A x \in C : step[x] \subseteq C) => W \subseteq C
  BY <1>2, <1>5 DEF Least
<1>8. ASSUME NEW x \in W, NEW y \in step[x] PROVE y \in W
  <2>1. y \in P
    BY <1>4, <1>8
  <2>2. \A C \in Closed(P, step) : start \subseteq C => x \in C
    BY <1>2, <1>8 DEF Least
  <2>3. \A C \in Closed(P, step) : start \subseteq C => y \in C
    BY <1>6, <1>8, <2>2
  <2>4. QED
    BY <1>2, <2>1, <2>3 DEF Least
<1>9. QED
  BY <1>3, <1>4, <1>7, <1>8 DEF IsWorklist

-----------------------------------------------------------------------------
(***************************************************************************)
(* Items of a grammar.                                                     *)
(***************************************************************************)
LEMMA FiniteSymbols ==
  ASSUME NEW G, IsGrammar(G)
  PROVE  IsFiniteSet(Symbols(G)) /\ IsFiniteSet(Lookaheads(G))
<1>1. IsFiniteSet(DOMAIN G.prods)
  <2>1. 1 \in Int /\ Len(G.prods) \in Int
    BY DEF IsGrammar
  <2>2. QED
    BY <2>1, FS_Interval DEF IsGrammar
<1>2. IsFiniteSet(NonTerminals(G))
  <2>1. PICK f : f = [p \in DOMAIN G.prods |-> G.prods[p].head]
    OBVIOUS
  <2>2. IsFiniteSet({f[p] : p \in DOMAIN G.prods})
    BY <1>1, FiniteImage
  <2>3. NonTerminals(G) = {f[p] : p \in DOMAIN G.prods}
    BY <2>1 DEF NonTerminals
  <2>4. QED
    BY <2>2, <2>3
<1>3. IsFiniteSet(Symbols(G))
  BY <1>2, FS_Union DEF Symbols, IsGrammar
<1>4. IsFiniteSet({TokenEnd}) /\ IsFiniteSet({NullSymbol})
  BY FS_Singleton
<1>5. IsFiniteSet(Symbols(G) \cup {TokenEnd})
  BY <1>3, <1>4, FS_Union
<1>6. IsFiniteSet((Symbols(G) \cup {TokenEnd}) \cup {NullSymbol})
  BY <1>4, <1>5, FS_Union
<1>7. Lookaheads(G) = (Symbols(G) \cup {TokenEnd}) \cup {NullSymbol}
  BY DEF Lookaheads
<1>8. QED
  BY <1>3, <1>6, <1>7

LEMMA FiniteItems ==
  ASSUME NEW G, IsGrammar(G)
  PROVE  IsFiniteSet(Items(G))
<1>1. PICK P : P = DOMAIN G.prods
  OBVIOUS
<1>2. PICK L : L = Lookaheads(G)
  OBVIOUS
<1>3. PICK n \in Nat : n = Len(G.prods) /\ P = 1 .. n
  BY <1>1 DEF IsGrammar
<1>4. ASSUME NEW p \in P PROVE Len(G.prods[p].body) \in Nat
  BY <1>1 DEF IsGrammar
<1>5. PICK of : of = [p \in P |-> {i \in Items(G) : i[1] = p}]
  OBVIOUS
<1>6. ASSUME NEW p \in P PROVE IsFiniteSet(of[p])
  <2>1. PICK m \in Nat : m = Len(G.prods[p].body)
    BY <1>4
  <2>2. PICK D : D = 0 .. m
    OBVIOUS
  <2>3. IsFiniteSet(D) /\ IsFiniteSet(L)
    BY <1>2, <2>2, FS_Interval, FiniteSymbols
  <2>4. IsFiniteSet(D \X L)
    BY <2>3, FS_Product
  <2>5. PICK f : f = [y \in D \X L |-> <<p, y[1], y[2]>>]
    OBVIOUS
  <2>6. IsFiniteSet({f[y] : y \in D \X L})
    BY <2>4, FiniteImage
  <2>7. ASSUME NEW i \in of[p] PROVE i \in {f[y] : y \in D \X L}
    <3>1. i \in (DOMAIN G.prods) \X Nat \X Lookaheads(G) /\ i[2] <= m /\ i[1] = p
      BY <1>5, <2>1 DEF Items
    <3>2. i[2] \in D /\ i[3] \in L /\ i = <<p, i[2], i[3]>>
      BY <1>2, <2>2, <3>1
    <3>3. <<i[2], i[3]>> \in D \X L
      BY <3>2
    <3>4. f[<<i[2], i[3]>>] = i
      BY <2>5, <3>2, <3>3
    <3>5. QED
      BY <3>3, <3>4
  <2>8. of[p] \in SUBSET {f[y] : y \in D \X L}
    BY <2>7
  <2>9. QED
    BY <2>6, <2>8, FS_Subset
<1>7. IsFiniteSet({of[p] : p \in P})
  <2>1. IsFiniteSet(P)
    BY <1>3, FS_Interval
  <2>2. QED
    BY <2>1, FiniteImage
<1>8. IsFiniteSet(UNION {of[p] : p \in P})
  <2>1. \A S \in {of[p] : p \in P} : IsFiniteSet(S)
    BY <1>6
  <2>2. QED
    BY <1>7, <2>1, FS_UNION
<1>9. Items(G) = UNION {of[p] : p \in P}
  <2>1. \A i \in Items(G) : i[1] \in P /\ i \in of[i[1]]
    BY <1>1, <1>5 DEF Items
  <2>2. QED
    BY <1>5, <2>1
<1>10. QED
  BY <1>8, <1>9

\* What is known of an item.
LEMMA ItemParts ==
  ASSUME NEW G, IsGrammar(G), NEW i \in Items(G)
  PROVE  /\ i = <<i[1], i[2], i[3]>>
         /\ i[1] \in DOMAIN G.prods /\ i[2] \in Nat /\ i[3] \in Lookaheads(G)
         /\ i[2] <= Len(body_of(G, i)) /\ Len(body_of(G, i)) \in Nat
         /\ body_of(G, i) \in Seq(Symbols(G) \ {StartPrime})
BY DEF Items, IsGrammar, body_of

LEMMA IsItem ==
  ASSUME NEW G, NEW p \in DOMAIN G.prods, NEW d \in Nat, NEW l \in Lookaheads(G),
         d <= Len(G.prods[p].body)
  PROVE  <<p, d, l>> \in Items(G)
BY DEF Items

\* The symbol after the dot, and the dot beyond it.
LEMMA DotMoves ==
  ASSUME NEW G, IsGrammar(G), NEW i \in Items(G), ~has_dot_at_end(G, i)
  PROVE  /\ next_symbol(G, i) \in Symbols(G) \ {StartPrime}
         /\ <<i[1], i[2] + 1, i[3]>> \in Items(G)
<1>1. PICK n \in Nat : n = Len(body_of(G, i))
  BY ItemParts
<1>2. i[2] \in Nat /\ i[2] < n
  <2>1. i[2] \in Nat /\ i[2] <= n
    BY <1>1, ItemParts
  <2>2. i[2] # n
    BY <1>1 DEF has_dot_at_end
  <2>3. QED
    BY <2>1, <2>2
<1>3. body_of(G, i) \in Seq(Symbols(G) \ {StartPrime}) /\ i[2] + 1 \in 1 .. n
  BY <1>2, ItemParts
<1>4. next_symbol(G, i) \in Symbols(G) \ {StartPrime}
  BY <1>1, <1>3 DEF next_symbol
<1>5. i[2] + 1 \in Nat /\ i[2] + 1 <= Len(G.prods[i[1]].body)
  BY <1>1, <1>2 DEF body_of
<1>6. QED
  BY <1>4, <1>5, ItemParts, IsItem

LEMMA ExpandedAreProductions ==
  ASSUME NEW G, IsGrammar(G), NEW i \in Items(G), NEW p \in expanded(G, i)
  PROVE  /\ p \in DOMAIN G.prods
         /\ p # m_root_production_id
         /\ \A l \in Lookaheads(G) : <<p, 0, l>> \in Items(G)
<1>1. p \in DOMAIN G.prods /\ ~has_dot_at_end(G, i) /\ G.prods[p].head = next_symbol(G, i)
  BY DEF expanded
<1>2. p # m_root_production_id
  BY <1>1, DotMoves DEF IsGrammar
<1>3. 0 \in Nat /\ 0 <= Len(G.prods[p].body)
  BY <1>1 DEF IsGrammar
<1>4. QED
  BY <1>1, <1>2, <1>3, IsItem

-----------------------------------------------------------------------------
(***************************************************************************)
(* LR(0) item sets.                                                        *)
(***************************************************************************)
\* The items without lookaheads.
Cores(G) == {i \in Items(G) : i[3] = NullSymbol}

Lr0Step(G) == [i \in Items(G) |-> {<<p, 0, NullSymbol>> : p \in expanded(G, i)}]

LEMMA Lr0Closures ==
  ASSUME NEW G, IsGrammar(G), NEW K \in SUBSET Items(G)
  PROVE  IsWorklist(Items(G), Lr0Step(G), K, lr0_closure(G, K))
<1>1. Lr0Step(G) \in [Items(G) -> SUBSET Items(G)]
  <2>1. NullSymbol \in Lookaheads(G)
    BY DEF Lookaheads
  <2>2. \A i \in Items(G) : \A p \in expanded(G, i) : <<p, 0, NullSymbol>> \in Items(G)
    BY <2>1, ExpandedAreProductions
  <2>3. QED
    BY <2>2 DEF Lr0Step
<1>2. lr0_closure(G, K) = worklist(Lr0Step(G), K)
  BY DEF lr0_closure, Lr0Step
<1>3. QED
  BY <1>1, <1>2, FiniteItems, Worklists

\* The closure adds items with the dot at the beginning, for what is after a dot.
LEMMA Lr0ClosureIs ==
  ASSUME NEW G, IsGrammar(G), NEW K \in SUBSET Cores(G)
  PROVE  LET C == lr0_closure(G, K) IN
         /\ C \in SUBSET Cores(G)
         /\ K \subseteq C
         /\ \A i \in C : \A p \in expanded(G, i) : <<p, 0, NullSymbol>> \in C
         /\ \A i \in C : i \in K \/ (\E j \in C : i[1] \in expanded(G, j) /\ i[2] = 0)
<1>1. PICK C : C = lr0_closure(G, K)
  OBVIOUS
<1>2. K \in SUBSET Items(G)
  BY DEF Cores
<1>3. IsWorklist(Items(G), Lr0Step(G), K, C)
  BY <1>1, <1>2, Lr0Closures
<1>4. /\ C \in SUBSET Items(G) /\ K \subseteq C
      /\ \A i \in C : Lr0Step(G)[i] \subseteq C
  BY <1>3 DEF IsWorklist
<1>5. ASSUME NEW i \in C, NEW p \in expanded(G, i) PROVE <<p, 0, NullSymbol>> \in C
  BY <1>4, <1>5 DEF Lr0Step
<1>6. PICK D : D = {i \in C : \/ i \in K
                              \/ \E j \in C : i[1] \in expanded(G, j) /\ i[2] = 0 /\ i[3] = NullSymbol}
  OBVIOUS
<1>7. ASSUME NEW i \in D, NEW y \in Lr0Step(G)[i] PROVE y \in D
  <2>1. i \in C /\ i \in Items(G)
    BY <1>4, <1>6, <1>7
  <2>2. PICK p \in expanded(G, i) : y = <<p, 0, NullSymbol>>
    BY <1>7, <2>1 DEF Lr0Step
  <2>3. y \in C /\ y[1] = p /\ y[2] = 0 /\ y[3] = NullSymbol
    BY <1>5, <2>1, <2>2
  <2>4. QED
    BY <1>6, <2>1, <2>2, <2>3
<1>8. D \in SUBSET Items(G) /\ K \subseteq D
  BY <1>4, <1>6
<1>9. C \subseteq D
  BY <1>3, <1>7, <1>8 DEF IsWorklist
<1>10. C \in SUBSET Cores(G)
  <2>1. \A i \in K : i[3] = NullSymbol
    BY DEF Cores
  <2>2. \A i \in C : i[3] = NullSymbol
    BY <1>6, <1>9, <2>1
  <2>3. QED
    BY <1>4, <2>2 DEF Cores
<1>11. \A i \in C : i \in K \/ (\E j \in C : i[1] \in expanded(G, j) /\ i[2] = 0)
  BY <1>6, <1>9
<1>12. QED
  BY <1>1, <1>4, <1>5, <1>10, <1>11

\* A kernel is that of the root, or the dot of each of its items has moved.
Moved(G) == {K \in SUBSET Cores(G) : K # {} /\ \A i \in K : i[2] > 0}
Kernels(G) == {root_kernel} \cup Moved(G)

LEMMA RootKernel ==
  ASSUME NEW G, IsGrammar(G)
  PROVE  root_kernel \in SUBSET Cores(G)
<1>1. NullSymbol \in Lookaheads(G) /\ 0 \in Nat /\ m_root_production_id \in DOMAIN G.prods
  BY DEF Lookaheads, m_root_production_id, IsGrammar
<1>2. 0 <= Len(G.prods[m_root_production_id].body)
  BY <1>1 DEF IsGrammar
<1>3. <<m_root_production_id, 0, NullSymbol>> \in Items(G)
  BY <1>1, <1>2, IsItem
<1>4. QED
  BY <1>3 DEF root_kernel, Cores

LEMMA KernelsAreCores ==
  ASSUME NEW G, IsGrammar(G)
  PROVE  Kernels(G) \subseteq SUBSET Cores(G)
BY RootKernel DEF Kernels, Moved

LEMMA GoTo ==
  ASSUME NEW G, IsGrammar(G), NEW K \in SUBSET Cores(G), NEW x
  PROVE  /\ \A i \in lr0_closure(G, K) : ~has_dot_at_end(G, i) /\ next_symbol(G, i) = x
              => <<i[1], i[2] + 1, i[3]>> \in go_to(G, K, x)
         /\ \A j \in go_to(G, K, x) : \E i \in lr0_closure(G, K) :
              /\ ~has_dot_at_end(G, i) /\ next_symbol(G, i) = x
              /\ j = <<i[1], i[2] + 1, i[3]>>
         /\ go_to(G, K, x) # {} => go_to(G, K, x) \in Moved(G)
<1>1. PICK C : C = lr0_closure(G, K)
  OBVIOUS
<1>2. C \in SUBSET Cores(G)
  BY <1>1, Lr0ClosureIs
<1>3. go_to(G, K, x) = {<<i[1], i[2] + 1, i[3]>> :
                          i \in {i \in C : ~has_dot_at_end(G, i) /\ next_symbol(G, i) = x}}
  BY <1>1 DEF go_to
<1>4. ASSUME NEW i \in C, ~has_dot_at_end(G, i)
      PROVE  /\ <<i[1], i[2] + 1, i[3]>> \in Cores(G)
             /\ i[2] + 1 > 0
  <2>1. i \in Items(G) /\ i[3] = NullSymbol
    BY <1>2 DEF Cores
  <2>2. <<i[1], i[2] + 1, i[3]>> \in Items(G) /\ i[2] \in Nat
    BY <1>4, <2>1, DotMoves, ItemParts
  <2>3. QED
    BY <2>1, <2>2 DEF Cores
<1>5. ASSUME go_to(G, K, x) # {} PROVE go_to(G, K, x) \in Moved(G)
  <2>1. \A j \in go_to(G, K, x) : j \in Cores(G) /\ j[2] > 0
    BY <1>3, <1>4
  <2>2. QED
    BY <1>5, <2>1 DEF Moved
<1>6. QED
  BY <1>1, <1>3, <1>5

KernelStep(G) == [K \in SUBSET Items(G) |-> {go_to(G, K, x) : x \in Symbols(G)} \ {{}}]

LEMMA FiniteCores ==
  ASSUME NEW G, IsGrammar(G)
  PROVE  IsFiniteSet(SUBSET Items(G))
BY FiniteItems, FS_SUBSET

\* The item sets: closed under go_to, and each of them is a kernel; what holds of the
\* root's and is kept by go_to holds of all.
LEMMA Lr0Kernels ==
  ASSUME NEW G, IsGrammar(G)
  PROVE  LET kernels == lr0_kernels(G) IN
         /\ root_kernel \in kernels
         /\ kernels \subseteq Kernels(G)
         /\ \A K \in kernels : \A x \in Symbols(G) :
              go_to(G, K, x) # {} => go_to(G, K, x) \in kernels
         /\ \A S \in SUBSET Kernels(G) :
              /\ root_kernel \in S
              /\ \A K \in S : \A x \in Symbols(G) : go_to(G, K, x) # {} => go_to(G, K, x) \in S
              => kernels \subseteq S
<1>1. PICK P : P = SUBSET Items(G)
  OBVIOUS
<1>2. PICK W : W = worklist(KernelStep(G), {root_kernel})
  OBVIOUS
<1>3. lr0_kernels(G) = W
  BY <1>2 DEF lr0_kernels, KernelStep
<1>4. ASSUME NEW K \in P, NEW y \in KernelStep(G)[K] PROVE y \in P
  <2>1. PICK x : y = go_to(G, K, x)
    BY <1>1, <1>4 DEF KernelStep
  <2>2. IsWorklist(Items(G), Lr0Step(G), K, lr0_closure(G, K))
    BY <1>1, Lr0Closures
  <2>3. ASSUME NEW j \in y PROVE j \in Items(G)
    <3>1. PICK i \in lr0_closure(G, K) : ~has_dot_at_end(G, i) /\ j = <<i[1], i[2] + 1, i[3]>>
      BY <2>1 DEF go_to
    <3>2. i \in Items(G)
      BY <2>2 DEF IsWorklist
    <3>3. QED
      BY <3>1, <3>2, DotMoves
  <2>4. QED
    BY <1>1, <2>3
<1>5. KernelStep(G) \in [P -> SUBSET P]
  BY <1>1, <1>4 DEF KernelStep
<1>6. {root_kernel} \in SUBSET P
  BY <1>1, RootKernel DEF Cores
<1>7. IsWorklist(P, KernelStep(G), {root_kernel}, W)
  <2>1. IsFiniteSet(P)
    BY <1>1, FiniteCores
  <2>2. QED
    BY <1>2, <1>5, <1>6, <2>1, Worklists
<1>8. Kernels(G) \subseteq P
  BY <1>1, KernelsAreCores DEF Cores
<1>9. ASSUME NEW K \in P, NEW x \in Symbols(G), go_to(G, K, x) # {}
      PROVE  go_to(G, K, x) \in KernelStep(G)[K]
  BY <1>1, <1>9 DEF KernelStep
<1>10. ASSUME NEW S \in SUBSET Kernels(G), root_kernel \in S,
              \A K \in S : \A x \in Symbols(G) : go_to(G, K, x) # {} => go_to(G, K, x) \in S
       PROVE  W \subseteq S
  <2>1. S \in SUBSET P
    BY <1>8
  <2>2. \A K \in S : KernelStep(G)[K] \subseteq S
    BY <1>1, <1>10, <2>1 DEF KernelStep
  <2>3. QED
    BY <1>7, <1>10, <2>1, <2>2 DEF IsWorklist
<1>11. W \subseteq Kernels(G)
  <2>1. ASSUME NEW K \in Kernels(G), NEW x \in Symbols(G), go_to(G, K, x) # {}
        PROVE  go_to(G, K, x) \in Kernels(G)
    BY <2>1, KernelsAreCores, GoTo DEF Kernels
  <2>2. root_kernel \in Kernels(G)
    BY DEF Kernels
  <2>3. QED
    BY <1>10, <2>1, <2>2
<1>12. root_kernel \in W
  BY <1>7 DEF IsWorklist
<1>13. ASSUME NEW K \in W, NEW x \in Symbols(G), go_to(G, K, x) # {}
       PROVE  go_to(G, K, x) \in W
  <2>1. K \in P /\ KernelStep(G)[K] \subseteq W
    BY <1>7 DEF IsWorklist
  <2>2. QED
    BY <1>9, <1>13, <2>1
<1>14. QED
  BY <1>3, <1>10, <1>11, <1>12, <1>13
-----------------------------------------------------------------------------
(***************************************************************************)
(* First sets.                                                             *)
(***************************************************************************)
\* What has been found: the symbols of each first set, and those that are nullable.
First(st, s) == {<<s, {x}>> : x \in st.firsts[s]}
Known(st) == (UNION {First(st, s) : s \in DOMAIN st.firsts}) \cup {<<s, {}>> : s \in st.nullable}

\* Nothing is lost, and something is new when changed says so.
Extends(st, new) ==
  /\ Known(st) \subseteq Known(new)
  /\ new.changed => st.changed \/ Known(new) # Known(st)

LEMMA KnownIs ==
  ASSUME NEW G, NEW st \in FirstSets(G)
  PROVE  /\ \A s, x : <<s, {x}>> \in Known(st) <=> s \in Symbols(G) /\ x \in st.firsts[s]
         /\ \A s : <<s, {}>> \in Known(st) <=> s \in st.nullable
         /\ \A k \in Known(st) : \/ \E s \in Symbols(G) : \E x \in st.firsts[s] : k = <<s, {x}>>
                                 \/ \E s \in st.nullable : k = <<s, {}>>
<1>1. DOMAIN st.firsts = Symbols(G)
  BY DEF FirstSets
<1>2. \A x : {x} # {}
  OBVIOUS
<1>3. \A x, y : {x} = {y} => x = y
  OBVIOUS
<1>4. \A k : k \in Known(st) <=> \/ \E s \in Symbols(G) : \E x \in st.firsts[s] : k = <<s, {x}>>
                               \/ \E s \in st.nullable : k = <<s, {}>>
  <2>1. \A s : \A k : k \in First(st, s) <=> \E x \in st.firsts[s] : k = <<s, {x}>>
    BY DEF First
  <2>2. PICK A : A = UNION {First(st, s) : s \in DOMAIN st.firsts}
    OBVIOUS
  <2>3. \A k : k \in A <=> \E s \in DOMAIN st.firsts : k \in First(st, s)
    BY <2>2
  <2>4. PICK B : B = {<<s, {}>> : s \in st.nullable}
    OBVIOUS
  <2>5. \A k : k \in B <=> \E s \in st.nullable : k = <<s, {}>>
    BY <2>4
  <2>6. Known(st) = A \cup B
    BY <2>2, <2>4 DEF Known
  <2>7. QED
    BY <1>1, <2>1, <2>3, <2>5, <2>6
<1>5. ASSUME NEW s, NEW x
      PROVE  <<s, {x}>> \in Known(st) <=> s \in Symbols(G) /\ x \in st.firsts[s]
  BY <1>2, <1>3, <1>4
<1>6. ASSUME NEW s PROVE <<s, {}>> \in Known(st) <=> s \in st.nullable
  BY <1>2, <1>4
<1>7. QED
  BY <1>4, <1>5, <1>6

LEMMA VisitExtends ==
  ASSUME NEW G, IsGrammar(G), NEW st \in FirstSets(G), NEW p \in DOMAIN G.prods
  PROVE  /\ visit_production(st, G.prods[p]) \in FirstSets(G)
         /\ Extends(st, visit_production(st, G.prods[p]))
<1>1. PICK h : h = G.prods[p].head
  OBVIOUS
<1>2. PICK body : body = G.prods[p].body
  OBVIOUS
<1>3. h \in Symbols(G) /\ body \in Seq(Symbols(G))
  <2>1. h \in Symbols(G)
    BY <1>1 DEF Symbols, NonTerminals
  <2>2. body \in Seq(Symbols(G) \ {StartPrime})
    BY <1>2 DEF IsGrammar
  <2>3. QED
    BY <2>1, <2>2
<1>4. PICK F : F = st.firsts[h] \cup UNION {st.firsts[body[i]] : i \in reached(body, 1, st.nullable)}
  OBVIOUS
<1>5. PICK inserts : inserts = (~st.changed /\ all_nullable(body, 1, st.nullable))
  OBVIOUS
<1>6. PICK new : new = visit_production(st, G.prods[p])
  OBVIOUS
<1>7. /\ new = [firsts |-> new.firsts, nullable |-> new.nullable, changed |-> new.changed]
      /\ new.firsts = [st.firsts EXCEPT ![h] = F]
      /\ new.nullable = IF inserts THEN st.nullable \cup {h} ELSE st.nullable
      /\ new.changed = \/ st.changed
                       \/ inserts /\ h \notin st.nullable
                       \/ F # st.firsts[h]
  BY <1>1, <1>2, <1>4, <1>5, <1>6 DEF visit_production
<1>8. /\ st.firsts \in [Symbols(G) -> SUBSET Symbols(G)]
      /\ st.nullable \in SUBSET Symbols(G) /\ st.changed \in BOOLEAN
  BY DEF FirstSets
<1>9. F \in SUBSET Symbols(G) /\ st.firsts[h] \subseteq F
  <2>1. ASSUME NEW i \in reached(body, 1, st.nullable) PROVE st.firsts[body[i]] \in SUBSET Symbols(G)
    <3>1. i \in 1 .. Len(body)
      BY DEF reached
    <3>2. body[i] \in Symbols(G)
      BY <1>3, <3>1
    <3>3. QED
      BY <1>8, <3>2
  <2>2. QED
    BY <1>3, <1>4, <1>8, <2>1
<1>10. new \in FirstSets(G)
  <2>1. new.firsts \in [Symbols(G) -> SUBSET Symbols(G)]
    BY <1>7, <1>8, <1>9
  <2>2. new.nullable \in SUBSET Symbols(G)
    BY <1>3, <1>7, <1>8
  <2>3. new.changed \in BOOLEAN
    BY <1>7
  <2>4. QED
    BY <1>7, <2>1, <2>2, <2>3 DEF FirstSets
<1>11. \A s \in Symbols(G) : st.firsts[s] \subseteq new.firsts[s]
  BY <1>7, <1>8, <1>9
<1>12. st.nullable \subseteq new.nullable
  BY <1>7
<1>13. Known(st) \subseteq Known(new)
  <2>1. ASSUME NEW k \in Known(st) PROVE k \in Known(new)
    <3>1. CASE \E s \in Symbols(G) : \E x \in st.firsts[s] : k = <<s, {x}>>
      <4>1. PICK s \in Symbols(G) : \E x \in st.firsts[s] : k = <<s, {x}>>
        BY <3>1
      <4>2. PICK x \in st.firsts[s] : k = <<s, {x}>>
        BY <4>1
      <4>3. x \in new.firsts[s]
        BY <1>11
      <4>4. QED
        BY <1>10, <4>2, <4>3, KnownIs
    <3>2. CASE \E s \in st.nullable : k = <<s, {}>>
      BY <1>10, <1>12, <3>2, KnownIs
    <3>3. QED
      BY <3>1, <3>2, KnownIs
  <2>2. QED
    BY <2>1
<1>14. ASSUME new.changed, ~st.changed PROVE Known(new) # Known(st)
  <2>1. CASE h \in new.nullable /\ h \notin st.nullable
    BY <1>10, <2>1, KnownIs
  <2>2. CASE F # st.firsts[h]
    <3>1. PICK x \in F : x \notin st.firsts[h]
      BY <1>9, <2>2
    <3>2. new.firsts[h] = F
      BY <1>3, <1>7, <1>8
    <3>3. <<h, {x}>> \in Known(new)
      BY <1>3, <1>10, <3>2, KnownIs
    <3>4. <<h, {x}>> \notin Known(st)
      BY <3>1, KnownIs
    <3>5. QED
      BY <3>3, <3>4
  <2>3. QED
    BY <1>7, <1>14, <2>1, <2>2
<1>15. QED
  BY <1>6, <1>10, <1>13, <1>14 DEF Extends

IsVisiting(after, G, st) ==
  after = [i \in 0 .. Len(G.prods) |->
             IF i = 0 THEN [st EXCEPT !.changed = FALSE]
             ELSE visit_production(after[i - 1], G.prods[i])]

LEMMA VisitingExists ==
  ASSUME NEW G, IsGrammar(G), NEW st \in FirstSets(G)
  PROVE  \E after : IsVisiting(after, G, st)
<1>1. PICK n \in Nat : n = Len(G.prods) /\ DOMAIN G.prods = 1 .. n
  BY DEF IsGrammar
<1>2. PICK R : R = FirstSets(G)
  OBVIOUS
<1>3. PICK step : step = [i \in 1 .. n |-> [s \in R |-> visit_production(s, G.prods[i])]]
  OBVIOUS
<1>4. ASSUME NEW i \in 1 .. n, NEW s \in R
      PROVE  step[i][s] = visit_production(s, G.prods[i]) /\ step[i][s] \in R
  <2>1. visit_production(s, G.prods[i]) \in R
    BY <1>1, <1>2, VisitExtends
  <2>2. QED
    BY <1>3, <2>1
<1>5. step \in [1 .. n -> [R -> R]]
  <2>1. \A i \in 1 .. n : step[i] = [s \in R |-> step[i][s]]
    BY <1>3
  <2>2. \A i \in 1 .. n : step[i] \in [R -> R]
    BY <1>4, <2>1
  <2>3. QED
    BY <1>3, <2>2
<1>6. PICK start \in R : start = [st EXCEPT !.changed = FALSE]
  BY <1>2 DEF FirstSets
<1>7. PICK f \in [0 .. n -> R] : Iterates(f, n, start, step)
  BY <1>1, <1>5, Iteration
<1>8. ASSUME NEW i \in 0 .. n, i # 0
      PROVE  step[i][f[i - 1]] = visit_production(f[i - 1], G.prods[i])
  <2>1. i - 1 \in 0 .. n /\ i \in 1 .. n
    BY <1>8
  <2>2. f[i - 1] \in R
    BY <1>7, <2>1
  <2>3. QED
    BY <1>4, <2>1, <2>2
<1>9. IsVisiting(f, G, st)
  BY <1>1, <1>6, <1>7, <1>8 DEF IsVisiting, Iterates
<1>10. QED
  BY <1>9

LEMMA PassExtends ==
  ASSUME NEW G, IsGrammar(G), NEW st \in FirstSets(G)
  PROVE  LET new == visit_productions(G, st) IN
         /\ new \in FirstSets(G)
         /\ Known(st) \subseteq Known(new)
         /\ new.changed => Known(new) # Known(st)
<1>1. PICK after : IsVisiting(after, G, st) /\ visit_productions(G, st) = after[Len(G.prods)]
  BY VisitingExists DEF IsVisiting, visit_productions
<1>2. PICK n \in Nat : n = Len(G.prods) /\ DOMAIN G.prods = 1 .. n
  BY DEF IsGrammar
<1>3. PICK start : start = [st EXCEPT !.changed = FALSE]
  OBVIOUS
<1>4. /\ start \in FirstSets(G) /\ ~start.changed
      /\ start.firsts = st.firsts /\ start.nullable = st.nullable
  BY <1>3 DEF FirstSets
<1>5. Known(start) = Known(st)
  BY <1>4 DEF Known, First
<1>6. after[0] = start /\ \A i \in 0 .. n : i # 0 => after[i] = visit_production(after[i - 1], G.prods[i])
  <2>1. after = [i \in 0 .. n |-> IF i = 0 THEN start ELSE visit_production(after[i - 1], G.prods[i])]
    BY <1>1, <1>2, <1>3 DEF IsVisiting
  <2>2. 0 \in 0 .. n
    BY <1>2
  <2>3. \A i \in 0 .. n : after[i] = IF i = 0 THEN start ELSE visit_production(after[i - 1], G.prods[i])
    BY <2>1
  <2>4. QED
    BY <2>2, <2>3
<1> DEFINE Fine(new) == /\ new \in FirstSets(G)
                        /\ Known(st) \subseteq Known(new)
                        /\ new.changed => Known(new) # Known(st)
           S == {i \in Nat : i <= n => Fine(after[i])}
<1>7. 0 \in S
  BY <1>4, <1>5, <1>6
<1>8. ASSUME NEW i \in Nat, i \in S PROVE i + 1 \in S
  <2>1. SUFFICES ASSUME i + 1 <= n PROVE Fine(after[i + 1])
    OBVIOUS
  <2>2. Fine(after[i])
    BY <1>2, <1>8, <2>1
  <2>3. i + 1 \in 0 .. n /\ i + 1 # 0 /\ (i + 1) - 1 = i /\ i + 1 \in 1 .. n
    BY <1>2, <2>1
  <2>4. after[i + 1] = visit_production(after[i], G.prods[i + 1])
    BY <1>6, <2>3
  <2>5. after[i + 1] \in FirstSets(G) /\ Extends(after[i], after[i + 1])
    BY <1>2, <2>2, <2>3, <2>4, VisitExtends
  <2>6. QED
    BY <2>2, <2>5 DEF Extends
<1>9. n \in S
  <2> HIDE DEF S
  <2>1. QED
    BY <1>2, <1>7, <1>8, SetInduction
<1>10. QED
  BY <1>1, <1>2, <1>9

\* The passes end: each but the last one finds something.
LEMMA FirstSetsAreTyped ==
  ASSUME NEW G, IsGrammar(G)
  PROVE  generate_first_sets(G) \in FirstSets(G)
<1>1. PICK D : D = FirstSets(G)
  OBVIOUS
<1>2. PICK pass : pass = [st \in D |-> visit_productions(G, st)]
  OBVIOUS
<1>3. PICK more : more = [st \in D |-> pass[st].changed]
  OBVIOUS
<1>4. PICK U : U = Symbols(G) \X SUBSET Symbols(G)
  OBVIOUS
<1>5. IsFiniteSet(U)
  BY <1>4, FiniteSymbols, FS_SUBSET, FS_Product
<1>6. ASSUME NEW st \in D PROVE Known(st) \in SUBSET U
  <2>1. st.firsts \in [Symbols(G) -> SUBSET Symbols(G)] /\ st.nullable \in SUBSET Symbols(G)
    BY <1>1 DEF FirstSets
  <2>2. \A s \in Symbols(G) : \A x \in st.firsts[s] : <<s, {x}>> \in U
    BY <1>4, <2>1
  <2>3. \A s \in st.nullable : <<s, {}>> \in U
    BY <1>4, <2>1
  <2>4. \A k \in Known(st) : k \in U
    BY <1>1, <2>2, <2>3, KnownIs
  <2>5. QED
    BY <2>4
<1>7. PICK size : size = [st \in D |-> Cardinality(Known(st))]
  OBVIOUS
<1>8. PICK n \in Nat : n = Cardinality(U)
  BY <1>5, FS_CardinalityType
<1>9. ASSUME NEW st \in D PROVE size[st] \in 0 .. n
  <2>1. IsFiniteSet(Known(st)) /\ Cardinality(Known(st)) <= Cardinality(U)
    BY <1>5, <1>6, FS_Subset
  <2>2. Cardinality(Known(st)) \in Nat
    BY <2>1, FS_CardinalityType
  <2>3. QED
    BY <1>7, <1>8, <2>1, <2>2
<1>10. ASSUME NEW st \in D PROVE pass[st] \in D /\ (more[st] => size[st] < size[pass[st]])
  <2>1. PICK new : new = pass[st]
    OBVIOUS
  <2>2. /\ new \in D /\ Known(st) \in SUBSET Known(new)
        /\ more[st] => Known(new) # Known(st)
    BY <1>1, <1>2, <1>3, <2>1, PassExtends
  <2>3. IsFiniteSet(Known(new))
    BY <1>5, <1>6, <2>2, FS_Subset
  <2>4. /\ Cardinality(Known(st)) <= Cardinality(Known(new))
        /\ Cardinality(Known(new)) = Cardinality(Known(st)) => Known(new) = Known(st)
    BY <2>2, <2>3, FS_Subset
  <2>5. size[st] \in Int /\ size[new] \in Int
    BY <1>9, <2>2
  <2>6. size[st] = Cardinality(Known(st)) /\ size[new] = Cardinality(Known(new))
    BY <1>7, <2>2
  <2>7. QED
    BY <2>1, <2>2, <2>4, <2>5, <2>6
<1>11. Grows(D, pass, more, size, n)
  BY <1>2, <1>7, <1>8, <1>9, <1>10 DEF Grows
<1>12. PICK start : start = [firsts |-> [s \in Symbols(G) |-> IF s \in G.terminals THEN {s} ELSE {}],
                             nullable |-> {}, changed |-> TRUE]
  OBVIOUS
<1>13. start \in D
  <2>1. [s \in Symbols(G) |-> IF s \in G.terminals THEN {s} ELSE {}] \in [Symbols(G) -> SUBSET Symbols(G)]
    OBVIOUS
  <2>2. QED
    BY <1>1, <1>12, <2>1 DEF FirstSets
<1>14. PICK passes : Passes(passes, D, pass, more) /\ generate_first_sets(G) = passes[start]
  <2>1. \E passes : Passes(passes, D, pass, more)
    BY <1>11, <1>13, PassesExist
  <2>2. \A f : Passes(f, D, pass, more) <=>
               f = [st \in D |-> LET p == visit_productions(G, st)
                                 IN IF p.changed THEN f[p] ELSE p]
    BY <1>2, <1>3 DEF Passes
  <2>3. generate_first_sets(G) = (CHOOSE f : f = [st \in D |-> LET p == visit_productions(G, st)
                                 IN IF p.changed THEN f[p] ELSE p])[start]
    BY <1>1, <1>12 DEF generate_first_sets
  <2>4. QED
    BY <2>1, <2>2, <2>3
<1>15. QED
  BY <1>1, <1>11, <1>13, <1>14, PassesEnd
-----------------------------------------------------------------------------
(***************************************************************************)
(* LR(1) closures.                                                         *)
(***************************************************************************)
LEMMA LookaheadsAreTyped ==
  ASSUME NEW G, IsGrammar(G), NEW fs \in FirstSets(G), NEW i \in Items(G)
  PROVE  lookaheads_after(G, fs, i) \in SUBSET Lookaheads(G)
<1>1. PICK body : body = body_of(G, i)
  OBVIOUS
<1>2. PICK k \in Nat : k = i[2] + 2 /\ k >= 1
  <2>1. i[2] \in Nat
    BY ItemParts
  <2>2. QED
    BY <2>1
<1>3. body \in Seq(Symbols(G) \ {StartPrime})
  BY <1>1, ItemParts
<1>4. fs.firsts \in [Symbols(G) -> SUBSET Symbols(G)]
  BY DEF FirstSets
<1>5. ASSUME NEW m \in reached(body, k, fs.nullable) PROVE fs.firsts[body[m]] \subseteq Lookaheads(G)
  <2>1. m \in 1 .. Len(body)
    <3>1. m \in k .. Len(body)
      BY DEF reached
    <3>2. QED
      BY <1>2, <1>3, <3>1
  <2>2. body[m] \in Symbols(G)
    BY <1>3, <2>1
  <2>3. QED
    BY <1>4, <2>2 DEF Lookaheads
<1>6. PICK A : A = UNION {fs.firsts[body[m]] : m \in reached(body, k, fs.nullable)}
  OBVIOUS
<1>7. A \subseteq Lookaheads(G)
  BY <1>5, <1>6
<1>8. i[3] \in Lookaheads(G)
  BY ItemParts
<1>9. lookaheads_after(G, fs, i) = A \cup (IF all_nullable(body, k, fs.nullable) THEN {i[3]} ELSE {})
  BY <1>1, <1>2, <1>6 DEF lookaheads_after
<1>10. QED
  BY <1>7, <1>8, <1>9

Productive(G, fs) == \A s \in Symbols(G) : s \in fs.nullable \/ fs.firsts[s] # {}

\* Something follows the symbol after a dot: the lookahead of the item, or what the first
\* symbol that is not nullable begins with.
LEMMA SomethingFollows ==
  ASSUME NEW G, IsGrammar(G), NEW fs \in FirstSets(G), Productive(G, fs), NEW i \in Items(G)
  PROVE  lookaheads_after(G, fs, i) # {}
<1>1. PICK body : body = body_of(G, i)
  OBVIOUS
<1>2. PICK k \in Nat : k = i[2] + 2 /\ k >= 1
  <2>1. i[2] \in Nat
    BY ItemParts
  <2>2. QED
    BY <2>1
<1>3. PICK n \in Nat : n = Len(body) /\ body \in Seq(Symbols(G) \ {StartPrime})
  BY <1>1, ItemParts
<1>4. CASE all_nullable(body, k, fs.nullable)
  <2>1. i[3] \in lookaheads_after(G, fs, i)
    BY <1>1, <1>2, <1>4 DEF lookaheads_after
  <2>2. QED
    BY <2>1
<1>5. CASE ~all_nullable(body, k, fs.nullable)
  <2>1. PICK S : S = {m \in k .. n : body[m] \notin fs.nullable}
    OBVIOUS
  <2>2. S \in SUBSET Nat
    BY <1>2, <1>3, <2>1
  <2>3. S # {}
    BY <1>3, <1>5, <2>1 DEF all_nullable
  <2>4. PICK m \in S : \A j \in S : m <= j
    BY <2>2, <2>3, LeastNatural
  <2>5. m \in k .. n /\ m \in 1 .. n /\ body[m] \notin fs.nullable
    BY <1>2, <1>3, <2>1, <2>4
  <2>6. m \in reached(body, k, fs.nullable)
    <3>1. ASSUME NEW j \in k .. m - 1 PROVE body[j] \in fs.nullable
      <4>1. j \in k .. n /\ j < m
        BY <1>2, <1>3, <2>5
      <4>2. j \notin S
        BY <1>2, <2>2, <2>4, <4>1
      <4>3. QED
        BY <2>1, <4>1, <4>2
    <3>2. QED
      BY <1>3, <2>5, <3>1 DEF reached
  <2>7. body[m] \in Symbols(G)
    BY <1>3, <2>5
  <2>8. PICK l : l \in fs.firsts[body[m]]
    BY <2>5, <2>7 DEF Productive
  <2>9. PICK A : A = UNION {fs.firsts[body[j]] : j \in reached(body, k, fs.nullable)}
    OBVIOUS
  <2>10. l \in A
    BY <2>6, <2>8, <2>9
  <2>11. lookaheads_after(G, fs, i) = A \cup (IF all_nullable(body, k, fs.nullable) THEN {i[3]} ELSE {})
    BY <1>1, <1>2, <2>9 DEF lookaheads_after
  <2>12. QED
    BY <2>10, <2>11
<1>6. QED
  BY <1>4, <1>5

Lr1Step(G, fs) ==
  [i \in Items(G) |-> {<<p, 0, l>> : p \in expanded(G, i), l \in lookaheads_after(G, fs, i)}]

LEMMA Lr1Closures ==
  ASSUME NEW G, IsGrammar(G), NEW fs \in FirstSets(G), NEW K \in SUBSET Items(G)
  PROVE  IsWorklist(Items(G), Lr1Step(G, fs), K, lr1_closure(G, fs, K))
<1>1. Lr1Step(G, fs) \in [Items(G) -> SUBSET Items(G)]
  <2>1. ASSUME NEW i \in Items(G), NEW y \in Lr1Step(G, fs)[i] PROVE y \in Items(G)
    <3>1. PICK p \in expanded(G, i), l \in lookaheads_after(G, fs, i) : y = <<p, 0, l>>
      BY <2>1 DEF Lr1Step
    <3>2. l \in Lookaheads(G)
      BY LookaheadsAreTyped
    <3>3. QED
      BY <3>1, <3>2, ExpandedAreProductions
  <2>2. QED
    BY <2>1 DEF Lr1Step
<1>2. lr1_closure(G, fs, K) = worklist(Lr1Step(G, fs), K)
  BY DEF lr1_closure, Lr1Step
<1>3. QED
  BY <1>1, <1>2, FiniteItems, Worklists

\* An item without its lookahead.
Core(i) == <<i[1], i[2], NullSymbol>>

LEMMA CoreIs ==
  ASSUME NEW G, IsGrammar(G), NEW i \in Items(G)
  PROVE  /\ Core(i) \in Cores(G)
         /\ expanded(G, Core(i)) = expanded(G, i)
         /\ has_dot_at_end(G, Core(i)) <=> has_dot_at_end(G, i)
         /\ next_symbol(G, Core(i)) = next_symbol(G, i)
         /\ i \in Cores(G) => Core(i) = i
<1>1. Core(i)[1] = i[1] /\ Core(i)[2] = i[2] /\ Core(i)[3] = NullSymbol
  BY DEF Core
<1>2. Core(i) \in Items(G)
  <2>1. NullSymbol \in Lookaheads(G)
    BY DEF Lookaheads
  <2>2. i[1] \in DOMAIN G.prods /\ i[2] \in Nat /\ i[2] <= Len(G.prods[i[1]].body)
    BY ItemParts DEF body_of
  <2>3. QED
    BY <2>1, <2>2, IsItem DEF Core
<1>3. has_dot_at_end(G, Core(i)) <=> has_dot_at_end(G, i)
  BY <1>1 DEF has_dot_at_end, body_of
<1>4. next_symbol(G, Core(i)) = next_symbol(G, i)
  BY <1>1 DEF next_symbol, body_of
<1>5. expanded(G, Core(i)) = expanded(G, i)
  BY <1>3, <1>4 DEF expanded
<1>6. ASSUME i \in Cores(G) PROVE Core(i) = i
  <2>1. i[3] = NullSymbol
    BY <1>6 DEF Cores
  <2>2. QED
    BY <2>1, ItemParts DEF Core
<1>7. QED
  BY <1>1, <1>2, <1>3, <1>4, <1>5, <1>6 DEF Cores

\* The cores of an LR(1) closure are in the LR(0) closure of the cores,
LEMMA Lr1CoresAreLr0 ==
  ASSUME NEW G, IsGrammar(G), NEW fs \in FirstSets(G), NEW K1 \in SUBSET Items(G),
         NEW K0 \in SUBSET Cores(G), \A i \in K1 : Core(i) \in K0
  PROVE  \A i \in lr1_closure(G, fs, K1) : Core(i) \in lr0_closure(G, K0)
<1>1. PICK C0 : C0 = lr0_closure(G, K0)
  OBVIOUS
<1>2. K0 \subseteq C0 /\ \A i \in C0 : \A p \in expanded(G, i) : <<p, 0, NullSymbol>> \in C0
  BY <1>1, Lr0ClosureIs
<1>3. PICK S : S = {i \in Items(G) : Core(i) \in C0}
  OBVIOUS
<1>4. S \in SUBSET Items(G) /\ K1 \subseteq S
  BY <1>2, <1>3
<1>5. ASSUME NEW i \in S, NEW y \in Lr1Step(G, fs)[i] PROVE y \in S
  <2>1. i \in Items(G) /\ Core(i) \in C0
    BY <1>3
  <2>2. PICK p \in expanded(G, i), l \in lookaheads_after(G, fs, i) : y = <<p, 0, l>>
    BY <1>5, <2>1 DEF Lr1Step
  <2>3. <<p, 0, NullSymbol>> \in C0
    BY <1>2, <2>1, CoreIs
  <2>4. Core(y) \in C0
    BY <2>2, <2>3 DEF Core
  <2>5. y \in Items(G)
    BY <2>1, <2>2, LookaheadsAreTyped, ExpandedAreProductions
  <2>6. QED
    BY <1>3, <2>4, <2>5
<1>6. lr1_closure(G, fs, K1) \subseteq S
  BY <1>4, <1>5, Lr1Closures DEF IsWorklist
<1>7. QED
  BY <1>1, <1>3, <1>6

\* and are all of it when each item of the kernel has a lookahead.
LEMMA Lr1CoversLr0 ==
  ASSUME NEW G, IsGrammar(G), NEW fs \in FirstSets(G), Productive(G, fs),
         NEW K1 \in SUBSET Items(G), NEW K0 \in SUBSET Cores(G),
         \A i \in K0 : \E j \in K1 : Core(j) = i
  PROVE  \A i \in lr0_closure(G, K0) : \E j \in lr1_closure(G, fs, K1) : Core(j) = i
<1>1. PICK C1 : C1 = lr1_closure(G, fs, K1)
  OBVIOUS
<1>2. C1 \in SUBSET Items(G) /\ K1 \subseteq C1 /\ \A j \in C1 : Lr1Step(G, fs)[j] \subseteq C1
  BY <1>1, Lr1Closures DEF IsWorklist
<1>3. PICK S : S = {i \in Items(G) : \E j \in C1 : Core(j) = i}
  OBVIOUS
<1>4. S \in SUBSET Items(G) /\ K0 \subseteq S
  BY <1>2, <1>3 DEF Cores
<1>5. ASSUME NEW i \in S, NEW y \in Lr0Step(G)[i] PROVE y \in S
  <2>1. PICK j \in C1 : Core(j) = i
    BY <1>3
  <2>2. i \in Items(G) /\ j \in Items(G)
    BY <1>2, <1>3
  <2>3. PICK p \in expanded(G, i) : y = <<p, 0, NullSymbol>>
    BY <1>5, <2>2 DEF Lr0Step
  <2>4. p \in expanded(G, j)
    BY <2>1, <2>2, CoreIs
  <2>5. PICK l : l \in lookaheads_after(G, fs, j)
    BY <2>2, SomethingFollows
  <2>6. <<p, 0, l>> \in Lr1Step(G, fs)[j]
    BY <2>2, <2>4, <2>5 DEF Lr1Step
  <2>7. <<p, 0, l>> \in C1 /\ Core(<<p, 0, l>>) = y
    BY <1>2, <2>3, <2>6 DEF Core
  <2>8. y \in Items(G)
    <3>1. NullSymbol \in Lookaheads(G)
      BY DEF Lookaheads
    <3>2. QED
      BY <2>2, <2>3, <3>1, ExpandedAreProductions
  <2>9. QED
    BY <1>3, <2>7, <2>8
<1>6. K0 \in SUBSET Items(G)
  BY DEF Cores
<1>7. lr0_closure(G, K0) \subseteq S
  BY <1>4, <1>5, <1>6, Lr0Closures DEF IsWorklist
<1>8. QED
  BY <1>1, <1>3, <1>7
-----------------------------------------------------------------------------
(***************************************************************************)
(* Lookaheads of kernel items.                                             *)
(***************************************************************************)
PropagateStep(G, prop) ==
  [l \in Items(G) \X Lookaheads(G) |-> {<<e[2], l[2]>> : e \in {f \in prop : f[1] = l[1]}}]

LEMMA Propagates ==
  ASSUME NEW G, IsGrammar(G), NEW prop \in SUBSET (Items(G) \X Items(G)),
         NEW start \in SUBSET (Items(G) \X Lookaheads(G))
  PROVE  IsWorklist(Items(G) \X Lookaheads(G), PropagateStep(G, prop), start,
                    propagate(G, start, prop))
<1>1. PICK P : P = Items(G) \X Lookaheads(G)
  OBVIOUS
<1>2. IsFiniteSet(P)
  BY <1>1, FiniteItems, FiniteSymbols, FS_Product
<1>3. PropagateStep(G, prop) \in [P -> SUBSET P]
  <2>1. ASSUME NEW l \in P, NEW y \in PropagateStep(G, prop)[l] PROVE y \in P
    <3>1. PICK e \in prop : y = <<e[2], l[2]>>
      BY <1>1, <2>1 DEF PropagateStep
    <3>2. e[2] \in Items(G) /\ l[2] \in Lookaheads(G)
      BY <1>1, <3>1
    <3>3. QED
      BY <1>1, <3>1, <3>2
  <2>2. QED
    BY <1>1, <2>1 DEF PropagateStep
<1>4. propagate(G, start, prop) = worklist(PropagateStep(G, prop), start)
  BY DEF propagate, PropagateStep
<1>5. start \in SUBSET P
  BY <1>1
<1>6. QED
  BY <1>1, <1>2, <1>3, <1>4, <1>5, Worklists

\* The start and the edges of the propagation.
LEMMA LookaheadsAre ==
  ASSUME NEW G, IsGrammar(G), NEW fs \in FirstSets(G), NEW kernels \in SUBSET SUBSET Cores(G)
  PROVE  LET la == lookaheads(G, fs, kernels) IN
         /\ la \in SUBSET (Items(G) \X Lookaheads(G))
         /\ \A i \in UNION kernels : i[1] = m_root_production_id => <<i, TokenEnd>> \in la
         /\ \A i \in UNION kernels : \A k \in UNION kernels :
            \A j \in lr1_closure(G, fs, {k}) :
              j[3] # NullSymbol /\ j[1] = i[1] => <<i, j[3]>> \in la
         /\ \A k \in UNION kernels : \A j \in lr1_closure(G, fs, {k}) : \A l :
              j[3] = NullSymbol /\ ~has_dot_at_end(G, j) /\ <<k, l>> \in la
              => <<<<j[1], j[2] + 1, NullSymbol>>, l>> \in la
<1>1. PICK U : U = UNION kernels
  OBVIOUS
<1>2. U \in SUBSET Items(G)
  BY <1>1 DEF Cores
<1>3. ASSUME NEW k \in U, NEW j \in lr1_closure(G, fs, {k}) PROVE j \in Items(G)
  <2>1. {k} \in SUBSET Items(G)
    BY <1>2
  <2>2. QED
    BY <2>1, Lr1Closures DEF IsWorklist
<1>4. PICK pairs : pairs = closure_pairs(G, fs, kernels)
  OBVIOUS
<1>5. \A c : c \in pairs <=> \E k \in U : \E j \in lr1_closure(G, fs, {k}) : c = <<k, j>>
  <2>1. \A k, c : c \in closure_of(G, fs, k) <=> \E j \in lr1_closure(G, fs, {k}) : c = <<k, j>>
    BY DEF closure_of
  <2>2. \A c : c \in pairs <=> \E k \in U : c \in closure_of(G, fs, k)
    <3>1. pairs = UNION {closure_of(G, fs, k) : k \in U}
      BY <1>1, <1>4 DEF closure_pairs
    <3>2. QED
      BY <3>1
  <2>3. QED
    BY <2>1, <2>2
<1>6. PICK spontaneous : spontaneous = spontaneous_map(pairs)
  OBVIOUS
<1>7. \A k \in U : \A j \in lr1_closure(G, fs, {k}) :
        j[3] # NullSymbol => <<j[1], j[3]>> \in spontaneous
  <2> TAKE k \in U
  <2>1. TAKE j \in lr1_closure(G, fs, {k})
  <2>2. <<k, j>> \in pairs /\ <<k, j>>[2] = j
    BY <1>5
  <2>3. QED
    BY <1>6, <2>2 DEF spontaneous_map
<1>8. \A s \in spontaneous : s[2] \in Lookaheads(G)
  <2>1. TAKE s \in spontaneous
  <2>2. PICK c \in pairs : s = <<c[2][1], c[2][3]>>
    BY <1>6 DEF spontaneous_map
  <2>3. c[2] \in Items(G)
    <3>1. PICK k \in U : \E j \in lr1_closure(G, fs, {k}) : c = <<k, j>>
      BY <1>5
    <3>2. PICK j \in lr1_closure(G, fs, {k}) : c = <<k, j>>
      BY <3>1
    <3>3. QED
      BY <1>3, <3>2
  <2>4. QED
    BY <2>2, <2>3, ItemParts
<1>9. PICK prop : prop = propagate_map(G, pairs)
  OBVIOUS
<1>10. prop \in SUBSET (Items(G) \X Items(G))
  <2>1. ASSUME NEW e \in prop PROVE e \in Items(G) \X Items(G)
    <3>1. PICK c \in pairs : /\ c[2][3] = NullSymbol /\ ~has_dot_at_end(G, c[2])
                             /\ e = <<c[1], <<c[2][1], c[2][2] + 1, NullSymbol>>>>
      BY <1>9, <2>1 DEF propagate_map
    <3>2. c[1] \in Items(G) /\ c[2] \in Items(G)
      <4>1. PICK k \in U : \E j \in lr1_closure(G, fs, {k}) : c = <<k, j>>
        BY <1>5
      <4>2. PICK j \in lr1_closure(G, fs, {k}) : c = <<k, j>>
        BY <4>1
      <4>3. QED
        BY <1>2, <1>3, <4>2
    <3>3. <<c[2][1], c[2][2] + 1, NullSymbol>> \in Items(G)
      BY <3>1, <3>2, DotMoves
    <3>4. QED
      BY <3>1, <3>2, <3>3
  <2>2. QED
    BY <2>1
<1>11. \A k \in U : \A j \in lr1_closure(G, fs, {k}) :
         j[3] = NullSymbol /\ ~has_dot_at_end(G, j)
         => <<k, <<j[1], j[2] + 1, NullSymbol>>>> \in prop
  <2> TAKE k \in U
  <2>1. TAKE j \in lr1_closure(G, fs, {k})
  <2>2. <<k, j>> \in pairs /\ <<k, j>>[2] = j /\ <<k, j>>[1] = k
    BY <1>5
  <2>3. QED
    BY <1>9, <2>2 DEF propagate_map
<1>12. PICK root : root = {<<k, TokenEnd>> : k \in {i \in U : i[1] = m_root_production_id}}
  OBVIOUS
<1>13. PICK first : first = UNION {{<<k, s[2]>> : s \in {m \in spontaneous : m[1] = k[1]}} : k \in U}
  OBVIOUS
<1>14. \A c : c \in first <=> \E k \in U : \E s \in spontaneous : s[1] = k[1] /\ c = <<k, s[2]>>
  <2>1. PICK of : of = [k \in U |-> {<<k, s[2]>> : s \in {m \in spontaneous : m[1] = k[1]}}]
    OBVIOUS
  <2>2. first = UNION {of[k] : k \in U}
    BY <1>13, <2>1
  <2>3. \A k \in U : \A c : c \in of[k] <=> \E s \in spontaneous : s[1] = k[1] /\ c = <<k, s[2]>>
    BY <2>1
  <2>4. \A c : c \in first <=> \E k \in U : c \in of[k]
    BY <2>2
  <2>5. QED
    BY <2>3, <2>4
<1>15. PICK start : start = first \cup root
  OBVIOUS
<1>16. start \in SUBSET (Items(G) \X Lookaheads(G))
  <2>1. TokenEnd \in Lookaheads(G)
    BY DEF Lookaheads
  <2>2. first \subseteq Items(G) \X Lookaheads(G)
    BY <1>2, <1>8, <1>14
  <2>3. root \subseteq Items(G) \X Lookaheads(G)
    BY <1>2, <1>12, <2>1
  <2>4. QED
    BY <1>15, <2>2, <2>3
<1>17. PICK la : la = lookaheads(G, fs, kernels)
  OBVIOUS
<1>18. la = propagate(G, start, prop)
  BY <1>1, <1>4, <1>6, <1>9, <1>12, <1>13, <1>15, <1>17 DEF lookaheads
<1>19. IsWorklist(Items(G) \X Lookaheads(G), PropagateStep(G, prop), start, la)
  BY <1>10, <1>16, <1>18, Propagates
<1>20. /\ la \in SUBSET (Items(G) \X Lookaheads(G)) /\ start \subseteq la
       /\ \A x \in la : PropagateStep(G, prop)[x] \subseteq la
  BY <1>19 DEF IsWorklist
<1>21. \A i \in U : i[1] = m_root_production_id => <<i, TokenEnd>> \in la
  BY <1>12, <1>15, <1>20
<1>22. \A i \in U : \A k \in U : \A j \in lr1_closure(G, fs, {k}) :
         j[3] # NullSymbol /\ j[1] = i[1] => <<i, j[3]>> \in la
  <2> TAKE i \in U
  <2> TAKE k \in U
  <2>1. TAKE j \in lr1_closure(G, fs, {k})
  <2>2. SUFFICES ASSUME j[3] # NullSymbol, j[1] = i[1] PROVE <<i, j[3]>> \in la
    OBVIOUS
  <2>3. <<j[1], j[3]>> \in spontaneous
    BY <1>7, <2>2
  <2>4. <<j[1], j[3]>>[1] = i[1] /\ <<j[1], j[3]>>[2] = j[3]
    BY <2>2
  <2>5. <<i, j[3]>> \in first
    BY <1>14, <2>3, <2>4
  <2>6. QED
    BY <1>15, <1>20, <2>5
<1>23. \A k \in U : \A j \in lr1_closure(G, fs, {k}) : \A l :
         j[3] = NullSymbol /\ ~has_dot_at_end(G, j) /\ <<k, l>> \in la
         => <<<<j[1], j[2] + 1, NullSymbol>>, l>> \in la
  <2> TAKE k \in U
  <2>1. TAKE j \in lr1_closure(G, fs, {k})
  <2>2. TAKE l
  <2>3. SUFFICES ASSUME j[3] = NullSymbol, ~has_dot_at_end(G, j), <<k, l>> \in la
                 PROVE  <<<<j[1], j[2] + 1, NullSymbol>>, l>> \in la
    OBVIOUS
  <2>4. PICK e : e = <<k, <<j[1], j[2] + 1, NullSymbol>>>>
    OBVIOUS
  <2>5. e \in prop /\ e[1] = k /\ e[2] = <<j[1], j[2] + 1, NullSymbol>>
    BY <1>11, <2>3, <2>4
  <2>6. PICK x \in la : x = <<k, l>> /\ x[1] = k /\ x[2] = l
    BY <2>3
  <2>7. x \in Items(G) \X Lookaheads(G)
    BY <1>20
  <2>8. <<e[2], x[2]>> \in PropagateStep(G, prop)[x]
    BY <2>5, <2>6, <2>7 DEF PropagateStep
  <2>9. QED
    BY <1>20, <2>5, <2>6, <2>8
<1>24. QED
  BY <1>1, <1>17, <1>20, <1>21, <1>22, <1>23

\* An item of a closure comes from one item of the kernel.
LEMMA Lr1FromOne ==
  ASSUME NEW G, IsGrammar(G), NEW fs \in FirstSets(G), NEW K \in SUBSET Items(G),
         NEW m \in lr1_closure(G, fs, K)
  PROVE  \E k \in K : m \in lr1_closure(G, fs, {k})
<1>1. PICK S : S = {i \in Items(G) : \E k \in K : i \in lr1_closure(G, fs, {k})}
  OBVIOUS
<1>2. ASSUME NEW k \in K
      PROVE  /\ k \in lr1_closure(G, fs, {k})
             /\ \A i \in lr1_closure(G, fs, {k}) :
                  i \in Items(G) /\ Lr1Step(G, fs)[i] \subseteq lr1_closure(G, fs, {k})
  <2>1. {k} \in SUBSET Items(G)
    OBVIOUS
  <2>2. IsWorklist(Items(G), Lr1Step(G, fs), {k}, lr1_closure(G, fs, {k}))
    BY <2>1, Lr1Closures
  <2>3. QED
    BY <2>2 DEF IsWorklist
<1>3. S \in SUBSET Items(G) /\ K \subseteq S
  BY <1>1, <1>2
<1>4. ASSUME NEW i \in S, NEW y \in Lr1Step(G, fs)[i] PROVE y \in S
  <2>1. PICK k \in K : i \in lr1_closure(G, fs, {k})
    BY <1>1
  <2>2. y \in lr1_closure(G, fs, {k}) /\ y \in Items(G)
    BY <1>2, <1>4, <2>1
  <2>3. QED
    BY <1>1, <2>2
<1>5. lr1_closure(G, fs, K) \subseteq S
  BY <1>3, <1>4, Lr1Closures DEF IsWorklist
<1>6. QED
  BY <1>1, <1>5

\* What generate() works with.
Found(G, kernels, fs, la) ==
  /\ IsGrammar(G)
  /\ kernels = lr0_kernels(G)
  /\ fs \in FirstSets(G)
  /\ Productive(G, fs)
  /\ la = lookaheads(G, fs, kernels)

LEMMA FoundKernels ==
  ASSUME NEW G, NEW kernels, NEW fs, NEW la, Found(G, kernels, fs, la), NEW K \in kernels
  PROVE  K \in Kernels(G) /\ K \in SUBSET Cores(G) /\ K \in SUBSET Items(G)
<1>1. K \in Kernels(G)
  BY Lr0Kernels DEF Found
<1>2. QED
  BY <1>1, KernelsAreCores DEF Found, Cores

\* Every item of a kernel has a lookahead: that of the root, one that is propagated to it
\* from the kernel before, or a spontaneous one of its production.
LEMMA KernelItemsHaveLookaheads ==
  ASSUME NEW G, NEW kernels, NEW fs, NEW la, Found(G, kernels, fs, la)
  PROVE  \A K \in kernels : \A i \in K : \E l : <<i, l>> \in la
<1> USE DEF Found
<1>1. PICK S : S = {K \in Kernels(G) : K \in kernels /\ \A i \in K : \E l : <<i, l>> \in la}
  OBVIOUS
<1>2. kernels \in SUBSET SUBSET Cores(G)
  BY FoundKernels
<1>3. root_kernel \in S
  <2>1. root_kernel \in kernels /\ root_kernel \in Kernels(G)
    BY Lr0Kernels DEF Kernels
  <2>2. \A i \in root_kernel : i[1] = m_root_production_id
    BY DEF root_kernel
  <2>3. \A i \in root_kernel : <<i, TokenEnd>> \in la
    BY <1>2, <2>1, <2>2, LookaheadsAre
  <2>4. QED
    BY <1>1, <2>1, <2>3
<1>4. ASSUME NEW K \in S, NEW x \in Symbols(G), go_to(G, K, x) # {}
      PROVE  go_to(G, K, x) \in S
  <2>1. K \in kernels /\ K \in SUBSET Cores(G) /\ K \in SUBSET Items(G)
    BY <1>1, FoundKernels
  <2>2. PICK N : N = go_to(G, K, x)
    OBVIOUS
  <2>3. N \in kernels /\ N \in Kernels(G)
    BY <1>4, <2>1, <2>2, Lr0Kernels
  <2>4. ASSUME NEW j \in N PROVE \E l : <<j, l>> \in la
    <3>1. PICK i \in lr0_closure(G, K) : ~has_dot_at_end(G, i) /\ j = <<i[1], i[2] + 1, i[3]>>
      BY <2>1, <2>2, GoTo
    <3>2. i \in Items(G) /\ i \in Cores(G) /\ i[3] = NullSymbol
      BY <2>1, Lr0ClosureIs DEF Cores
    <3>3. \A c \in K : c \in K /\ Core(c) = c
      BY <2>1, CoreIs
    <3>4. PICK m \in lr1_closure(G, fs, K) : Core(m) = i
      BY <2>1, <3>3, Lr1CoversLr0
    <3>5. PICK k \in K : m \in lr1_closure(G, fs, {k})
      BY <2>1, Lr1FromOne
    <3>6. k \in UNION kernels /\ j \in UNION kernels
      BY <2>1, <2>3
    <3>7. m \in Items(G)
      BY <2>1, Lr1Closures DEF IsWorklist
    <3>8. m[1] = i[1] /\ m[2] = i[2]
      BY <3>4 DEF Core
    <3>9. CASE m[3] # NullSymbol
      <4>1. j[1] = m[1]
        BY <3>1, <3>8
      <4>2. <<j, m[3]>> \in la
        BY <1>2, <3>5, <3>6, <3>9, <4>1, LookaheadsAre
      <4>3. QED
        BY <4>2
    <3>10. CASE m[3] = NullSymbol
      <4>1. PICK l : <<k, l>> \in la
        BY <1>1
      <4>2. ~has_dot_at_end(G, m)
        BY <3>1, <3>4, <3>7, CoreIs
      <4>3. <<<<m[1], m[2] + 1, NullSymbol>>, l>> \in la
        BY <1>2, <3>5, <3>6, <3>10, <4>1, <4>2, LookaheadsAre
      <4>4. <<m[1], m[2] + 1, NullSymbol>> = j
        BY <3>1, <3>2, <3>8
      <4>5. QED
        BY <4>3, <4>4
    <3>11. QED
      BY <3>9, <3>10
  <2>5. QED
    BY <1>1, <2>2, <2>3, <2>4
<1>5. kernels \subseteq S
  <2>1. S \in SUBSET Kernels(G)
    BY <1>1
  <2>2. QED
    BY <1>3, <1>4, <2>1, Lr0Kernels
<1>6. QED
  BY <1>1, <1>5

\* The LR(1) items of an item set are the items of its LR(0) closure, with lookaheads.
LEMMA Lr1ItemsAre ==
  ASSUME NEW G, NEW kernels, NEW fs, NEW la, Found(G, kernels, fs, la), NEW K \in kernels
  PROVE  LET items == lr1_items(G, fs, la, K) IN
         /\ items \in SUBSET Items(G)
         /\ \A i \in items : Core(i) \in lr0_closure(G, K)
         /\ \A i \in lr0_closure(G, K) : \E j \in items : Core(j) = i
<1>1. K \in SUBSET Cores(G) /\ K \in SUBSET Items(G)
  BY FoundKernels
<1>2. IsGrammar(G) /\ fs \in FirstSets(G) /\ Productive(G, fs)
  BY DEF Found
<1>3. la \in SUBSET (Items(G) \X Lookaheads(G))
  <2>1. kernels \in SUBSET SUBSET Cores(G)
    BY FoundKernels
  <2>2. QED
    BY <2>1, LookaheadsAre DEF Found
<1>4. PICK K1 : K1 = {<<l[1][1], l[1][2], l[2]>> : l \in {m \in la : m[1] \in K}}
  OBVIOUS
<1>5. ASSUME NEW l \in la, l[1] \in K
      PROVE  /\ <<l[1][1], l[1][2], l[2]>> \in Items(G)
             /\ Core(<<l[1][1], l[1][2], l[2]>>) = l[1]
  <2>1. l[1] \in Items(G) /\ l[1] \in Cores(G) /\ l[2] \in Lookaheads(G)
    BY <1>1, <1>3, <1>5
  <2>2. l[1][1] \in DOMAIN G.prods /\ l[1][2] \in Nat /\ l[1][2] <= Len(G.prods[l[1][1]].body)
    BY <1>2, <2>1, ItemParts DEF body_of
  <2>3. <<l[1][1], l[1][2], l[2]>> \in Items(G)
    BY <2>1, <2>2, IsItem
  <2>4. Core(l[1]) = l[1]
    BY <1>2, <2>1, CoreIs
  <2>5. QED
    BY <2>3, <2>4 DEF Core
<1>6. K1 \in SUBSET Items(G) /\ \A i \in K1 : Core(i) \in K
  BY <1>4, <1>5
<1>7. ASSUME NEW i \in K PROVE \E j \in K1 : Core(j) = i
  <2>1. PICK l : <<i, l>> \in la
    BY KernelItemsHaveLookaheads
  <2>2. PICK m \in la : m = <<i, l>> /\ m[1] = i
    BY <2>1
  <2>3. <<m[1][1], m[1][2], m[2]>> \in K1
    BY <1>4, <2>2
  <2>4. QED
    BY <1>5, <2>2, <2>3
<1>8. lr1_items(G, fs, la, K) = lr1_closure(G, fs, K1)
  BY <1>4 DEF lr1_items
<1>9. lr1_closure(G, fs, K1) \in SUBSET Items(G)
  BY <1>2, <1>6, Lr1Closures DEF IsWorklist
<1>10. \A i \in lr1_closure(G, fs, K1) : Core(i) \in lr0_closure(G, K)
  BY <1>1, <1>2, <1>6, Lr1CoresAreLr0
<1>11. \A i \in lr0_closure(G, K) : \E j \in lr1_closure(G, fs, K1) : Core(j) = i
  BY <1>1, <1>2, <1>6, <1>7, Lr1CoversLr0
<1>12. QED
  BY <1>8, <1>9, <1>10, <1>11
-----------------------------------------------------------------------------
(***************************************************************************)
(* The tables.                                                             *)
(***************************************************************************)
IsShift(G, K, x, a) == a = <<"shift", go_to(G, K, x)>> /\ go_to(G, K, x) # {}

IsReduce(G, K, a) ==
  \E p \in DOMAIN G.prods :
    /\ a = <<"reduce", p>>
    /\ p # m_root_production_id
    /\ <<p, Len(G.prods[p].body), NullSymbol>> \in lr0_closure(G, K)

IsAccept(G, K, a) ==
  a = Accept /\ <<m_root_production_id, 1, NullSymbol>> \in lr0_closure(G, K)

\* The item sets with their actions, when there is no conflict.
IsTable(G, acts) ==
  /\ DOMAIN acts = lr0_kernels(G)
  /\ \A K \in DOMAIN acts : \A x \in DOMAIN acts[K] :
       /\ x \in Symbols(G)
       /\ IsShift(G, K, x, acts[K][x]) \/ IsReduce(G, K, acts[K][x]) \/ IsAccept(G, K, acts[K][x])
  /\ \A K \in DOMAIN acts : \A i \in lr0_closure(G, K) :
       ~has_dot_at_end(G, i) =>
         /\ next_symbol(G, i) \in DOMAIN acts[K]
         /\ IsShift(G, K, next_symbol(G, i), acts[K][next_symbol(G, i)])

LEMMA EntriesAre ==
  ASSUME NEW G, NEW kernels, NEW fs, NEW la, Found(G, kernels, fs, la), NEW K \in kernels, NEW x
  PROVE  LET found == entries(G, K, lr1_items(G, fs, la, K), x) IN
         /\ IsFiniteSet(found)
         /\ \A e \in found : IsShift(G, K, x, e) \/ IsReduce(G, K, e)
         /\ \A i \in lr0_closure(G, K) :
              ~has_dot_at_end(G, i) /\ next_symbol(G, i) = x => <<"shift", go_to(G, K, x)>> \in found
<1>1. PICK items : items = lr1_items(G, fs, la, K)
  OBVIOUS
<1>2. /\ items \in SUBSET Items(G)
      /\ \A i \in items : Core(i) \in lr0_closure(G, K)
      /\ \A i \in lr0_closure(G, K) : \E j \in items : Core(j) = i
  BY <1>1, Lr1ItemsAre
<1>3. IsGrammar(G) /\ K \in SUBSET Cores(G)
  BY FoundKernels DEF Found
<1>4. PICK found : found = entries(G, K, items, x)
  OBVIOUS
<1>5. PICK R : R = IF accepts(G, items, x) THEN reductions(G, items, x) \ {1}
                   ELSE reductions(G, items, x)
  OBVIOUS
<1>6. PICK T : T = {i \in items : ~has_dot_at_end(G, i) /\ next_symbol(G, i) = x}
  OBVIOUS
<1>7. found = {<<"reduce", p>> : p \in R} \cup {<<"shift", go_to(G, K, x)>> : item \in T}
  BY <1>4, <1>5, <1>6 DEF entries
<1>8. ASSUME NEW p \in R
      PROVE  /\ p \in DOMAIN G.prods /\ p # m_root_production_id
             /\ <<p, Len(G.prods[p].body), NullSymbol>> \in lr0_closure(G, K)
  <2>1. PICK i \in items : i[1] = p /\ has_dot_at_end(G, i) /\ i[1] # m_root_production_id
    BY <1>5 DEF reductions
  <2>2. Core(i) = <<p, Len(G.prods[p].body), NullSymbol>>
    BY <2>1 DEF Core, has_dot_at_end, body_of
  <2>3. QED
    BY <1>2, <1>3, <2>1, <2>2, ItemParts
<1>9. \A p \in R : IsReduce(G, K, <<"reduce", p>>)
  BY <1>8 DEF IsReduce
<1>10. ASSUME NEW i \in T PROVE go_to(G, K, x) # {}
  <2>1. i \in items /\ i \in Items(G) /\ ~has_dot_at_end(G, i) /\ next_symbol(G, i) = x
    BY <1>2, <1>6
  <2>2. Core(i) \in lr0_closure(G, K) /\ ~has_dot_at_end(G, Core(i)) /\ next_symbol(G, Core(i)) = x
    BY <1>2, <1>3, <2>1, CoreIs
  <2>3. QED
    BY <1>3, <2>2, GoTo
<1>11. \A e \in found : IsShift(G, K, x, e) \/ IsReduce(G, K, e)
  BY <1>7, <1>9, <1>10 DEF IsShift
<1>12. ASSUME NEW i \in lr0_closure(G, K), ~has_dot_at_end(G, i), next_symbol(G, i) = x
       PROVE  <<"shift", go_to(G, K, x)>> \in found
  <2>1. PICK j \in items : Core(j) = i
    BY <1>2
  <2>2. ~has_dot_at_end(G, j) /\ next_symbol(G, j) = x
    BY <1>2, <1>3, <1>12, <2>1, CoreIs
  <2>3. j \in T
    BY <1>6, <2>2
  <2>4. QED
    BY <1>7, <2>3
<1>13. IsFiniteSet(found)
  <2>1. PICK P : P = DOMAIN G.prods
    OBVIOUS
  <2>2. PICK f : f = [p \in P |-> <<"reduce", p>>]
    OBVIOUS
  <2>3. PICK A : A = {f[p] : p \in P}
    OBVIOUS
  <2>4. IsFiniteSet(A)
    <3>1. Len(G.prods) \in Int /\ 1 \in Int /\ P = 1 .. Len(G.prods)
      BY <1>3, <2>1 DEF IsGrammar
    <3>2. IsFiniteSet(P)
      BY <3>1, FS_Interval
    <3>3. QED
      BY <2>3, <3>2, FiniteImage
  <2>5. IsFiniteSet({<<"shift", go_to(G, K, x)>>})
    BY FS_Singleton
  <2>6. IsFiniteSet(A \cup {<<"shift", go_to(G, K, x)>>})
    BY <2>4, <2>5, FS_Union
  <2>7. found \in SUBSET (A \cup {<<"shift", go_to(G, K, x)>>})
    BY <1>7, <1>8, <2>1, <2>2, <2>3
  <2>8. QED
    BY <2>6, <2>7, FS_Subset
<1>14. QED
  BY <1>1, <1>4, <1>11, <1>12, <1>13

\* Two members of a set, and its cardinality.
LEMMA NotTwo ==
  ASSUME NEW S, IsFiniteSet(S), ~(Cardinality(S) > 1), NEW e \in S
  PROVE  S = {e}
<1>1. SUFFICES ASSUME NEW d \in S, d # e PROVE FALSE
  OBVIOUS
<1>2. IsFiniteSet(S \ {e}) /\ Cardinality(S \ {e}) = Cardinality(S) - 1
  BY FS_RemoveElement
<1>3. Cardinality(S) \in Nat /\ Cardinality(S \ {e}) \in Nat
  BY <1>2, FS_CardinalityType
<1>4. Cardinality(S \ {e}) = 0
  BY <1>2, <1>3
<1>5. S \ {e} = {}
  BY <1>2, <1>4, FS_EmptySet
<1>6. QED
  BY <1>1, <1>5

LEMMA ActionIs ==
  ASSUME NEW G, NEW kernels, NEW fs, NEW la, Found(G, kernels, fs, la), NEW K \in kernels, NEW x
  PROVE  LET a == action(G, K, lr1_items(G, fs, la, K), x) IN
         a # Conflict =>
           /\ a # Error => IsShift(G, K, x, a) \/ IsReduce(G, K, a) \/ IsAccept(G, K, a)
           /\ \A i \in lr0_closure(G, K) :
                ~has_dot_at_end(G, i) /\ next_symbol(G, i) = x => IsShift(G, K, x, a)
<1>1. PICK items : items = lr1_items(G, fs, la, K)
  OBVIOUS
<1>2. PICK found : found = entries(G, K, items, x)
  OBVIOUS
<1>3. /\ IsFiniteSet(found)
      /\ \A e \in found : IsShift(G, K, x, e) \/ IsReduce(G, K, e)
      /\ \A i \in lr0_closure(G, K) :
              ~has_dot_at_end(G, i) /\ next_symbol(G, i) = x => <<"shift", go_to(G, K, x)>> \in found
  BY <1>1, <1>2, EntriesAre
<1>4. PICK a : a = action(G, K, items, x)
  OBVIOUS
<1>5. SUFFICES ASSUME a # Conflict
               PROVE  /\ a # Error => IsShift(G, K, x, a) \/ IsReduce(G, K, a) \/ IsAccept(G, K, a)
                      /\ \A i \in lr0_closure(G, K) :
                           ~has_dot_at_end(G, i) /\ next_symbol(G, i) = x => IsShift(G, K, x, a)
  BY <1>1, <1>4
<1>6. ~(Cardinality(found) > 1)
  BY <1>2, <1>4, <1>5 DEF action
<1>7. CASE found # {}
  <2>1. PICK e \in found : TRUE
    BY <1>7
  <2>2. found = {e}
    BY <1>3, <1>6, <2>1, NotTwo
  <2>3. a = CHOOSE d \in found : TRUE
    BY <1>2, <1>4, <1>6, <1>7 DEF action
  <2>4. a = e
    BY <2>2, <2>3
  <2>5. IsShift(G, K, x, a) \/ IsReduce(G, K, a)
    BY <1>3, <2>4
  <2>6. ASSUME NEW i \in lr0_closure(G, K), ~has_dot_at_end(G, i), next_symbol(G, i) = x
        PROVE  IsShift(G, K, x, a)
    <3>1. a = <<"shift", go_to(G, K, x)>>
      BY <1>3, <2>2, <2>4, <2>6
    <3>2. K \in SUBSET Cores(G) /\ IsGrammar(G)
      BY FoundKernels DEF Found
    <3>3. go_to(G, K, x) # {}
      BY <2>6, <3>2, GoTo
    <3>4. QED
      BY <3>1, <3>3 DEF IsShift
  <2>7. QED
    BY <2>5, <2>6
<1>8. CASE found = {} /\ accepts(G, items, x)
  <2>1. a = Accept
    BY <1>2, <1>4, <1>6, <1>8 DEF action
  <2>2. PICK i \in items : i[1] = m_root_production_id /\ has_dot_at_end(G, i)
    BY <1>8 DEF accepts
  <2>3. Core(i) \in lr0_closure(G, K) /\ IsGrammar(G)
    BY <1>1, Lr1ItemsAre DEF Found
  <2>4. Len(G.prods[m_root_production_id].body) = 1
    BY <2>3 DEF IsGrammar
  <2>5. Core(i) = <<m_root_production_id, 1, NullSymbol>>
    BY <2>2, <2>4 DEF Core, has_dot_at_end, body_of
  <2>6. QED
    BY <1>3, <1>8, <2>1, <2>3, <2>5 DEF IsAccept
<1>9. CASE found = {} /\ ~accepts(G, items, x)
  BY <1>2, <1>3, <1>4, <1>6, <1>9 DEF action
<1>10. QED
  BY <1>7, <1>8, <1>9

LEMMA GeneratedTable ==
  ASSUME NEW G, IsGrammar(G), NEW acts, acts = generate(G), ~has_conflict(acts)
  PROVE  IsTable(G, acts)
<1>1. PICK kernels : kernels = lr0_kernels(G)
  OBVIOUS
<1>2. PICK fs : fs = generate_first_sets(G)
  OBVIOUS
<1>3. PICK la : la = lookaheads(G, fs, kernels)
  OBVIOUS
<1>4. Found(G, kernels, fs, la)
  <2>1. fs \in FirstSets(G)
    BY <1>2, FirstSetsAreTyped
  <2>2. Productive(G, fs)
    BY <1>2 DEF IsGrammar, is_productive, Productive
  <2>3. QED
    BY <1>1, <1>3, <2>1, <2>2 DEF Found
<1> DEFINE act(K, x) == action(G, K, lr1_items(G, fs, la, K), x)
<1>5. acts = [K \in kernels |->
                [x \in {y \in Symbols(G) : [z \in Symbols(G) |-> act(K, z)][y] # Error} |->
                   [z \in Symbols(G) |-> act(K, z)][x]]]
  BY <1>1, <1>2, <1>3 DEF generate
<1>6. DOMAIN acts = kernels
  BY <1>5
<1>7. ASSUME NEW K \in kernels
      PROVE  acts[K] = [x \in {y \in Symbols(G) : act(K, y) # Error} |-> act(K, x)]
  <2> HIDE DEF act
  <2>1. acts[K] = [x \in {y \in Symbols(G) : [z \in Symbols(G) |-> act(K, z)][y] # Error} |->
                     [z \in Symbols(G) |-> act(K, z)][x]]
    BY <1>5
  <2>2. {y \in Symbols(G) : [z \in Symbols(G) |-> act(K, z)][y] # Error} = {y \in Symbols(G) : act(K, y) # Error}
    OBVIOUS
  <2>3. QED
    BY <2>1, <2>2
<1>8. ASSUME NEW K \in kernels
      PROVE  /\ \A x \in DOMAIN acts[K] : x \in Symbols(G) /\ acts[K][x] = act(K, x) /\ act(K, x) # Error
             /\ \A x \in Symbols(G) : act(K, x) # Error => x \in DOMAIN acts[K]
  <2> HIDE DEF act
  <2>1. QED
    BY <1>7
<1>9. ASSUME NEW K \in kernels, NEW x \in Symbols(G) PROVE act(K, x) # Conflict
  <2>1. SUFFICES ASSUME act(K, x) = Conflict PROVE FALSE
    OBVIOUS
  <2>2. Conflict # Error
    BY DEF Conflict, Error
  <2>3. x \in DOMAIN acts[K] /\ acts[K][x] = Conflict
    <3> HIDE DEF act
    <3>1. QED
      BY <1>8, <2>1, <2>2
  <2>4. QED
    BY <1>6, <2>3 DEF has_conflict
<1>10. ASSUME NEW K \in kernels, NEW x \in Symbols(G)
       PROVE  /\ act(K, x) # Error =>
                   IsShift(G, K, x, act(K, x)) \/ IsReduce(G, K, act(K, x)) \/ IsAccept(G, K, act(K, x))
              /\ \A i \in lr0_closure(G, K) :
                   ~has_dot_at_end(G, i) /\ next_symbol(G, i) = x => IsShift(G, K, x, act(K, x))
  BY <1>4, <1>9, ActionIs
<1>11. ASSUME NEW K \in kernels, NEW i \in lr0_closure(G, K), ~has_dot_at_end(G, i)
       PROVE  /\ next_symbol(G, i) \in DOMAIN acts[K]
              /\ IsShift(G, K, next_symbol(G, i), acts[K][next_symbol(G, i)])
  <2>1. PICK x : x = next_symbol(G, i)
    OBVIOUS
  <2>2. i \in Items(G)
    <3>1. K \in SUBSET Cores(G)
      BY <1>4, FoundKernels
    <3>2. QED
      BY <3>1, Lr0ClosureIs DEF Cores
  <2>3. x \in Symbols(G)
    BY <1>11, <2>1, <2>2, DotMoves
  <2>4. IsShift(G, K, x, act(K, x))
    <3> HIDE DEF act
    <3>1. QED
      BY <1>10, <1>11, <2>1, <2>3
  <2>5. act(K, x) # Error
    <3> HIDE DEF act
    <3>1. QED
      BY <2>4 DEF IsShift, Error
  <2>6. x \in DOMAIN acts[K] /\ acts[K][x] = act(K, x)
    <3> HIDE DEF act
    <3>1. QED
      BY <1>8, <2>3, <2>5
  <2>7. QED
    BY <2>1, <2>4, <2>6
<1>12. ASSUME NEW K \in kernels, NEW x \in DOMAIN acts[K]
       PROVE  /\ x \in Symbols(G)
              /\ IsShift(G, K, x, acts[K][x]) \/ IsReduce(G, K, acts[K][x]) \/ IsAccept(G, K, acts[K][x])
  <2> HIDE DEF act
  <2>1. QED
    BY <1>8, <1>10
<1>13. QED
  BY <1>1, <1>6, <1>11, <1>12 DEF IsTable
-----------------------------------------------------------------------------
(***************************************************************************)
(* The parse stack.                                                        *)
(***************************************************************************)
\* SymbolsOf, for a grammar that is given.
StandsFor(G, m) == IF IsToken(m) THEN Range(m.types) ELSE {G.prods[m.p].head}

\* m is a token, or an instance of its production made of members of N.
IsNode(G, N, m) ==
  IsToken(m) \/ /\ m.p \in DOMAIN G.prods
                /\ m.kids \in Seq(N)
                /\ Len(m.kids) = Len(G.prods[m.p].body)
                /\ \A i \in 1 .. Len(m.kids) : G.prods[m.p].body[i] \in StandsFor(G, m.kids[i])

IsForest(G, N) == \A m \in N : IsNode(G, N, m)

\* Each match leads from the item set below it to the one above.
Stacked(G, acts, sts, ms, N) ==
  /\ sts \in Seq(DOMAIN acts)
  /\ ms \in Seq(N)
  /\ Len(sts) = Len(ms) + 1
  /\ sts[1] = root_kernel
  /\ \A i \in 1 .. Len(ms) :
       \E x \in StandsFor(G, ms[i]) \cap DOMAIN acts[sts[i]] :
         IsShift(G, sts[i], x, acts[sts[i]][x]) /\ sts[i + 1] = acts[sts[i]][x][2]

LEMMA StackOf ==
  ASSUME NEW G, NEW acts, NEW sts, NEW ms, NEW N, Stacked(G, acts, sts, ms, N)
  PROVE  \E n \in Nat : /\ Len(ms) = n /\ Len(sts) = n + 1
                        /\ DOMAIN ms = 1 .. n /\ DOMAIN sts = 1 .. n + 1
                        /\ sts \in [1 .. n + 1 -> DOMAIN acts]
                        /\ ms \in [1 .. n -> N]
BY DEF Stacked

LEMMA StackedKernels ==
  ASSUME NEW G, IsGrammar(G), NEW acts, IsTable(G, acts), NEW K \in DOMAIN acts
  PROVE  /\ K \in lr0_kernels(G) /\ K \in Kernels(G) /\ K \in SUBSET Cores(G)
         /\ lr0_closure(G, K) \in SUBSET Cores(G)
         /\ lr0_closure(G, K) \in SUBSET Items(G)
<1>1. K \in lr0_kernels(G) /\ K \in Kernels(G)
  BY Lr0Kernels DEF IsTable
<1>2. K \in SUBSET Cores(G)
  BY <1>1, KernelsAreCores
<1>3. lr0_closure(G, K) \in SUBSET Cores(G)
  BY <1>2, Lr0ClosureIs
<1>4. QED
  BY <1>1, <1>2, <1>3 DEF Cores

\* An item whose dot has moved came from the item set below.
LEMMA OneDown ==
  ASSUME NEW G, IsGrammar(G), NEW acts, IsTable(G, acts), NEW sts, NEW ms, NEW N,
         Stacked(G, acts, sts, ms, N), NEW k \in 1 .. Len(sts), NEW p, NEW d \in Nat, d > 0,
         <<p, d, NullSymbol>> \in lr0_closure(G, sts[k])
  PROVE  /\ k > 1
         /\ <<p, d - 1, NullSymbol>> \in lr0_closure(G, sts[k - 1])
         /\ G.prods[p].body[d] \in StandsFor(G, ms[k - 1])
<1>1. PICK n \in Nat : /\ Len(ms) = n /\ Len(sts) = n + 1
                       /\ sts \in [1 .. n + 1 -> DOMAIN acts]
  BY StackOf
<1>2. PICK i : i = <<p, d, NullSymbol>>
  OBVIOUS
<1>3. sts[k] \in SUBSET Cores(G)
  BY <1>1, StackedKernels
<1>4. i \in sts[k]
  <2>1. i[2] # 0
    BY <1>2
  <2>2. QED
    BY <1>2, <1>3, <2>1, Lr0ClosureIs
<1>5. k > 1
  <2>1. SUFFICES ASSUME k = 1 PROVE FALSE
    BY <1>1
  <2>2. sts[k] = root_kernel
    BY <2>1 DEF Stacked
  <2>3. QED
    BY <1>2, <1>4, <2>2 DEF root_kernel
<1>6. k - 1 \in 1 .. n /\ k - 1 \in 1 .. n + 1 /\ (k - 1) + 1 = k
  BY <1>1, <1>5
<1>7. PICK K : K = sts[k - 1]
  OBVIOUS
<1>8. PICK x \in StandsFor(G, ms[k - 1]) : /\ IsShift(G, K, x, acts[K][x])
                                           /\ sts[k] = acts[K][x][2]
  BY <1>1, <1>6, <1>7 DEF Stacked
<1>9. sts[k] = go_to(G, K, x)
  BY <1>8 DEF IsShift
<1>10. K \in SUBSET Cores(G) /\ lr0_closure(G, K) \in SUBSET Items(G)
  BY <1>1, <1>6, <1>7, StackedKernels
<1>11. PICK j \in lr0_closure(G, K) : /\ next_symbol(G, j) = x
                                      /\ i = <<j[1], j[2] + 1, j[3]>>
  BY <1>4, <1>9, <1>10, GoTo
<1>12. j \in Items(G) /\ j = <<j[1], j[2], j[3]>> /\ j[2] \in Nat
  BY <1>10, ItemParts
<1>13. j[1] = p /\ j[2] + 1 = d /\ j[3] = NullSymbol
  BY <1>2, <1>11
<1>14. j[2] = d - 1
  BY <1>12, <1>13
<1>15. j = <<p, d - 1, NullSymbol>>
  BY <1>12, <1>13, <1>14
<1>16. x = G.prods[p].body[d]
  BY <1>11, <1>13 DEF next_symbol, body_of
<1>17. QED
  BY <1>5, <1>7, <1>8, <1>11, <1>15, <1>16

\* An item with the dot at the end: its body is on the stack, above an item set that has
\* the item with the dot at the beginning.
LEMMA BodyOnStack ==
  ASSUME NEW G, IsGrammar(G), NEW acts, IsTable(G, acts), NEW sts, NEW ms, NEW N,
         Stacked(G, acts, sts, ms, N), NEW p, NEW n \in Nat,
         <<p, n, NullSymbol>> \in lr0_closure(G, sts[Len(sts)])
  PROVE  /\ n < Len(sts)
         /\ <<p, 0, NullSymbol>> \in lr0_closure(G, sts[Len(sts) - n])
         /\ \A m \in 1 .. n : G.prods[p].body[m] \in StandsFor(G, ms[(Len(ms) - n) + m])
<1>1. PICK h \in Nat : Len(ms) = h /\ Len(sts) = h + 1
  BY StackOf
<1> DEFINE At(j) == /\ j < h + 1
                    /\ <<p, n - j, NullSymbol>> \in lr0_closure(G, sts[(h + 1) - j])
                    /\ \A m \in (n - j) + 1 .. n : G.prods[p].body[m] \in StandsFor(G, ms[(h - n) + m])
           S == {j \in Nat : j <= n => At(j)}
<1>2. 0 \in S
  <2>1. n - 0 = n /\ (h + 1) - 0 = h + 1
    BY <1>1
  <2>2. \A m \in (n - 0) + 1 .. n : FALSE
    OBVIOUS
  <2>3. 0 < h + 1
    BY <1>1
  <2>4. QED
    BY <1>1, <2>1, <2>2, <2>3
<1>3. ASSUME NEW j \in Nat, j \in S PROVE j + 1 \in S
  <2>1. SUFFICES ASSUME j + 1 <= n PROVE At(j + 1)
    OBVIOUS
  <2>2. At(j)
    BY <1>3, <2>1
  <2>3. PICK k \in Nat : k = (h + 1) - j /\ k \in 1 .. h + 1
    BY <1>1, <2>2
  <2>4. PICK d \in Nat : d = n - j /\ d > 0
    BY <2>1
  <2>5. /\ k > 1
        /\ <<p, d - 1, NullSymbol>> \in lr0_closure(G, sts[k - 1])
        /\ G.prods[p].body[d] \in StandsFor(G, ms[k - 1])
    <3>1. k \in 1 .. Len(sts)
      BY <1>1, <2>3
    <3>2. <<p, d, NullSymbol>> \in lr0_closure(G, sts[k])
      BY <2>2, <2>3, <2>4
    <3>3. QED
      BY <2>4, <3>1, <3>2, OneDown
  <2>6. d - 1 = n - (j + 1) /\ k - 1 = (h + 1) - (j + 1) /\ k - 1 = (h - n) + d /\ j + 1 < h + 1
    BY <1>1, <2>3, <2>4, <2>5
  <2>7. ASSUME NEW m \in (n - (j + 1)) + 1 .. n
        PROVE  G.prods[p].body[m] \in StandsFor(G, ms[(h - n) + m])
    <3>1. m = d \/ m \in (n - j) + 1 .. n
      BY <2>4
    <3>2. CASE m = d
      BY <2>5, <2>6, <3>2
    <3>3. QED
      BY <2>2, <3>1, <3>2
  <2>8. QED
    BY <2>5, <2>6, <2>7
<1>4. At(n)
  <2>1. n \in S
    <3> HIDE DEF S
    <3>1. QED
      BY <1>2, <1>3, SetInduction
  <2>2. QED
    BY <2>1
<1>5. n - n = 0 /\ (n - n) + 1 = 1
  OBVIOUS
<1>6. QED
  BY <1>1, <1>4, <1>5

\* A production that an item set begins with was added for its head.
LEMMA HeadIsNext ==
  ASSUME NEW G, IsGrammar(G), NEW acts, IsTable(G, acts), NEW K \in DOMAIN acts, NEW p,
         p # m_root_production_id, <<p, 0, NullSymbol>> \in lr0_closure(G, K)
  PROVE  /\ G.prods[p].head \in DOMAIN acts[K]
         /\ IsShift(G, K, G.prods[p].head, acts[K][G.prods[p].head])
<1>1. K \in Kernels(G) /\ K \in SUBSET Cores(G) /\ lr0_closure(G, K) \in SUBSET Items(G)
  BY StackedKernels
<1>2. PICK i : i = <<p, 0, NullSymbol>> /\ i[1] = p /\ i[2] = 0
  OBVIOUS
<1>3. i \notin K
  <2>1. CASE K = root_kernel
    BY <1>2, <2>1 DEF root_kernel
  <2>2. CASE K \in Moved(G)
    <3>1. \A k \in K : k[2] > 0
      BY <2>2 DEF Moved
    <3>2. QED
      BY <1>2, <3>1
  <2>3. QED
    BY <1>1, <2>1, <2>2 DEF Kernels
<1>4. PICK j \in lr0_closure(G, K) : p \in expanded(G, j)
  BY <1>1, <1>2, <1>3, Lr0ClosureIs
<1>5. ~has_dot_at_end(G, j) /\ G.prods[p].head = next_symbol(G, j)
  BY <1>4 DEF expanded
<1>6. QED
  BY <1>5 DEF IsTable

\* The acceptance: one match on the root's item set, and it stands for the start symbol.
LEMMA RootOnStack ==
  ASSUME NEW G, IsGrammar(G), NEW acts, IsTable(G, acts), NEW sts, NEW ms, NEW N,
         Stacked(G, acts, sts, ms, N),
         <<m_root_production_id, 1, NullSymbol>> \in lr0_closure(G, sts[Len(sts)])
  PROVE  Len(ms) = 1 /\ G.prods[1].head \in StandsFor(G, ms[1])
<1>1. PICK h \in Nat : /\ Len(ms) = h /\ Len(sts) = h + 1
                       /\ sts \in [1 .. h + 1 -> DOMAIN acts]
  BY StackOf
<1>2. PICK r : r = m_root_production_id
  OBVIOUS
<1>3. h + 1 \in 1 .. Len(sts)
  BY <1>1
<1>4. /\ h + 1 > 1
      /\ <<r, 1 - 1, NullSymbol>> \in lr0_closure(G, sts[(h + 1) - 1])
      /\ G.prods[r].body[1] \in StandsFor(G, ms[(h + 1) - 1])
  <2>1. <<r, 1, NullSymbol>> \in lr0_closure(G, sts[h + 1])
    BY <1>1, <1>2
  <2>2. 1 \in Nat /\ 1 > 0
    OBVIOUS
  <2>3. QED
    BY <1>3, <2>1, <2>2, OneDown
<1>5. (h + 1) - 1 = h /\ 1 - 1 = 0 /\ h \in 1 .. h + 1 /\ h >= 1
  BY <1>4
<1>6. PICK K : K = sts[h] /\ <<r, 0, NullSymbol>> \in lr0_closure(G, K)
  BY <1>4, <1>5
<1>7. /\ K \in DOMAIN acts /\ K \in Kernels(G) /\ K \in SUBSET Cores(G)
      /\ lr0_closure(G, K) \in SUBSET Items(G)
  BY <1>1, <1>5, <1>6, StackedKernels
<1>8. <<r, 0, NullSymbol>> \in K
  <2>1. \A j \in lr0_closure(G, K) : r \notin expanded(G, j)
    BY <1>2, <1>7, ExpandedAreProductions
  <2>2. <<r, 0, NullSymbol>>[1] = r
    OBVIOUS
  <2>3. QED
    BY <1>6, <1>7, <2>1, <2>2, Lr0ClosureIs
<1>9. h = 1
  <2>1. SUFFICES ASSUME h # 1 PROVE FALSE
    OBVIOUS
  <2>2. h - 1 \in 1 .. Len(ms) /\ h - 1 \in 1 .. h + 1 /\ (h - 1) + 1 = h
    BY <1>1, <1>5, <2>1
  <2>3. PICK L : L = sts[h - 1]
    OBVIOUS
  <2>4. PICK x : IsShift(G, L, x, acts[L][x]) /\ K = acts[L][x][2]
    BY <1>6, <2>2, <2>3 DEF Stacked
  <2>5. K = go_to(G, L, x) /\ K # {}
    BY <2>4 DEF IsShift
  <2>6. L \in SUBSET Cores(G)
    BY <1>1, <2>2, <2>3, StackedKernels
  <2>7. K \in Moved(G)
    BY <2>5, <2>6, GoTo
  <2>8. <<r, 0, NullSymbol>>[2] > 0
    BY <1>8, <2>7 DEF Moved
  <2>9. QED
    BY <2>8
<1>10. G.prods[r].body[1] = G.prods[1].head
  BY <1>2 DEF IsGrammar
<1>11. QED
  BY <1>1, <1>4, <1>5, <1>9, <1>10

LEMMA StackedShift ==
  ASSUME NEW G, NEW acts, NEW sts, NEW ms, NEW N, Stacked(G, acts, sts, ms, N),
         IsTable(G, acts), IsGrammar(G), NEW m \in N,
         NEW x \in StandsFor(G, m) \cap DOMAIN acts[sts[Len(sts)]],
         IsShift(G, sts[Len(sts)], x, acts[sts[Len(sts)]][x])
  PROVE  Stacked(G, acts, Append(sts, acts[sts[Len(sts)]][x][2]), Append(ms, m), N)
<1>1. PICK h \in Nat : /\ Len(ms) = h /\ Len(sts) = h + 1
                       /\ sts \in [1 .. h + 1 -> DOMAIN acts]
  BY StackOf
<1>2. PICK K : K = sts[h + 1]
  OBVIOUS
<1>3. PICK next : next = acts[K][x][2]
  OBVIOUS
<1>4. sts \in Seq(DOMAIN acts) /\ ms \in Seq(N)
  BY DEF Stacked
<1>5. next \in DOMAIN acts
  <2>1. K \in DOMAIN acts
    BY <1>1, <1>2
  <2>2. x \in Symbols(G)
    BY <1>1, <1>2, <2>1 DEF IsTable
  <2>3. next = go_to(G, K, x) /\ next # {}
    BY <1>1, <1>2, <1>3 DEF IsShift
  <2>4. K \in lr0_kernels(G)
    BY <2>1, StackedKernels
  <2>5. next \in lr0_kernels(G)
    BY <2>2, <2>3, <2>4, Lr0Kernels
  <2>6. QED
    BY <2>5 DEF IsTable
<1>6. PICK S : S = Append(sts, next)
  OBVIOUS
<1>7. PICK M : M = Append(ms, m)
  OBVIOUS
<1>8. /\ S \in Seq(DOMAIN acts) /\ Len(S) = h + 2 /\ S[h + 2] = next
      /\ \A i \in 1 .. h + 1 : S[i] = sts[i]
  BY <1>1, <1>4, <1>5, <1>6
<1>9. M \in Seq(N) /\ Len(M) = h + 1 /\ M[h + 1] = m /\ \A i \in 1 .. h : M[i] = ms[i]
  BY <1>1, <1>4, <1>7
<1>10. S[1] = root_kernel
  <2>1. 1 \in 1 .. h + 1
    OBVIOUS
  <2>2. QED
    BY <1>8, <2>1 DEF Stacked
<1>11. ASSUME NEW i \in 1 .. h + 1
       PROVE  \E y \in StandsFor(G, M[i]) \cap DOMAIN acts[S[i]] :
                IsShift(G, S[i], y, acts[S[i]][y]) /\ S[i + 1] = acts[S[i]][y][2]
  <2>1. CASE i = h + 1
    <3>1. S[i] = K /\ S[i + 1] = next /\ M[i] = m
      BY <1>2, <1>8, <1>9, <2>1
    <3>2. QED
      BY <1>1, <1>2, <1>3, <3>1
  <2>2. CASE i # h + 1
    <3>1. i \in 1 .. h /\ i \in 1 .. h + 1 /\ i + 1 \in 1 .. h + 1
      BY <2>2
    <3>2. S[i] = sts[i] /\ S[i + 1] = sts[i + 1] /\ M[i] = ms[i]
      BY <1>8, <1>9, <3>1
    <3>3. QED
      BY <1>1, <3>1, <3>2 DEF Stacked
  <2>3. QED
    BY <2>1, <2>2
<1>12. Len(S) = Len(M) + 1
  BY <1>8, <1>9
<1>13. Stacked(G, acts, S, M, N)
  BY <1>8, <1>9, <1>10, <1>11, <1>12 DEF Stacked
<1>14. QED
  BY <1>1, <1>2, <1>3, <1>6, <1>7, <1>13

\* The lower part of a stack is a stack.
LEMMA StackedPop ==
  ASSUME NEW G, NEW acts, NEW sts, NEW ms, NEW N, Stacked(G, acts, sts, ms, N),
         NEW n \in Nat, n < Len(sts)
  PROVE  /\ Stacked(G, acts, SubSeq(sts, 1, Len(sts) - n), SubSeq(ms, 1, Len(ms) - n), N)
         /\ Len(SubSeq(sts, 1, Len(sts) - n)) = Len(sts) - n
         /\ SubSeq(sts, 1, Len(sts) - n)[Len(sts) - n] = sts[Len(sts) - n]
<1>1. PICK h \in Nat : Len(ms) = h /\ Len(sts) = h + 1
  BY StackOf
<1>2. sts \in Seq(DOMAIN acts) /\ ms \in Seq(N)
  BY DEF Stacked
<1>3. PICK l \in Nat : l = h - n /\ l + 1 = (h + 1) - n
  BY <1>1
<1>4. PICK S : S = SubSeq(sts, 1, l + 1)
  OBVIOUS
<1>5. PICK M : M = SubSeq(ms, 1, l)
  OBVIOUS
<1>6. S \in Seq(DOMAIN acts) /\ Len(S) = l + 1 /\ \A i \in 1 .. l + 1 : S[i] = sts[i]
  BY <1>1, <1>2, <1>3, <1>4
<1>7. M \in Seq(N) /\ Len(M) = l /\ \A i \in 1 .. l : M[i] = ms[i]
  BY <1>1, <1>2, <1>3, <1>5
<1>8. S[1] = root_kernel
  BY <1>6 DEF Stacked
<1>9. ASSUME NEW i \in 1 .. l
      PROVE  \E y \in StandsFor(G, M[i]) \cap DOMAIN acts[S[i]] :
                IsShift(G, S[i], y, acts[S[i]][y]) /\ S[i + 1] = acts[S[i]][y][2]
  <2>1. i \in 1 .. h /\ i \in 1 .. l + 1 /\ i + 1 \in 1 .. l + 1
    BY <1>1, <1>3
  <2>2. S[i] = sts[i] /\ S[i + 1] = sts[i + 1] /\ M[i] = ms[i]
    BY <1>6, <1>7, <2>1
  <2>3. QED
    BY <1>1, <2>1, <2>2 DEF Stacked
<1>10. Stacked(G, acts, S, M, N)
  BY <1>6, <1>7, <1>8, <1>9 DEF Stacked
<1>11. QED
  BY <1>1, <1>3, <1>4, <1>5, <1>6, <1>10

\* More nodes.
LEMMA StackedIn ==
  ASSUME NEW G, NEW acts, NEW sts, NEW ms, NEW N, NEW P, N \subseteq P,
         Stacked(G, acts, sts, ms, N)
  PROVE  Stacked(G, acts, sts, ms, P)
<1>1. ms \in Seq(P)
  BY DEF Stacked
<1>2. QED
  BY <1>1 DEF Stacked

LEMMA ForestGrows ==
  ASSUME NEW G, NEW N, IsForest(G, N), NEW m, IsNode(G, N, m)
  PROVE  IsForest(G, N \cup {m})
<1>1. PICK P : P = N \cup {m} /\ N \subseteq P
  OBVIOUS
<1>2. ASSUME NEW k, IsNode(G, N, k) PROVE IsNode(G, P, k)
  <2>1. k.kids \in Seq(N) => k.kids \in Seq(P)
    BY <1>1
  <2>2. QED
    BY <1>2, <2>1 DEF IsNode
<1>3. QED
  BY <1>1, <1>2 DEF IsForest
-----------------------------------------------------------------------------
(***************************************************************************)
(* The inductive invariant of the parser.                                  *)
(***************************************************************************)
\* In the loop of parse(), with the stack that the tokens so far have made.
Parsing == pc \in {"parse", "advance"} \/ (pc = "scan" /\ back = "advance")

\* A token while it is scanned.
IsScan(t) ==
  /\ t = [types |-> t.types, start_pos |-> t.start_pos, word |-> t.word, text |-> t.text]
  /\ \E S : t.word \in Seq(S)

ControlInv == /\ pc \in Pcs /\ back \in {"advance", "drain"}
              /\ pc = "drain" => back = "drain"
TableInv == /\ \E grammar \in Grammars : g = GrammarOf(grammar)
            /\ pc \notin {"new", "conflict"} => IsTable(g, actions)
TokenInv == /\ \A t \in {tok, next_token} : IsToken(t) /\ t.types \in Seq(Range(t.types))
            /\ pc = "scan" => IsScan(tok)
BufferInv == /\ IsBuffer(buf) /\ buf.size = StaticSize
             /\ \E S : input \in Seq(S)
             /\ read_off \in 0 .. Len(input)
StackInv == Parsing => \E N : IsForest(g, N) /\ Stacked(g, actions, states, matches, N)

\* What parse() returns is a parse tree, whose root stands for the start symbol, and
\* nothing is left on the stack, as is asserted there.
AcceptedIsTree ==
  pc = "accepted" => /\ matches = <<>>
                     /\ g.prods[1].head \in SymbolsOf(parsed)
                     /\ \E N : parsed \in N /\ IsForest(g, N)

IInv == ControlInv /\ TableInv /\ TokenInv /\ BufferInv /\ StackInv /\ AcceptedIsTree

LEMMA SymbolsAre ==
  ASSUME NEW m
  PROVE  SymbolsOf(m) = StandsFor(g, m)
BY DEF SymbolsOf, StandsFor

\* The longest match is that of a word, or nothing.
LEMMA MatchLength ==
  ASSUME NEW S, NEW word \in Seq(S)
  PROVE  /\ match_length(word) \in 0 .. Len(word)
         /\ match_length(word) > 0 => SubSeq(word, 1, match_length(word)) \in DOMAIN TokenTypes
<1>1. PICK n \in Nat : n = Len(word)
  OBVIOUS
<1> DEFINE Fits(k) == /\ k > 0 => SubSeq(word, 1, k) \in DOMAIN TokenTypes
                      /\ \A j \in k + 1 .. n : SubSeq(word, 1, j) \notin DOMAIN TokenTypes
<1>2. PICK D : D = {d \in 0 .. n : d < n /\ SubSeq(word, 1, n - d) \in DOMAIN TokenTypes}
  OBVIOUS
<1>3. \E k \in 0 .. n : Fits(k)
  <2>1. CASE D = {}
    <3>1. ASSUME NEW j \in 1 .. n PROVE SubSeq(word, 1, j) \notin DOMAIN TokenTypes
      <4>1. n - j \in 0 .. n /\ n - j < n /\ n - (n - j) = j
        OBVIOUS
      <4>2. QED
        BY <1>2, <2>1, <4>1
    <3>2. Fits(0)
      BY <3>1
    <3>3. QED
      BY <3>2
  <2>2. CASE D # {}
    <3>1. D \in SUBSET Nat
      BY <1>2
    <3>2. PICK d \in D : \A e \in D : d <= e
      BY <2>2, <3>1, LeastNatural
    <3>3. PICK k \in 1 .. n : k = n - d /\ SubSeq(word, 1, k) \in DOMAIN TokenTypes
      BY <1>2, <3>2
    <3>4. ASSUME NEW j \in k + 1 .. n PROVE SubSeq(word, 1, j) \notin DOMAIN TokenTypes
      <4>1. n - j \in 0 .. n /\ n - j < n /\ n - (n - j) = j /\ n - j < d
        BY <1>2, <3>2, <3>3
      <4>2. n - j \notin D
        BY <3>1, <3>2, <4>1
      <4>3. QED
        BY <1>2, <4>1, <4>2
    <3>5. QED
      BY <3>3, <3>4
  <2>3. QED
    BY <2>1, <2>2
<1>4. match_length(word) = CHOOSE k \in 0 .. n : Fits(k)
  BY <1>1 DEF match_length
<1>5. match_length(word) \in 0 .. n /\ Fits(match_length(word))
  <2> HIDE DEF Fits
  <2>1. QED
    BY <1>3, <1>4
<1>6. QED
  BY <1>1, <1>5

LEMMA MatchedIsToken ==
  ASSUME NEW t, IsScan(t)
  PROVE  IsToken(matched(t)) /\ matched(t).types \in Seq(Range(matched(t).types))
<1>1. PICK S : t.word \in Seq(S)
  BY DEF IsScan
<1>2. PICK k : k = match_length(t.word)
  OBVIOUS
<1>3. k \in 0 .. Len(t.word) /\ (k > 0 => SubSeq(t.word, 1, k) \in DOMAIN TokenTypes)
  BY <1>1, <1>2, MatchLength
<1>4. PICK types : types = IF k = 0 THEN <<TokenEnd>> ELSE TokenTypes[SubSeq(t.word, 1, k)]
  OBVIOUS
<1>5. types \in Seq(Range(types))
  <2>1. CASE k = 0
    <3>1. types = <<TokenEnd>>
      BY <1>4, <2>1
    <3>2. TokenEnd \in Range(types)
      BY <3>1 DEF Range
    <3>3. QED
      BY <3>1, <3>2
  <2>2. CASE k # 0
    <3>1. SubSeq(t.word, 1, k) \in DOMAIN TokenTypes
      BY <1>1, <1>3, <2>2
    <3>2. QED
      BY <1>4, <2>2, <3>1, TokenAssumption
  <2>3. QED
    BY <2>1, <2>2
<1>6. matched(t).types = types /\ IsToken(matched(t))
  BY <1>2, <1>4 DEF matched, IsToken
<1>7. QED
  BY <1>5, <1>6

LEMMA NoTokenIs ==
  /\ IsToken(NoToken) /\ NoToken.types \in Seq(Range(NoToken.types))
  /\ \A b : LET t == StartScan(b) IN
              IsToken(t) /\ t.types \in Seq(Range(t.types)) /\ IsScan(t)
<1>1. <<>> \in Seq(Range(<<>>))
  OBVIOUS
<1>2. IsToken(NoToken) /\ NoToken.types = <<>>
  BY DEF IsToken, NoToken
<1>3. ASSUME NEW b
      PROVE  LET t == StartScan(b) IN
             IsToken(t) /\ t.types \in Seq(Range(t.types)) /\ IsScan(t)
  <2>1. IsToken(StartScan(b)) /\ StartScan(b).types = <<>>
    BY DEF IsToken, StartScan
  <2>2. <<>> \in Seq({})
    OBVIOUS
  <2>3. IsScan(StartScan(b))
    BY <2>2 DEF IsScan, StartScan
  <2>4. QED
    BY <1>1, <2>1, <2>3
<1>4. QED
  BY <1>1, <1>2, <1>3

\* What the types of the token lead to.
LEMMA FirstActionIs ==
  ASSUME NEW K, K = Last(states), IsToken(tok), tok.types \in Seq(Range(tok.types))
  PROVE  \/ first_action = Error
         \/ \E x \in Range(tok.types) \cap DOMAIN actions[K] : first_action = actions[K][x]
<1>1. PICK types : types = tok.types
  OBVIOUS
<1>2. PICK n \in Nat : n = Len(types) /\ DOMAIN types = 1 .. n
  BY <1>1
<1>3. PICK tried : tried = [i \in 1 .. n |-> m_actions(actions, K, types[i])]
  OBVIOUS
<1>4. PICK good : good = {i \in 1 .. n : tried[i] # Error}
  OBVIOUS
<1>5. first_action = IF good = {} THEN Error ELSE tried[CHOOSE i \in good : \A j \in good : i <= j]
  <2>1. tried = [i \in DOMAIN tok.types |-> m_actions(actions, Last(states), tok.types[i])]
    BY <1>1, <1>2, <1>3
  <2>2. good = {i \in DOMAIN tried : tried[i] # Error}
    BY <1>3, <1>4
  <2>3. QED
    BY <2>1, <2>2 DEF first_action
<1>6. CASE good = {}
  BY <1>5, <1>6
<1>7. CASE good # {}
  <2>1. good \in SUBSET Nat
    BY <1>4
  <2>2. \E i \in good : \A j \in good : i <= j
    BY <1>7, <2>1, LeastNatural
  <2>3. PICK i \in good : i = CHOOSE k \in good : \A j \in good : k <= j
    BY <2>2
  <2>4. first_action = tried[i] /\ tried[i] # Error /\ i \in 1 .. n
    BY <1>4, <1>5, <1>7, <2>3
  <2>5. types[i] \in Range(types)
    BY <1>2, <2>4 DEF Range
  <2>6. types[i] \in DOMAIN actions[K] /\ tried[i] = actions[K][types[i]]
    BY <1>3, <2>4 DEF m_actions
  <2>7. QED
    BY <1>1, <2>4, <2>5, <2>6
<1>8. QED
  BY <1>6, <1>7

\* The methods of the buffer keep its size and its fields.
LEMMA BufferMethods ==
  ASSUME NEW b, IsBuffer(b)
  PROVE  /\ \A o, n : IsBuffer(read_success(b, o, n)) /\ read_success(b, o, n).size = b.size
         /\ IsBuffer(read_eof(b)) /\ read_eof(b).size = b.size
         /\ IsBuffer(advance(b)) /\ advance(b).size = b.size
         /\ \A p : IsBuffer(set_pos(b, p)) /\ set_pos(b, p).size = b.size
         /\ IsBuffer(consume_log(b)) /\ consume_log(b).size = b.size
         /\ \A p : IsBuffer(set_consumed_pos(b, p)) /\ set_consumed_pos(b, p).size = b.size
<1>1. ASSUME NEW o, NEW n
      PROVE  IsBuffer(read_success(b, o, n)) /\ read_success(b, o, n).size = b.size
  <2>1. PICK bytes, first, last, finished :
          read_success(b, o, n) = [ b EXCEPT !.storage = bytes, !.first_half = first,
                                             !.finished = finished, !.last_read = last ]
    BY DEF read_success
  <2>2. PICK c : c = read_success(b, o, n)
    OBVIOUS
  <2>3. IsBuffer(c) /\ c.size = b.size
    BY <2>1, <2>2 DEF IsBuffer
  <2>4. QED
    BY <2>2, <2>3
<1>2. IsBuffer(read_eof(b)) /\ read_eof(b).size = b.size
  <2>1. PICK finished : read_eof(b) = [b EXCEPT !.finished = finished]
    BY DEF read_eof
  <2>2. QED
    BY <2>1 DEF IsBuffer
<1>3. IsBuffer(advance(b)) /\ advance(b).size = b.size
  BY DEF IsBuffer, advance
<1>4. \A p : IsBuffer(set_pos(b, p)) /\ set_pos(b, p).size = b.size
  BY DEF IsBuffer, set_pos
<1>5. IsBuffer(consume_log(b)) /\ consume_log(b).size = b.size
  <2>1. PICK consumed : consume_log(b) = [b EXCEPT !.fully_consumed = consumed]
    BY DEF consume_log
  <2>2. QED
    BY <2>1 DEF IsBuffer
<1>6. \A p : IsBuffer(set_consumed_pos(b, p)) /\ set_consumed_pos(b, p).size = b.size
  BY DEF IsBuffer, set_consumed_pos
<1>7. QED
  BY <1>1, <1>2, <1>3, <1>4, <1>5, <1>6

LEMMA ResetBuffer == IsBuffer(reset(StaticSize)) /\ reset(StaticSize).size = StaticSize
BY DEF IsBuffer, reset

\* A schema that is parsed is a sequence.
LEMMA SchemasAreSequences ==
  ASSUME TableInv
  PROVE  /\ \A schema \in Inputs[g.prods[1].head] : \E S : schema \in Seq(S)
         /\ \A schema \in NextInputs : \E S : schema \in Seq(S)
<1>1. PICK grammar \in Grammars : g = GrammarOf(grammar)
  BY DEF TableInv
<1>2. g.prods = productions(grammar.added)
  BY <1>1 DEF GrammarOf
<1>3. \A schema \in Inputs[g.prods[1].head] : schema \in Seq(Range(schema))
  BY <1>2, InputAssumption
<1>4. \A schema \in NextInputs : schema \in Seq(Range(schema))
  BY InputAssumption
<1>5. QED
  BY <1>3, <1>4

LEMMA InitSatisfies == Init => IInv
<1> SUFFICES ASSUME Init PROVE IInv
  OBVIOUS
<1> USE DEF Init
<1>1. ControlInv
  BY DEF ControlInv, Pcs
<1>2. TableInv
  BY DEF TableInv, GrammarOf
<1>3. TokenInv
  BY NoTokenIs DEF TokenInv
<1>4. BufferInv
  <2>1. input \in Seq({}) /\ Len(input) = 0
    OBVIOUS
  <2>2. read_off \in 0 .. Len(input)
    BY <2>1
  <2>3. QED
    BY <2>1, <2>2, ResetBuffer DEF BufferInv
<1>5. StackInv
  BY DEF StackInv, Parsing
<1>6. AcceptedIsTree
  BY DEF AcceptedIsTree
<1>7. QED
  BY <1>1, <1>2, <1>3, <1>4, <1>5, <1>6 DEF IInv

LEMMA ControlKept ==
  ASSUME IInv, Next
  PROVE  ControlInv'
<1> USE DEF IInv, ControlInv, Pcs
<1>1. CASE Generate
  BY <1>1 DEF Generate
<1>2. ASSUME NEW schema, Parse(schema) PROVE ControlInv'
  BY <1>2 DEF Parse
<1>3. CASE GetNextSymbol
  BY <1>3 DEF GetNextSymbol
<1>4. CASE ScanChar
  BY <1>4 DEF ScanChar
<1>5. CASE ScanMatch
  BY <1>5 DEF ScanMatch
<1>6. CASE ScanEnd
  BY <1>6 DEF ScanEnd
<1>7. CASE ScanOutOfBounds
  BY <1>7 DEF ScanOutOfBounds
<1>8. CASE Shift
  BY <1>8 DEF Shift
<1>9. CASE Reduce
  BY <1>9 DEF Reduce
<1>10. CASE AcceptInput
  BY <1>10 DEF AcceptInput
<1>11. CASE RejectToken
  BY <1>11 DEF RejectToken
<1>12. CASE ReportError
  BY <1>12 DEF ReportError
<1>13. CASE UnwindNonTerminal
  BY <1>13 DEF UnwindNonTerminal
<1>14. CASE UnwindToken
  BY <1>14 DEF UnwindToken
<1>15. CASE UnwindEnd
  BY <1>15 DEF UnwindEnd
<1>16. CASE DrainLine
  BY <1>16 DEF DrainLine
<1>17. CASE ThrowError
  BY <1>17 DEF ThrowError
<1>18. QED
  BY <1>1, <1>2, <1>3, <1>4, <1>5, <1>6, <1>7, <1>8, <1>9, <1>10, <1>11, <1>12, <1>13,
     <1>14, <1>15, <1>16, <1>17 DEF Next, Step, ParseFirst, ParseAgain

LEMMA TablesKept ==
  ASSUME IInv, Next
  PROVE  TableInv'
<1>1. PICK grammar \in Grammars : g = GrammarOf(grammar)
  BY DEF IInv, TableInv
<1>2. CASE Generate
  <2>1. g' = g /\ actions' = generate(g) /\ (pc' # "conflict" => ~has_conflict(actions'))
    BY <1>2 DEF Generate
  <2>2. IsGrammar(g)
    BY <1>1, GrammarsAreGrammars
  <2>3. pc' # "conflict" => IsTable(g, actions')
    BY <2>1, <2>2, GeneratedTable
  <2>4. QED
    BY <1>1, <2>1, <2>3 DEF TableInv
<1>3. CASE ~Generate
  <2>1. g' = g /\ actions' = actions
    BY <1>3 DEF Next, ParseFirst, ParseAgain, Parse, Step, GetNextSymbol, ScanChar, ScanMatch,
                ScanEnd, ScanOutOfBounds, Shift, Reduce, AcceptInput, RejectToken, ReportError,
                UnwindNonTerminal, UnwindToken, UnwindEnd, DrainLine, ThrowError, tables
  <2>2. pc \notin {"new", "conflict"}
    BY <1>3 DEF Next, ParseFirst, ParseAgain, ended, Step, GetNextSymbol, ScanChar, ScanMatch,
                at_character, ScanEnd, ScanOutOfBounds, Shift, Reduce, AcceptInput, RejectToken,
                ReportError, UnwindNonTerminal, UnwindToken, UnwindEnd, DrainLine, ThrowError
  <2>3. QED
    BY <2>1, <2>2 DEF IInv, TableInv
<1>4. QED
  BY <1>2, <1>3

LEMMA TokensKept ==
  ASSUME IInv, Next
  PROVE  TokenInv'
<1> USE DEF IInv, ControlInv, TokenInv
<1>1. CASE Generate
  BY <1>1 DEF Generate, stacks
<1>2. ASSUME NEW schema, Parse(schema) PROVE TokenInv'
  BY <1>2, NoTokenIs DEF Parse
<1>3. CASE GetNextSymbol
  BY <1>3, NoTokenIs DEF GetNextSymbol
<1>4. CASE ScanChar
  <2>1. /\ tok' = [tok EXCEPT !.word = next_word, !.text = Append(@, curr_value(buf))]
        /\ next_token' = next_token /\ IsScan(tok)
    BY <1>4 DEF ScanChar, at_character, stacks
  <2>2. IsToken(tok') /\ tok'.types = tok.types
    BY <2>1 DEF IsToken, IsScan
  <2>3. tok'.word = Append(tok.word, input[curr_value(buf) + 1])
    BY <2>1 DEF IsScan, next_word
  <2>4. PICK S : tok.word \in Seq(S)
    BY <2>1 DEF IsScan
  <2>5. PICK c : c = input[curr_value(buf) + 1]
    OBVIOUS
  <2>6. Append(tok.word, c) \in Seq(S \cup {c})
    <3>1. tok.word \in Seq(S \cup {c})
      BY <2>4
    <3>2. QED
      BY <3>1
  <2>7. \E R : tok'.word \in Seq(R)
    BY <2>3, <2>5, <2>6
  <2>8. tok' = [types |-> tok'.types, start_pos |-> tok'.start_pos, word |-> tok'.word,
                text |-> tok'.text]
    BY <2>1 DEF IsScan
  <2>9. IsScan(tok')
    BY <2>7, <2>8 DEF IsScan
  <2>10. IsToken(tok)' /\ (tok.types \in Seq(Range(tok.types)))'
    BY <2>2
  <2>11. QED
    BY <2>1, <2>2, <2>9
<1>5. CASE ScanMatch \/ ScanEnd
  <2>1. tok' = matched(tok) /\ next_token' = next_token /\ pc' = back /\ pc = "scan"
    BY <1>5 DEF ScanMatch, ScanEnd, at_character, stacks
  <2>2. IsToken(tok') /\ tok'.types \in Seq(Range(tok'.types))
    BY <2>1, MatchedIsToken
  <2>3. QED
    BY <2>1, <2>2
<1>6. CASE ScanOutOfBounds
  BY <1>6 DEF ScanOutOfBounds, stacks
<1>7. CASE Shift
  BY <1>7 DEF Shift
<1>8. CASE Reduce
  BY <1>8 DEF Reduce
<1>9. CASE AcceptInput
  BY <1>9 DEF AcceptInput
<1>10. CASE RejectToken
  BY <1>10 DEF RejectToken
<1>11. CASE ReportError \/ UnwindNonTerminal \/ UnwindToken \/ UnwindEnd
  BY <1>11 DEF ReportError, UnwindNonTerminal, UnwindToken, UnwindEnd
<1>12. CASE DrainLine
  BY <1>12, NoTokenIs DEF DrainLine, stacks
<1>13. CASE ThrowError
  BY <1>13 DEF ThrowError, stacks
<1>14. QED
  BY <1>1, <1>2, <1>3, <1>4, <1>5, <1>6, <1>7, <1>8, <1>9, <1>10, <1>11, <1>12, <1>13
     DEF Next, Step, ParseFirst, ParseAgain

LEMMA BufferKept ==
  ASSUME IInv, Next
  PROVE  BufferInv'
<1>1. BufferInv
  BY DEF IInv
<1>2. PICK S : input \in Seq(S)
  BY <1>1 DEF BufferInv
<1>3. IsBuffer(buf) /\ buf.size = StaticSize /\ read_off \in 0 .. Len(input) /\ Len(input) \in Nat
  BY <1>1, <1>2 DEF BufferInv
\* Steps that use other methods of the buffer than those that read.
<1>4. ASSUME IsBuffer(buf') /\ buf'.size = buf.size, input' = input, read_off' = read_off
      PROVE  BufferInv'
  <2>1. IsBuffer(buf)' /\ (buf.size = StaticSize)'
    BY <1>3, <1>4
  <2>2. (\E R : input \in Seq(R))' /\ (read_off \in 0 .. Len(input))'
    BY <1>2, <1>3, <1>4
  <2>3. QED
    BY <2>1, <2>2 DEF BufferInv
<1>5. ASSUME NEW schema, Parse(schema), \E R : schema \in Seq(R) PROVE BufferInv'
  <2>1. input' = schema /\ read_off' = 0 /\ buf' = reset(StaticSize)
    BY <1>5 DEF Parse
  <2>2. IsBuffer(buf)' /\ (buf.size = StaticSize)'
    BY <2>1, ResetBuffer
  <2>3. (\E R : input \in Seq(R))'
    BY <1>5, <2>1
  <2>4. Len(schema) \in Nat
    BY <1>5
  <2>5. (read_off \in 0 .. Len(input))'
    BY <2>1, <2>4
  <2>6. QED
    BY <2>2, <2>3, <2>5 DEF BufferInv
<1>6. CASE ParseFirst \/ ParseAgain
  BY <1>5, <1>6, SchemasAreSequences DEF ParseFirst, ParseAgain, IInv
<1>7. CASE GetNextSymbol
  <2>1. /\ buf' = read_if_safe /\ input' = input
        /\ read_off' = IF will_read THEN unparsed_string_pos + read_count ELSE read_off
    BY <1>7 DEF GetNextSymbol
  <2>2. IsBuffer(buf') /\ buf'.size = buf.size
    BY <1>3, <2>1, BufferMethods DEF read_if_safe
  <2>3. PICK from \in 0 .. Len(input) : from = unparsed_string_pos
    BY <1>3 DEF unparsed_string_pos
  <2>4. PICK half \in Nat : half = Half(buf)
    <3>1. StaticSize \div 2 \in Nat
      BY SizeAssumption
    <3>2. QED
      BY <1>3, <3>1 DEF Half
  <2>5. read_count = IF Len(input) - from < half THEN Len(input) - from ELSE half
    BY <2>3, <2>4 DEF read_count
  <2>6. read_count \in Nat /\ from + read_count <= Len(input)
    BY <1>3, <2>3, <2>4, <2>5
  <2>7. read_off' \in 0 .. Len(input)
    BY <1>3, <2>1, <2>3, <2>6
  <2>8. (read_off \in 0 .. Len(input))' /\ (\E R : input \in Seq(R))'
    BY <1>2, <2>1, <2>7
  <2>9. IsBuffer(buf)' /\ (buf.size = StaticSize)'
    BY <1>3, <2>2
  <2>10. QED
    BY <2>8, <2>9 DEF BufferInv
<1>8. CASE ScanChar
  BY <1>3, <1>4, <1>8, BufferMethods DEF ScanChar
<1>9. CASE ScanMatch
  BY <1>3, <1>4, <1>9, BufferMethods DEF ScanMatch
<1>10. CASE ScanEnd
  BY <1>3, <1>4, <1>10, BufferMethods DEF ScanEnd
<1>11. CASE Reduce
  <2>1. /\ input' = input /\ read_off' = read_off
        /\ buf' = IF g.prods[first_action[2]].rule = None THEN buf
                  ELSE set_consumed_pos(buf, consumed_by(first_action[2]))
    BY <1>11 DEF Reduce
  <2>2. IsBuffer(buf') /\ buf'.size = buf.size
    BY <1>3, <2>1, BufferMethods
  <2>3. QED
    BY <1>4, <2>1, <2>2
<1>12. CASE Generate \/ ScanOutOfBounds \/ Shift \/ AcceptInput \/ RejectToken \/ ReportError
  BY <1>3, <1>4, <1>12 DEF Generate, ScanOutOfBounds, Shift, AcceptInput, RejectToken, ReportError
<1>13. CASE UnwindNonTerminal \/ UnwindToken \/ UnwindEnd \/ DrainLine \/ ThrowError
  BY <1>3, <1>4, <1>13 DEF UnwindNonTerminal, UnwindToken, UnwindEnd, DrainLine, ThrowError
<1>14. QED
  BY <1>6, <1>7, <1>8, <1>9, <1>10, <1>11, <1>12, <1>13 DEF Next, Step

-----------------------------------------------------------------------------
(***************************************************************************)
(* Shifts, reductions and the acceptance.                                  *)
(***************************************************************************)
\* The action of the item set on the top of the stack.
TopAction(K) ==
  \E x \in Range(tok.types) \cap DOMAIN actions[K] :
    /\ first_action = actions[K][x]
    /\ IsShift(g, K, x, first_action) \/ IsReduce(g, K, first_action) \/ IsAccept(g, K, first_action)

LEMMA AtTop ==
  ASSUME IInv, pc = "advance", first_action # Error
  PROVE  \E N : /\ IsForest(g, N) /\ Stacked(g, actions, states, matches, N)
                /\ IsTable(g, actions) /\ IsGrammar(g)
                /\ Last(states) = states[Len(states)] /\ Last(states) \in DOMAIN actions
                /\ TopAction(Last(states))
<1>1. PICK N : IsForest(g, N) /\ Stacked(g, actions, states, matches, N)
  BY DEF IInv, StackInv, Parsing
<1>2. IsTable(g, actions) /\ IsGrammar(g)
  BY GrammarsAreGrammars DEF IInv, TableInv
<1>3. PICK h \in Nat : Len(states) = h + 1 /\ states \in [1 .. h + 1 -> DOMAIN actions]
  BY <1>1, StackOf
<1>4. PICK K : K = Last(states)
  OBVIOUS
<1>5. K = states[Len(states)] /\ K \in DOMAIN actions
  BY <1>3, <1>4 DEF Last
<1>6. \E x \in Range(tok.types) \cap DOMAIN actions[K] : first_action = actions[K][x]
  BY <1>4, FirstActionIs DEF IInv, TokenInv
<1>7. TopAction(K)
  BY <1>2, <1>5, <1>6 DEF TopAction, IsTable
<1>8. QED
  BY <1>1, <1>2, <1>4, <1>5, <1>7

LEMMA IsNotToken ==
  ASSUME NEW p, NEW kids
  PROVE  LET m == MatchedNonTerminal(p, kids) IN
         ~IsToken(m) /\ m.p = p /\ m.kids = kids
BY DEF MatchedNonTerminal, IsToken

\* A reduction by production p with the symbols of its body on the stack.
Fits(p, n, kept, low, kids, N) ==
  /\ p \in DOMAIN g.prods /\ n \in Nat /\ n = Len(g.prods[p].body) /\ n <= Len(matches)
  /\ IsForest(g, N)
  /\ Stacked(g, actions, kept, low, N)
  /\ Last(kept) = kept[Len(kept)] /\ Last(kept) \in DOMAIN actions
  /\ g.prods[p].head \in DOMAIN actions[Last(kept)]
  /\ IsShift(g, Last(kept), g.prods[p].head, actions[Last(kept)][g.prods[p].head])
  /\ kids \in Seq(N) /\ Len(kids) = n
  /\ \A i \in 1 .. n : g.prods[p].body[i] \in StandsFor(g, kids[i])

LEMMA ReduceFits ==
  ASSUME IInv, pc = "advance", first_action[1] = "reduce",
         NEW p, p = first_action[2], NEW n, n = Len(g.prods[p].body)
  PROVE  \E N : Fits(p, n, SubSeq(states, 1, Len(states) - n),
                     SubSeq(matches, 1, Len(matches) - n), popped(n), N)
<1>1. first_action # Error
  BY DEF Error
<1>2. PICK N : /\ IsForest(g, N) /\ Stacked(g, actions, states, matches, N)
               /\ IsTable(g, actions) /\ IsGrammar(g)
               /\ Last(states) = states[Len(states)] /\ Last(states) \in DOMAIN actions
               /\ TopAction(Last(states))
  BY <1>1, AtTop
<1>3. PICK K : K = states[Len(states)]
  OBVIOUS
<1>4. IsReduce(g, K, first_action)
  <2>1. \A x : ~IsShift(g, K, x, first_action)
    BY DEF IsShift
  <2>2. ~IsAccept(g, K, first_action)
    BY DEF IsAccept, Accept
  <2>3. QED
    BY <1>2, <1>3, <2>1, <2>2 DEF TopAction
<1>5. /\ p \in DOMAIN g.prods /\ p # m_root_production_id
      /\ <<p, n, NullSymbol>> \in lr0_closure(g, states[Len(states)])
  BY <1>3, <1>4 DEF IsReduce
<1>6. PICK m \in Nat : m = n
  BY <1>2, <1>5 DEF IsGrammar
<1>7. PICK h \in Nat : Len(matches) = h /\ Len(states) = h + 1 /\ matches \in Seq(N)
  BY <1>2, StackOf DEF Stacked
<1>8. /\ m < Len(states)
      /\ <<p, 0, NullSymbol>> \in lr0_closure(g, states[Len(states) - m])
      /\ \A i \in 1 .. m : g.prods[p].body[i] \in StandsFor(g, matches[(Len(matches) - m) + i])
  <2>1. <<p, m, NullSymbol>> \in lr0_closure(g, states[Len(states)])
    BY <1>5, <1>6
  <2>2. QED
    BY <1>2, <2>1, BodyOnStack
<1>9. PICK l \in Nat : l = h - m /\ l + 1 = (h + 1) - m /\ m <= h /\ l <= h /\ h - l = m
  <2>1. m < h + 1
    BY <1>7, <1>8
  <2>2. h - m \in Nat /\ m <= h /\ h - m <= h /\ h - (h - m) = m
    BY <2>1
  <2>3. QED
    BY <2>2
<1>10. PICK kept : kept = SubSeq(states, 1, Len(states) - m)
  OBVIOUS
<1>11. PICK low : low = SubSeq(matches, 1, Len(matches) - m)
  OBVIOUS
<1>12. /\ Stacked(g, actions, kept, low, N) /\ Len(kept) = l + 1
       /\ kept[l + 1] = states[l + 1]
  <2>1. /\ Stacked(g, actions, kept, low, N) /\ Len(kept) = Len(states) - m
        /\ kept[Len(states) - m] = states[Len(states) - m]
    BY <1>2, <1>8, <1>10, <1>11, StackedPop
  <2>2. Len(states) - m = l + 1
    BY <1>7, <1>9
  <2>3. QED
    BY <2>1, <2>2
<1>13. Last(kept) = kept[Len(kept)] /\ Last(kept) \in DOMAIN actions /\ Last(kept) = states[l + 1]
  <2>1. kept \in Seq(DOMAIN actions)
    BY <1>12 DEF Stacked
  <2>2. l + 1 \in 1 .. Len(kept)
    BY <1>12
  <2>3. Last(kept) = kept[Len(kept)]
    BY DEF Last
  <2>4. kept[l + 1] \in DOMAIN actions
    BY <2>1, <2>2
  <2>5. QED
    BY <1>12, <2>3, <2>4
<1>14. /\ g.prods[p].head \in DOMAIN actions[Last(kept)]
       /\ IsShift(g, Last(kept), g.prods[p].head, actions[Last(kept)][g.prods[p].head])
  <2>1. <<p, 0, NullSymbol>> \in lr0_closure(g, Last(kept))
    BY <1>7, <1>8, <1>9, <1>13
  <2>2. QED
    BY <1>2, <1>5, <1>13, <2>1, HeadIsNext
<1>15. PICK kids : kids = SubSeq(matches, l + 1, h)
  OBVIOUS
<1>16. kids \in Seq(N) /\ Len(kids) = m /\ \A i \in 1 .. m : kids[i] = matches[l + i]
  <2>1. \A i \in l + 1 .. h : matches[i] \in N
    BY <1>7
  <2>2. /\ kids \in Seq(N)
        /\ Len(kids) = IF l + 1 <= h THEN (h - (l + 1)) + 1 ELSE 0
        /\ \A i \in 1 .. (h - (l + 1)) + 1 : kids[i] = matches[((l + 1) + i) - 1]
    BY <1>15, <2>1, SubSeqProperties
  <2>3. (h - (l + 1)) + 1 = m /\ (l + 1 <= h \/ m = 0)
    BY <1>9
  <2>4. \A i \in 1 .. m : ((l + 1) + i) - 1 = l + i
    BY <1>9
  <2>5. QED
    BY <2>2, <2>3, <2>4
<1>17. popped(n) = kids
  <2>1. (Len(matches) - n) + 1 = l + 1
    BY <1>6, <1>7, <1>9
  <2>2. QED
    BY <1>7, <1>15, <2>1 DEF popped
<1>18. \A i \in 1 .. m : g.prods[p].body[i] \in StandsFor(g, kids[i])
  BY <1>7, <1>8, <1>9, <1>16
<1>19. Fits(p, m, kept, low, kids, N)
  <2>1. m = Len(g.prods[p].body) /\ m <= Len(matches)
    BY <1>6, <1>7, <1>9
  <2>2. QED
    BY <1>2, <1>5, <1>12, <1>13, <1>14, <1>16, <1>18, <2>1 DEF Fits
<1>20. QED
  BY <1>6, <1>10, <1>11, <1>17, <1>19

LEMMA ShiftKeepsStack ==
  ASSUME IInv, Shift
  PROVE  StackInv'
<1>1. /\ pc = "advance" /\ first_action[1] = "shift" /\ g' = g /\ actions' = actions
      /\ states' = Append(states, first_action[2]) /\ matches' = Append(matches, tok)
  BY DEF Shift, tables
<1>2. first_action # Error
  BY <1>1 DEF Error
<1>3. PICK N : /\ IsForest(g, N) /\ Stacked(g, actions, states, matches, N)
               /\ IsTable(g, actions) /\ IsGrammar(g)
               /\ Last(states) = states[Len(states)] /\ Last(states) \in DOMAIN actions
               /\ TopAction(Last(states))
  BY <1>1, <1>2, AtTop
<1>4. PICK K : K = states[Len(states)]
  OBVIOUS
<1>5. PICK x \in Range(tok.types) \cap DOMAIN actions[K] :
             /\ first_action = actions[K][x]
             /\ IsShift(g, K, x, first_action) \/ IsReduce(g, K, first_action) \/ IsAccept(g, K, first_action)
  BY <1>3, <1>4 DEF TopAction
<1>6. IsShift(g, K, x, actions[K][x])
  <2>1. ~IsReduce(g, K, first_action)
    <3>1. \A p : <<"reduce", p>>[1] # "shift"
      OBVIOUS
    <3>2. QED
      BY <1>1, <3>1 DEF IsReduce
  <2>2. ~IsAccept(g, K, first_action)
    BY <1>1 DEF IsAccept, Accept
  <2>3. QED
    BY <1>5, <2>1, <2>2
<1>7. IsToken(tok)
  BY DEF IInv, TokenInv
<1>8. PICK P : P = N \cup {tok}
  OBVIOUS
<1>9. IsForest(g, P)
  BY <1>3, <1>7, <1>8, ForestGrows DEF IsNode
<1>10. Stacked(g, actions, states, matches, P)
  BY <1>3, <1>8, StackedIn
<1>11. x \in StandsFor(g, tok)
  BY <1>5, <1>7 DEF StandsFor
<1>12. Stacked(g, actions, Append(states, actions[K][x][2]), Append(matches, tok), P)
  BY <1>3, <1>4, <1>5, <1>6, <1>8, <1>10, <1>11, StackedShift
<1>13. IsForest(g', P) /\ Stacked(g', actions', states', matches', P)
  BY <1>1, <1>5, <1>9, <1>12
<1>14. QED
  BY <1>13 DEF StackInv

LEMMA ReduceKeepsStack ==
  ASSUME IInv, Reduce
  PROVE  StackInv'
<1>1. PICK p : p = first_action[2]
  OBVIOUS
<1>2. PICK n : n = Len(g.prods[p].body)
  OBVIOUS
<1>3. PICK kept : kept = SubSeq(states, 1, Len(states) - n)
  OBVIOUS
<1>4. PICK low : low = SubSeq(matches, 1, Len(matches) - n)
  OBVIOUS
<1>5. PICK kids : kids = popped(n)
  OBVIOUS
<1>6. PICK node : node = MatchedNonTerminal(p, kids)
  OBVIOUS
<1>7. /\ pc = "advance" /\ first_action[1] = "reduce" /\ g' = g /\ actions' = actions
      /\ states' = Append(kept, m_actions(actions, Last(kept), g.prods[p].head)[2])
      /\ matches' = Append(low, node)
  BY <1>1, <1>2, <1>3, <1>4, <1>5, <1>6 DEF Reduce, tables
<1>8. PICK N : Fits(p, n, kept, low, kids, N)
  BY <1>1, <1>2, <1>3, <1>4, <1>5, <1>7, ReduceFits
<1>9. PICK P : P = N \cup {node}
  OBVIOUS
<1>10. ~IsToken(node) /\ node.p = p /\ node.kids = kids
  BY <1>6, IsNotToken
<1>11. IsNode(g, N, node)
  BY <1>8, <1>10 DEF Fits, IsNode
<1>12. IsForest(g, P)
  BY <1>8, <1>9, <1>11, ForestGrows DEF Fits
<1>13. PICK head : head = g.prods[p].head
  OBVIOUS
<1>14. PICK K : K = Last(kept)
  OBVIOUS
<1>15. head \in StandsFor(g, node)
  BY <1>10, <1>13 DEF StandsFor
<1>16. Stacked(g, actions, kept, low, P)
  BY <1>8, <1>9, StackedIn DEF Fits
<1>17. /\ K = kept[Len(kept)] /\ head \in DOMAIN actions[K] /\ IsShift(g, K, head, actions[K][head])
  BY <1>8, <1>13, <1>14 DEF Fits
<1>18. m_actions(actions, K, head) = actions[K][head]
  BY <1>17 DEF m_actions
<1>19. IsTable(g, actions) /\ IsGrammar(g)
  BY <1>7, GrammarsAreGrammars DEF IInv, TableInv
<1>20. Stacked(g, actions, Append(kept, actions[K][head][2]), Append(low, node), P)
  BY <1>9, <1>15, <1>16, <1>17, <1>19, StackedShift
<1>21. IsForest(g', P) /\ Stacked(g', actions', states', matches', P)
  BY <1>7, <1>12, <1>13, <1>14, <1>18, <1>20
<1>22. QED
  BY <1>21 DEF StackInv

LEMMA AcceptEmpties ==
  ASSUME IInv, AcceptInput
  PROVE  AcceptedIsTree'
<1>1. /\ pc = "advance" /\ first_action = Accept /\ g' = g
      /\ parsed' = Last(matches) /\ matches' = Front(matches)
  BY DEF AcceptInput, tables
<1>2. first_action # Error
  BY <1>1 DEF Accept, Error
<1>3. PICK N : /\ IsForest(g, N) /\ Stacked(g, actions, states, matches, N)
               /\ IsTable(g, actions) /\ IsGrammar(g)
               /\ Last(states) = states[Len(states)] /\ Last(states) \in DOMAIN actions
               /\ TopAction(Last(states))
  BY <1>1, <1>2, AtTop
<1>4. PICK K : K = states[Len(states)]
  OBVIOUS
<1>5. IsAccept(g, K, first_action)
  <2>1. \A x : ~IsShift(g, K, x, first_action)
    <3>1. Accept[1] # "shift"
      BY DEF Accept
    <3>2. \A x : <<"shift", go_to(g, K, x)>>[1] = "shift"
      OBVIOUS
    <3>3. QED
      BY <1>1, <3>1, <3>2 DEF IsShift
  <2>2. ~IsReduce(g, K, first_action)
    <3>1. Accept[1] # "reduce"
      BY DEF Accept
    <3>2. \A p : <<"reduce", p>>[1] = "reduce"
      OBVIOUS
    <3>3. QED
      BY <1>1, <3>1, <3>2 DEF IsReduce
  <2>3. QED
    BY <1>3, <1>4, <2>1, <2>2 DEF TopAction
<1>6. Len(matches) = 1 /\ g.prods[1].head \in StandsFor(g, matches[1])
  BY <1>3, <1>4, <1>5, RootOnStack DEF IsAccept
<1>7. matches \in Seq(N) /\ matches[1] \in N
  <2>1. matches \in Seq(N)
    BY <1>3 DEF Stacked
  <2>2. 1 \in 1 .. Len(matches)
    BY <1>6
  <2>3. QED
    BY <2>1, <2>2
<1>8. Last(matches) = matches[1]
  BY <1>6 DEF Last
<1>9. Front(matches) = <<>>
  BY <1>6, <1>7 DEF Front
<1>10. g'.prods[1].head \in StandsFor(g', parsed')
  BY <1>1, <1>6, <1>8
<1>11. SymbolsOf(parsed)' = StandsFor(g', parsed')
  BY DEF SymbolsOf, StandsFor
<1>12. parsed' \in N /\ IsForest(g', N)
  BY <1>1, <1>3, <1>7, <1>8
<1>13. QED
  BY <1>1, <1>9, <1>10, <1>11, <1>12 DEF AcceptedIsTree

LEMMA StackKept ==
  ASSUME IInv, Next
  PROVE  StackInv'
<1>1. ControlInv /\ StackInv /\ TableInv
  BY DEF IInv
\* Steps that leave the stack alone and do not enter the loop.
<1>2. ASSUME g' = g, actions' = actions, states' = states, matches' = matches, Parsing' => Parsing
      PROVE  StackInv'
  <2>1. SUFFICES ASSUME Parsing' PROVE \E N : IsForest(g', N) /\ Stacked(g', actions', states', matches', N)
    BY DEF StackInv
  <2>2. PICK N : IsForest(g, N) /\ Stacked(g, actions, states, matches, N)
    BY <1>1, <1>2, <2>1 DEF StackInv
  <2>3. QED
    BY <1>2, <2>2
<1>3. ASSUME NEW schema, Parse(schema), pc \notin {"new", "conflict"} PROVE StackInv'
  <2>1. g' = g /\ actions' = actions /\ states' = <<root_kernel>> /\ matches' = <<>>
    BY <1>3 DEF Parse, tables
  <2>2. IsTable(g, actions) /\ IsGrammar(g)
    BY <1>1, <1>3, GrammarsAreGrammars DEF TableInv
  <2>3. root_kernel \in DOMAIN actions
    BY <2>2, Lr0Kernels DEF IsTable
  <2>4. IsForest(g, {})
    BY DEF IsForest
  <2>5. Stacked(g, actions, <<root_kernel>>, <<>>, {})
    <3>1. <<root_kernel>> \in Seq(DOMAIN actions) /\ <<root_kernel>>[1] = root_kernel
      BY <2>3
    <3>2. <<>> \in Seq({}) /\ Len(<<>>) = 0 /\ Len(<<root_kernel>>) = 0 + 1
      OBVIOUS
    <3>3. \A i \in 1 .. 0 : FALSE
      OBVIOUS
    <3>4. QED
      BY <3>1, <3>2, <3>3 DEF Stacked
  <2>6. QED
    BY <2>1, <2>4, <2>5 DEF StackInv
<1>4. CASE Generate
  BY <1>4 DEF Generate, StackInv, Parsing
<1>5. CASE ParseFirst \/ ParseAgain
  <2>1. pc \notin {"new", "conflict"} /\ \E schema : Parse(schema)
    BY <1>5 DEF ParseFirst, ParseAgain, ended
  <2>2. QED
    BY <1>3, <2>1
<1>6. CASE GetNextSymbol
  BY <1>2, <1>6 DEF GetNextSymbol, Parsing, tables
<1>7. CASE ScanChar
  BY <1>2, <1>7 DEF ScanChar, at_character, Parsing, tables, stacks
<1>8. CASE ScanMatch
  BY <1>1, <1>2, <1>8 DEF ScanMatch, at_character, Parsing, ControlInv, tables, stacks
<1>9. CASE ScanEnd
  BY <1>1, <1>2, <1>9 DEF ScanEnd, Parsing, ControlInv, tables, stacks
<1>10. CASE ScanOutOfBounds
  BY <1>10 DEF ScanOutOfBounds, StackInv, Parsing
<1>11. CASE Shift
  BY <1>11, ShiftKeepsStack
<1>12. CASE Reduce
  BY <1>12, ReduceKeepsStack
<1>13. CASE AcceptInput \/ RejectToken \/ ReportError \/ ThrowError
  BY <1>13 DEF AcceptInput, RejectToken, ReportError, ThrowError, StackInv, Parsing
<1>14. CASE UnwindNonTerminal \/ UnwindToken \/ UnwindEnd
  BY <1>14 DEF UnwindNonTerminal, UnwindToken, UnwindEnd, StackInv, Parsing
<1>15. CASE DrainLine
  <2>1. pc' = "scan" /\ back' = "drain"
    BY <1>1, <1>15 DEF DrainLine, ControlInv
  <2>2. QED
    BY <2>1 DEF StackInv, Parsing
<1>16. QED
  BY <1>4, <1>5, <1>6, <1>7, <1>8, <1>9, <1>10, <1>11, <1>12, <1>13, <1>14, <1>15 DEF Next, Step

LEMMA AcceptedKept ==
  ASSUME IInv, Next
  PROVE  AcceptedIsTree'
<1>1. CASE AcceptInput
  BY <1>1, AcceptEmpties
<1>2. CASE ~AcceptInput
  <2>1. pc' # "accepted"
    BY <1>2 DEF IInv, ControlInv, Next, Generate, ParseFirst, ParseAgain, Parse, Step,
                GetNextSymbol, ScanChar, at_character, ScanMatch, ScanEnd, ScanOutOfBounds, Shift,
                Reduce, RejectToken, ReportError, UnwindNonTerminal, UnwindToken, UnwindEnd,
                DrainLine, ThrowError
  <2>2. QED
    BY <2>1 DEF AcceptedIsTree
<1>3. QED
  BY <1>1, <1>2

-----------------------------------------------------------------------------
(***************************************************************************)
(* The invariant holds.                                                    *)
(***************************************************************************)
LEMMA StutterKeeps ==
  ASSUME IInv, UNCHANGED vars
  PROVE  IInv'
<1>1. /\ g' = g /\ actions' = actions /\ input' = input /\ read_off' = read_off /\ buf' = buf
      /\ states' = states /\ matches' = matches /\ next_token' = next_token /\ tok' = tok
      /\ back' = back /\ parsed' = parsed /\ pc' = pc
  BY DEF vars, tables, stacks
<1>2. ControlInv' /\ TableInv' /\ TokenInv' /\ BufferInv'
  BY <1>1 DEF IInv, ControlInv, TableInv, TokenInv, BufferInv
<1>3. StackInv'
  BY <1>1 DEF IInv, StackInv, Parsing
<1>4. AcceptedIsTree'
  BY <1>1 DEF IInv, AcceptedIsTree, SymbolsOf
<1>5. QED
  BY <1>2, <1>3, <1>4 DEF IInv

LEMMA NextKeeps ==
  ASSUME IInv, [Next]_vars
  PROVE  IInv'
<1>1. CASE Next
  <2>1. ControlInv' /\ TableInv' /\ TokenInv' /\ BufferInv' /\ StackInv' /\ AcceptedIsTree'
    BY <1>1, ControlKept, TablesKept, TokensKept, BufferKept, StackKept, AcceptedKept
  <2>2. QED
    BY <2>1 DEF IInv
<1>2. CASE UNCHANGED vars
  BY <1>2, StutterKeeps
<1>3. QED
  BY <1>1, <1>2

THEOREM Invariance == Spec => []IInv
<1>1. Init => IInv
  BY InitSatisfies
<1>2. IInv /\ [Next]_vars => IInv'
  BY NextKeeps
<1>3. QED
  BY <1>1, <1>2, PTL DEF Spec

\* The members of the parser have their types, and at the head of the loop of parse()
\* there is one item set more than there are matches, each of them in the table.
THEOREM TypeCorrect == Spec => []TypeOK
<1>1. ASSUME IInv PROVE TypeOK
  <2>1. pc \in Pcs /\ IsBuffer(buf) /\ read_off \in 0 .. Len(input)
    BY <1>1 DEF IInv, ControlInv, BufferInv
  <2>2. ASSUME pc = "parse"
        PROVE  Len(states) = Len(matches) + 1 /\ Range(states) \subseteq DOMAIN actions
    <3>1. PICK N : Stacked(g, actions, states, matches, N)
      BY <1>1, <2>2 DEF IInv, StackInv, Parsing
    <3>2. PICK h \in Nat : /\ h = Len(matches) /\ Len(states) = h + 1
                           /\ states \in [1 .. h + 1 -> DOMAIN actions]
      BY <3>1, StackOf
    <3>3. QED
      BY <3>2 DEF Range
  <2>3. QED
    BY <2>1, <2>2 DEF TypeOK
<1>2. QED
  BY <1>1, Invariance, PTL

\* When parse_advance reduces, the symbols of the production's body are on the top of
\* the stacks, so that no pop finds them empty and the semantic rule gets what its
\* production names; and the item set below has an item set as its action for the head,
\* as std::get<ItemSet*> requires.
ReductionsFit ==
  (pc = "advance" /\ first_action[1] = "reduce") =>
    LET p    == first_action[2]
        n    == Len(g.prods[p].body)
        kept == SubSeq(states, 1, Len(states) - n)
        next == m_actions(actions, Last(kept), g.prods[p].head)
    IN /\ p \in DOMAIN g.prods
       /\ n <= Len(matches) /\ n < Len(states)
       /\ \A i \in 1 .. n : g.prods[p].body[i] \in SymbolsOf(popped(n)[i])
       /\ next[1] = "shift" /\ next[2] \in DOMAIN actions

\* Every reduction of parse_advance finds what it takes for granted.
THEOREM ReductionsAreRight == Spec => []ReductionsFit
<1>1. ASSUME IInv PROVE ReductionsFit
  <2>1. SUFFICES ASSUME pc = "advance", first_action[1] = "reduce" PROVE ReductionsFit
    BY DEF ReductionsFit
  <2>2. PICK p : p = first_action[2]
    OBVIOUS
  <2>3. PICK n : n = Len(g.prods[p].body)
    OBVIOUS
  <2>4. PICK kept : kept = SubSeq(states, 1, Len(states) - n)
    OBVIOUS
  <2>5. PICK N : Fits(p, n, kept, SubSeq(matches, 1, Len(matches) - n), popped(n), N)
    BY <1>1, <2>1, <2>2, <2>3, <2>4, ReduceFits
  <2>6. PICK K : K = Last(kept)
    OBVIOUS
  <2>7. PICK head : head = g.prods[p].head
    OBVIOUS
  <2>8. /\ K \in DOMAIN actions /\ head \in DOMAIN actions[K]
        /\ IsShift(g, K, head, actions[K][head])
    BY <2>5, <2>6, <2>7 DEF Fits
  <2>9. IsTable(g, actions) /\ IsGrammar(g)
    BY <1>1, <2>1, GrammarsAreGrammars DEF IInv, TableInv
  <2>10. m_actions(actions, K, head) = actions[K][head]
    BY <2>8 DEF m_actions
  <2>11. actions[K][head][1] = "shift" /\ actions[K][head][2] \in DOMAIN actions
    BY <2>8, <2>9, Lr0Kernels DEF IsShift, IsTable
  <2>12. \A i \in 1 .. n : g.prods[p].body[i] \in SymbolsOf(popped(n)[i])
    BY <2>5, SymbolsAre DEF Fits
  <2>13. p \in DOMAIN g.prods /\ n <= Len(matches) /\ n < Len(states)
    <3>1. PICK h \in Nat : Len(matches) = h /\ Len(states) = h + 1
      BY <1>1, <2>1, StackOf DEF IInv, StackInv, Parsing
    <3>2. PICK m \in Nat : m = n /\ m <= Len(matches) /\ p \in DOMAIN g.prods
      BY <2>5 DEF Fits
    <3>3. QED
      BY <3>1, <3>2
  <2>14. QED
    BY <2>2, <2>3, <2>4, <2>6, <2>7, <2>10, <2>11, <2>12, <2>13 DEF ReductionsFit
<1>2. QED
  BY <1>1, Invariance, PTL

\* What parse() returns is a parse tree for the start symbol of the grammar, and its
\* assertion that the stack of matches is empty holds.
THEOREM AcceptedIsATree == Spec => []AcceptedIsTree
<1>1. IInv => AcceptedIsTree
  BY DEF IInv
<1>2. QED
  BY <1>1, Invariance, PTL
=============================================================================
