----------------------------- MODULE Induction -----------------------------
(***************************************************************************)
(* Induction and recursion for the other proofs.  A predicate is given by  *)
(* the set of those of which it holds and a step of a recursion by a       *)
(* function, so that no lemma has an operator for a parameter.             *)
(***************************************************************************)
EXTENDS Integers, FiniteSets, FiniteSetTheorems, TLAPS

\* A set of naturals that has 0 and the successor of each of its members is Nat:
\* otherwise y |-> y - 1 would be an injection of the members of 0 .. x that it lacks
\* into themselves without x in its range.
LEMMA SetInduction ==
  ASSUME NEW S, 0 \in S, \A n \in Nat : n \in S => n + 1 \in S
  PROVE  Nat \subseteq S
<1>1. SUFFICES ASSUME NEW x \in Nat, x \notin S PROVE FALSE
  OBVIOUS
<1>2. PICK D : D = {y \in 0 .. x : y \notin S}
  OBVIOUS
<1>3. PICK f : f = [y \in D |-> y - 1]
  OBVIOUS
<1>4. \A y \in D : y \in Nat /\ y <= x /\ y # 0 /\ y - 1 \in D
  BY <1>1, <1>2
<1>5. f \in Injection(D, D)
  BY <1>3, <1>4 DEF Injection, IsInjective
<1>6. IsFiniteSet(D)
  <2>1. IsFiniteSet(0 .. x)
    BY <1>1, FS_Interval
  <2>2. D \in SUBSET (0 .. x)
    BY <1>2
  <2>3. QED
    BY <2>1, <2>2, FS_Subset
<1>7. f \in Surjection(D, D)
  BY <1>5, <1>6, FS_Injection
<1>8. x \in D
  BY <1>1, <1>2
<1>9. PICK y \in D : f[y] = x
  BY <1>7, <1>8 DEF Surjection
<1>10. QED
  BY <1>3, <1>4, <1>9

\* G gives the value at a member of D of a function from D to R, for each function that
\* is right at the members of lower rank.
Recurses(D, R, rank, n, G) ==
  /\ R # {}
  /\ n \in Nat
  /\ rank \in [D -> 0 .. n]
  /\ G \in [D -> [[D -> R] -> R]]
  /\ \A x \in D : \A f, g \in [D -> R] :
       (\A y \in D : rank[y] < rank[x] => f[y] = g[y]) => G[x][f] = G[x][g]

\* Then there is a function that is right everywhere.
LEMMA Recursion ==
  ASSUME NEW D, NEW R, NEW rank, NEW n, NEW G, Recurses(D, R, rank, n, G)
  PROVE  \E h \in [D -> R] : h = [x \in D |-> G[x][h]]
<1> USE DEF Recurses
<1> DEFINE Right(k, f) == \A x \in D : rank[x] < k => f[x] = G[x][f]
           S == {k \in Nat : \E f \in [D -> R] : Right(k, f)}
<1>1. 0 \in S
  <2>1. PICK r \in R : TRUE
    OBVIOUS
  <2>2. PICK f \in [D -> R] : f = [x \in D |-> r]
    OBVIOUS
  <2>3. QED
    OBVIOUS
<1>2. ASSUME NEW k \in Nat, k \in S PROVE k + 1 \in S
  <2>1. PICK f \in [D -> R] : Right(k, f)
    BY <1>2
  <2>2. PICK g : g = [x \in D |-> IF rank[x] < k THEN f[x] ELSE G[x][f]]
    OBVIOUS
  <2>3. g \in [D -> R]
    BY <2>2
  <2>4. ASSUME NEW x \in D, rank[x] < k + 1 PROVE g[x] = G[x][g]
    <3>1. \A y \in D : rank[y] < rank[x] => f[y] = g[y]
      BY <2>2, <2>4
    <3>2. G[x][f] = G[x][g]
      BY <2>3, <3>1
    <3>3. g[x] = G[x][f]
      BY <2>1, <2>2
    <3>4. QED
      BY <3>2, <3>3
  <2>5. QED
    BY <2>3, <2>4
<1>3. PICK h \in [D -> R] : Right(n + 1, h)
  BY <1>1, <1>2, SetInduction
<1>4. h = [x \in D |-> G[x][h]]
  BY <1>3
<1>5. QED
  BY <1>4

\* In particular a function that is given by its value at 0 and a step to each later one.
Iterates(f, n, a, step) == f = [i \in 0 .. n |-> IF i = 0 THEN a ELSE step[i][f[i - 1]]]

LEMMA Iteration ==
  ASSUME NEW R, NEW a \in R, NEW n \in Nat, NEW step \in [1 .. n -> [R -> R]]
  PROVE  \E f \in [0 .. n -> R] : Iterates(f, n, a, step)
<1>1. PICK D : D = 0 .. n
  OBVIOUS
<1>2. \A i \in D : i # 0 => i - 1 \in D /\ i \in 1 .. n
  BY <1>1
<1>3. PICK G : G = [i \in D |-> [f \in [D -> R] |-> IF i = 0 THEN a ELSE step[i][f[i - 1]]]]
  OBVIOUS
<1>4. PICK rank : rank = [i \in D |-> i]
  OBVIOUS
<1>5. rank \in [D -> 0 .. n]
  BY <1>1, <1>4
<1>6. G \in [D -> [[D -> R] -> R]]
  <2>1. \A i \in D : \A f \in [D -> R] : (IF i = 0 THEN a ELSE step[i][f[i - 1]]) \in R
    BY <1>2
  <2>2. QED
    BY <1>3, <2>1
<1>7. ASSUME NEW i \in D, NEW f \in [D -> R], NEW h \in [D -> R],
             \A j \in D : rank[j] < rank[i] => f[j] = h[j]
      PROVE  G[i][f] = G[i][h]
  <2>1. i # 0 => rank[i - 1] < rank[i]
    BY <1>1, <1>2, <1>4
  <2>2. i # 0 => f[i - 1] = h[i - 1]
    BY <1>2, <1>7, <2>1
  <2>3. QED
    BY <1>3, <2>2
<1>8. Recurses(D, R, rank, n, G)
  BY <1>5, <1>6, <1>7 DEF Recurses
<1>9. PICK f \in [D -> R] : f = [i \in D |-> G[i][f]]
  BY <1>8, Recursion
<1>10. \A i \in D : G[i][f] = IF i = 0 THEN a ELSE step[i][f[i - 1]]
  BY <1>3
<1>11. QED
  BY <1>1, <1>9, <1>10 DEF Iterates

-----------------------------------------------------------------------------
(***************************************************************************)
(* Loops that stop when they find nothing new, as that of get_intersect    *)
(* and the queues of generate() do.                                        *)
(***************************************************************************)

\* The members of S and what a step leads to from them.
Onward(step, S) == S \cup UNION {step[p] : p \in S}

\* What is reached from S in any number of steps.
Closed(P, step) == {C \in SUBSET P : Onward(step, C) = C}
Least(P, step, S) == {p \in P : \A C \in Closed(P, step) : S \subseteq C => p \in C}

LEMMA LeastOfClosed ==
  ASSUME NEW P, NEW step, NEW S \in Closed(P, step)
  PROVE  Least(P, step, S) = S
BY DEF Least, Closed

LEMMA LeastOnward ==
  ASSUME NEW P, NEW step, NEW S \in SUBSET P
  PROVE  Least(P, step, Onward(step, S)) = Least(P, step, S)
<1>1. \A C \in Closed(P, step) : S \subseteq C <=> Onward(step, S) \subseteq C
  <2>1. TAKE C \in Closed(P, step)
  <2>2. S \subseteq C => Onward(step, S) \subseteq Onward(step, C)
    BY DEF Onward
  <2>3. S \subseteq Onward(step, S)
    BY DEF Onward
  <2>4. QED
    BY <2>2, <2>3 DEF Closed
<1>2. QED
  BY <1>1 DEF Least

\* The loop, as a function of the pairs found so far, finds all that is reached.
Loops(visited, P, step) ==
  visited = [S \in SUBSET P |->
               IF Onward(step, S) = S THEN S ELSE visited[Onward(step, S)]]

LEMMA LoopsExist ==
  ASSUME NEW P, NEW step \in [P -> SUBSET P]
  PROVE  Loops([S \in SUBSET P |-> Least(P, step, S)], P, step)
<1>1. \A S \in SUBSET P : Onward(step, S) \in SUBSET P
  BY DEF Onward
<1>2. \A S \in SUBSET P : Onward(step, S) = S => S \in Closed(P, step)
  BY DEF Closed
<1>3. \A S \in SUBSET P :
        Least(P, step, S) = IF Onward(step, S) = S THEN S ELSE Least(P, step, Onward(step, S))
  BY <1>2, LeastOfClosed, LeastOnward
<1>4. QED
  BY <1>1, <1>3 DEF Loops

LEMMA LoopsFindAll ==
  ASSUME NEW P, IsFiniteSet(P), NEW step \in [P -> SUBSET P], NEW visited,
         Loops(visited, P, step), NEW S \in SUBSET P
  PROVE  visited[S] = Least(P, step, S)
<1> DEFINE N == {d \in Nat : \A T \in SUBSET P :
                   Cardinality(P) <= Cardinality(T) + d => visited[T] = Least(P, step, T)}
<1>1. Cardinality(P) \in Nat /\ \A T \in SUBSET P : Cardinality(T) \in Nat
  BY FS_CardinalityType, FS_Subset
<1>2. ASSUME NEW T \in SUBSET P, Onward(step, T) = T
      PROVE  visited[T] = Least(P, step, T)
  <2>1. visited[T] = T
    BY <1>2 DEF Loops
  <2>2. T \in Closed(P, step)
    BY <1>2 DEF Closed
  <2>3. QED
    BY <2>1, <2>2, LeastOfClosed
<1>3. ASSUME NEW T \in SUBSET P, Onward(step, T) # T
      PROVE  /\ Onward(step, T) \in SUBSET P
             /\ Cardinality(T) < Cardinality(Onward(step, T))
             /\ visited[T] = visited[Onward(step, T)]
             /\ Least(P, step, T) = Least(P, step, Onward(step, T))
  <2>1. Onward(step, T) \in SUBSET P /\ T \in SUBSET Onward(step, T)
    BY DEF Onward
  <2>2. IsFiniteSet(Onward(step, T))
    BY <2>1, FS_Subset
  <2>3. /\ Cardinality(T) <= Cardinality(Onward(step, T))
        /\ Cardinality(Onward(step, T)) = Cardinality(T) => Onward(step, T) = T
    BY <2>1, <2>2, FS_Subset
  <2>4. visited[T] = visited[Onward(step, T)]
    BY <1>3 DEF Loops
  <2>5. QED
    BY <1>1, <1>3, <2>1, <2>3, <2>4, LeastOnward
<1>4. 0 \in N
  <2>1. SUFFICES ASSUME NEW T \in SUBSET P, Cardinality(P) <= Cardinality(T) + 0
                 PROVE  visited[T] = Least(P, step, T)
    OBVIOUS
  <2>2. Onward(step, T) # T => Cardinality(Onward(step, T)) <= Cardinality(P)
    BY <1>3, FS_Subset
  <2>3. Onward(step, T) = T
    BY <1>1, <1>3, <2>1, <2>2
  <2>4. QED
    BY <1>2, <2>3
<1>5. ASSUME NEW d \in Nat, d \in N PROVE d + 1 \in N
  <2>1. SUFFICES ASSUME NEW T \in SUBSET P, Cardinality(P) <= Cardinality(T) + (d + 1)
                 PROVE  visited[T] = Least(P, step, T)
    OBVIOUS
  <2>2. CASE Onward(step, T) = T
    BY <1>2, <2>2
  <2>3. CASE Onward(step, T) # T
    <3>1. PICK U \in SUBSET P : U = Onward(step, T)
      BY <1>3, <2>3
    <3>2. Cardinality(P) <= Cardinality(U) + d
      BY <1>1, <1>3, <2>1, <2>3, <3>1
    <3>3. QED
      BY <1>3, <1>5, <2>3, <3>1, <3>2
  <2>4. QED
    BY <2>2, <2>3
<1>6. Cardinality(P) \in N
  <2> HIDE DEF N
  <2>1. QED
    BY <1>1, <1>4, <1>5, SetInduction
<1>7. Cardinality(P) <= Cardinality(S) + Cardinality(P)
  BY <1>1
<1>8. QED
  BY <1>6, <1>7

\* A loop of passes, each of which but the last one makes the state larger, ends.
Passes(f, D, pass, more) ==
  f = [d \in D |-> IF more[d] THEN f[pass[d]] ELSE pass[d]]

Grows(D, pass, more, size, n) ==
  /\ n \in Nat
  /\ size \in [D -> 0 .. n]
  /\ pass \in [D -> D]
  /\ \A d \in D : more[d] => size[d] < size[pass[d]]

LEMMA PassesExist ==
  ASSUME NEW D, D # {}, NEW pass, NEW more, NEW size, NEW n, Grows(D, pass, more, size, n)
  PROVE  \E f : Passes(f, D, pass, more)
<1> USE DEF Grows
<1>1. PICK rank : rank = [d \in D |-> n - size[d]]
  OBVIOUS
<1>2. PICK G : G = [d \in D |-> [f \in [D -> D] |-> IF more[d] THEN f[pass[d]] ELSE pass[d]]]
  OBVIOUS
<1>3. rank \in [D -> 0 .. n]
  <2>1. \A d \in D : size[d] \in 0 .. n /\ rank[d] = n - size[d]
    BY <1>1
  <2>2. \A d \in D : rank[d] \in 0 .. n
    BY <2>1
  <2>3. QED
    BY <1>1, <2>2
<1>4. G \in [D -> [[D -> D] -> D]]
  BY <1>2
<1>5. ASSUME NEW d \in D, NEW f \in [D -> D], NEW g \in [D -> D],
             \A e \in D : rank[e] < rank[d] => f[e] = g[e]
      PROVE  G[d][f] = G[d][g]
  <2>1. CASE more[d]
    <3>1. PICK e \in D : e = pass[d] /\ size[d] < size[e]
      BY <2>1
    <3>2. size[d] \in Int /\ size[e] \in Int
      OBVIOUS
    <3>3. rank[e] < rank[d]
      BY <1>1, <3>1, <3>2
    <3>4. QED
      BY <1>2, <1>5, <2>1, <3>1, <3>3
  <2>2. CASE ~more[d]
    BY <1>2, <2>2
  <2>3. QED
    BY <2>1, <2>2
<1>6. Recurses(D, D, rank, n, G)
  BY <1>3, <1>4, <1>5 DEF Recurses
<1>7. PICK f \in [D -> D] : f = [d \in D |-> G[d][f]]
  BY <1>6, Recursion
<1>8. Passes(f, D, pass, more)
  <2>1. \A d \in D : G[d][f] = IF more[d] THEN f[pass[d]] ELSE pass[d]
    BY <1>2, <1>7
  <2>2. QED
    BY <1>7, <2>1 DEF Passes
<1>9. QED
  BY <1>8

LEMMA PassesEnd ==
  ASSUME NEW D, NEW pass, NEW more, NEW size, NEW n, Grows(D, pass, more, size, n),
         NEW f, Passes(f, D, pass, more), NEW d \in D
  PROVE  f[d] \in D
<1> USE DEF Grows
<1> DEFINE S == {k \in Nat : \A e \in D : n <= size[e] + k => f[e] \in D}
<1>1. ASSUME NEW e \in D PROVE f[e] = IF more[e] THEN f[pass[e]] ELSE pass[e]
  BY DEF Passes
<1>2. 0 \in S
  <2>1. ASSUME NEW e \in D, n <= size[e] + 0 PROVE ~more[e]
    <3>1. size[e] \in 0 .. n /\ size[pass[e]] \in 0 .. n
      OBVIOUS
    <3>2. QED
      BY <2>1, <3>1
  <2>2. QED
    BY <1>1, <2>1
<1>3. ASSUME NEW k \in Nat, k \in S PROVE k + 1 \in S
  <2>1. ASSUME NEW e \in D, n <= size[e] + (k + 1) PROVE f[e] \in D
    <3>1. CASE more[e]
      <4>1. PICK c \in D : c = pass[e] /\ size[e] < size[c]
        BY <3>1
      <4>2. size[e] \in Int /\ size[c] \in Int
        OBVIOUS
      <4>3. n <= size[c] + k
        BY <2>1, <4>1, <4>2
      <4>4. QED
        BY <1>1, <1>3, <3>1, <4>1, <4>3
    <3>2. CASE ~more[e]
      BY <1>1, <3>2
    <3>3. QED
      BY <3>1, <3>2
  <2>2. QED
    BY <2>1
<1>4. n \in S
  <2> HIDE DEF S
  <2>1. QED
    BY <1>2, <1>3, SetInduction
<1>5. size[d] \in Nat
  OBVIOUS
<1>6. QED
  BY <1>4, <1>5

\* A set of naturals has a least member.
LEMMA LeastNatural ==
  ASSUME NEW S \in SUBSET Nat, NEW x \in S
  PROVE  \E y \in S : \A z \in S : y <= z
<1> DEFINE T == {k \in Nat : (\E w \in S : w <= k) => \E y \in S : \A z \in S : y <= z}
<1>1. 0 \in T
  OBVIOUS
<1>2. ASSUME NEW k \in Nat, k \in T PROVE k + 1 \in T
  <2>1. ASSUME NEW w \in S, w <= k + 1, ~ \E v \in S : v <= k
        PROVE  \A z \in S : w <= z
    BY <2>1
  <2>2. QED
    BY <1>2, <2>1
<1>3. x \in T
  <2> HIDE DEF T
  <2>1. QED
    BY <1>1, <1>2, SetInduction
<1>4. QED
  BY <1>3
=============================================================================
