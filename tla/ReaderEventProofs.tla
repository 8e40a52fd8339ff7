------------------------- MODULE ReaderEventProofs -------------------------
(***************************************************************************)
(* Proofs about the events that ReaderParser returns, as the application   *)
(* sees them: their text, their copies and where they end, which is at the *)
(* ends of lines that the reference in LogParser, which knows no buffer,   *)
(* says.  First lemmas about the operators of LogParser that are defined   *)
(* by recursion: the text of an event, its copy, and the automaton's runs. *)
(***************************************************************************)
EXTENDS ReaderParserProofs, Induction

-----------------------------------------------------------------------------
(***************************************************************************)
(* The concatenation of texts.                                             *)
(***************************************************************************)

\* f is the texts of s one behind the other, up to each of them.
Joins(f, s) ==
  f = [k \in 0 .. Len(s) |-> IF k = 0 THEN << >> ELSE f[k - 1] \o s[k]]

Texts(ts) == [k \in 1 .. Len(ts) |-> TokenText(ts[k])]

LEMMA JoinsExist ==
  ASSUME NEW s, Len(s) \in Nat
  PROVE  \E f : Joins(f, s)
<1> DEFINE Join(text, k) == text \o s[k]
<1> DEFINE Upto(f, m) ==
      /\ DOMAIN f = 0 .. m
      /\ f = [k \in 0 .. m |-> IF k = 0 THEN << >> ELSE Join(f[k - 1], k)]
<1> DEFINE S == {m \in Nat : \E f : Upto(f, m)}
<1> HIDE DEF Join
<1>1. 0 \in S
  <2>1. PICK f : f = [k \in 0 .. 0 |-> << >>]
    OBVIOUS
  <2>2. Upto(f, 0)
    BY <2>1
  <2>3. QED
    BY <2>2
<1>2. ASSUME NEW m \in Nat, m \in S PROVE m + 1 \in S
  <2>1. PICK f : Upto(f, m)
    BY <1>2
  <2>2. PICK g : g = [k \in 0 .. m + 1 |-> IF k <= m THEN f[k] ELSE Join(f[m], m + 1)]
    OBVIOUS
  <2>3. ASSUME NEW k \in 0 .. m + 1
        PROVE  g[k] = IF k = 0 THEN << >> ELSE Join(g[k - 1], k)
    BY <2>1, <2>2
  <2>4. Upto(g, m + 1)
    BY <2>2, <2>3
  <2>5. m + 1 \in Nat
    OBVIOUS
  <2> HIDE DEF Upto
  <2>6. QED
    BY <2>4, <2>5
<1>3. Nat \subseteq S
  <2> HIDE DEF S
  <2>1. QED
    BY <1>1, <1>2, SetInduction
<1>4. PICK f : Upto(f, Len(s))
  BY <1>3
<1>5. QED
  BY <1>4 DEF Joins, Join

LEMMA ConcatJoins ==
  ASSUME NEW ts, Len(ts) \in Nat
  PROVE  \E f : Joins(f, Texts(ts)) /\ Concat(ts) = f[Len(ts)]
<1>1. PICK f : Joins(f, Texts(ts))
  BY JoinsExist, Len(Texts(ts)) = Len(ts) DEF Texts
<1>2. QED
  BY <1>1 DEF Joins, Texts, Concat

\* The texts in their concatenation.
LEMMA JoinStep ==
  ASSUME NEW X, NEW s \in Seq(Seq(X)), NEW f, Joins(f, s)
  PROVE  /\ f[0] = << >>
         /\ \A k \in 1 .. Len(s) : f[k] = f[k - 1] \o s[k]
BY DEF Joins

LEMMA JoinAppends ==
  ASSUME NEW X, NEW a \in Seq(X), NEW b \in Seq(X), NEW c, c = a \o b
  PROVE  /\ c \in Seq(X)
         /\ Len(c) = Len(a) + Len(b)
         /\ \A i \in 1 .. Len(a) : c[i] = a[i]
         /\ \A i \in 1 .. Len(b) : c[Len(a) + i] = b[i]
OBVIOUS

\* s[k] is behind the texts before it in all concatenations from k on.
Inside(f, s, k, m) ==
  \A i \in 1 .. Len(s[k]) : f[m][Len(f[k - 1]) + i] = s[k][i]

LEMMA JoinedTexts ==
  ASSUME NEW X, NEW s \in Seq(Seq(X)), NEW f, Joins(f, s)
  PROVE  /\ \A k \in 0 .. Len(s) : f[k] \in Seq(X) /\ Len(f[k]) <= Len(f[Len(s)])
         /\ \A k \in 1 .. Len(s) : /\ Len(f[k]) = Len(f[k - 1]) + Len(s[k])
                                   /\ Inside(f, s, k, Len(s))
<1> DEFINE Good(m) == /\ \A k \in 0 .. m : f[k] \in Seq(X) /\ Len(f[k]) <= Len(f[m])
                      /\ \A k \in 1 .. m : /\ Len(f[k]) = Len(f[k - 1]) + Len(s[k])
                                           /\ Inside(f, s, k, m)
<1> DEFINE S == {m \in Nat : m <= Len(s) => Good(m)}
<1>0. Len(s) \in Nat
  OBVIOUS
<1>1. Good(0)
  <2>1. f[0] = << >>
    BY JoinStep
  <2>3. f[0] \in Seq(X) /\ Len(f[0]) \in Nat
    BY <2>1
  <2>2. QED
    BY <2>3
<1>2. ASSUME NEW m \in Nat, Good(m), m + 1 <= Len(s)
      PROVE  Good(m + 1)
  <2>2. /\ m \in 0 .. m /\ m + 1 \in 1 .. Len(s) /\ (m + 1) - 1 = m
    BY <1>0, <1>2
  <2>3. s[m + 1] \in Seq(X)
    BY <2>2
  <2>4. f[m + 1] = f[m] \o s[m + 1]
    BY <2>2, JoinStep
  <2>10. f[m] \in Seq(X)
    BY <2>2, <1>2
  <2>5. /\ f[m + 1] \in Seq(X)
        /\ Len(f[m + 1]) = Len(f[m]) + Len(s[m + 1])
        /\ \A i \in 1 .. Len(f[m]) : f[m + 1][i] = f[m][i]
        /\ \A i \in 1 .. Len(s[m + 1]) : f[m + 1][Len(f[m]) + i] = s[m + 1][i]
    <3>1. PICK a, b, c : a = f[m] /\ b = s[m + 1] /\ c = f[m + 1]
      OBVIOUS
    <3>2. a \in Seq(X) /\ b \in Seq(X) /\ c = a \o b
      BY <2>3, <2>4, <2>10, <3>1
    <3>3. /\ c \in Seq(X)
          /\ Len(c) = Len(a) + Len(b)
          /\ \A i \in 1 .. Len(a) : c[i] = a[i]
          /\ \A i \in 1 .. Len(b) : c[Len(a) + i] = b[i]
      BY <3>2, JoinAppends
    <3>4. QED
      BY <3>1, <3>3
  <2>6. Len(f[m]) \in Nat /\ Len(s[m + 1]) \in Nat
    BY <2>3, <2>10
  <2>7. ASSUME NEW k \in 0 .. m + 1
        PROVE  f[k] \in Seq(X) /\ Len(f[k]) <= Len(f[m + 1])
    <3>1. CASE k = m + 1
      <4>1. f[k] \in Seq(X) /\ f[k] = f[m + 1]
        BY <2>5, <3>1
      <4>2. Len(f[k]) \in Nat /\ Len(f[k]) = Len(f[m + 1])
        BY <4>1
      <4>3. QED
        BY <4>1, <4>2
    <3>2. CASE k # m + 1
      <4>1. k \in 0 .. m
        BY <3>2
      <4>2. f[k] \in Seq(X) /\ Len(f[k]) <= Len(f[m])
        BY <1>2, <4>1
      <4>3. Len(f[k]) \in Nat
        BY <4>2
      <4>6. PICK a, b, c, d : /\ a = Len(f[k]) /\ b = Len(f[m]) /\ c = Len(s[m + 1])
                              /\ d = Len(f[m + 1])
        OBVIOUS
      <4>7. d = b + c /\ a <= b /\ a \in Nat /\ b \in Nat /\ c \in Nat
        BY <2>5, <2>6, <4>2, <4>3, <4>6
      <4>8. a <= d
        BY <4>7
      <4>4. Len(f[k]) <= Len(f[m + 1])
        BY <4>6, <4>8
      <4>5. QED
        BY <4>2, <4>4
    <3>3. QED
      BY <3>1, <3>2
  <2>8. ASSUME NEW k \in 1 .. m + 1
        PROVE  Len(f[k]) = Len(f[k - 1]) + Len(s[k]) /\ Inside(f, s, k, m + 1)
    <3>1. CASE k = m + 1
      BY <2>2, <2>5, <3>1 DEF Inside
    <3>2. CASE k # m + 1
      <4>1. k \in 1 .. m /\ k \in 0 .. m /\ k - 1 \in 0 .. m /\ k \in 1 .. Len(s)
        BY <1>0, <1>2, <3>2
      <4>2. Len(f[k]) = Len(f[k - 1]) + Len(s[k]) /\ Inside(f, s, k, m)
        BY <1>2, <4>1
      <4>3. /\ f[k] \in Seq(X) /\ f[k - 1] \in Seq(X) /\ s[k] \in Seq(X)
            /\ Len(f[k]) <= Len(f[m])
        BY <1>2, <4>1
      <4>4. Len(f[k]) \in Nat /\ Len(f[k - 1]) \in Nat /\ Len(s[k]) \in Nat
        BY <4>3
      <4>5. PICK a, b, c, d : a = Len(f[k]) /\ b = Len(f[k - 1]) /\ c = Len(s[k]) /\ d = Len(f[m])
        OBVIOUS
      <4>8. a = b + c /\ a <= d /\ a \in Nat /\ b \in Nat /\ c \in Nat /\ d \in Nat
        BY <2>6, <4>2, <4>3, <4>4, <4>5
      <4>6. \A i \in 1 .. c : b + i \in 1 .. d
        BY <4>8
      <4>7. QED
        BY <2>5, <4>2, <4>5, <4>6 DEF Inside
    <3>3. QED
      BY <3>1, <3>2
  <2>9. QED
    BY <2>7, <2>8
<1>3. Nat \subseteq S
  <2> HIDE DEF Good
  <2>1. 0 \in S
    BY <1>1
  <2>2. ASSUME NEW m \in Nat, m \in S PROVE m + 1 \in S
    BY <1>0, <1>2, <2>2
  <2> HIDE DEF S
  <2>3. QED
    BY <2>1, <2>2, SetInduction
<1>4. Good(Len(s))
  <2> HIDE DEF Good
  <2>1. QED
    BY <1>0, <1>3
<1>5. QED
  BY <1>4

\* e[k] is where the text of ts[k] ends in the concatenation.
Ends(e, ts) ==
  /\ e \in [0 .. Len(ts) -> Nat]
  /\ e[0] = 0
  /\ \A k \in 1 .. Len(ts) : e[k] = e[k - 1] + TokenLength(ts[k])
  /\ \A k \in 0 .. Len(ts) : e[k] <= e[Len(ts)]

\* text is the texts of ts one behind the other.
Splits(text, e, ts) ==
  /\ \E X : text \in Seq(X)
  /\ Len(text) = e[Len(ts)]
  /\ \A k \in 1 .. Len(ts) : \A i \in 1 .. TokenLength(ts[k]) :
       text[e[k - 1] + i] = TokenText(ts[k])[i]

LEMMA TextsAreTexts ==
  ASSUME NEW ts, Len(ts) \in Nat, \A k \in 1 .. Len(ts) : TokenLength(ts[k]) \in Nat
  PROVE  \E X : /\ Texts(ts) \in Seq(Seq(X))
                /\ Len(Texts(ts)) = Len(ts)
                /\ \A k \in 1 .. Len(ts) : /\ Texts(ts)[k] = TokenText(ts[k])
                                           /\ Len(TokenText(ts[k])) = TokenLength(ts[k])
<1>1. PICK X : X = UNION { { TokenText(ts[k])[i] : i \in 1 .. TokenLength(ts[k]) } : k \in 1 .. Len(ts) }
  OBVIOUS
<1>2. ASSUME NEW k \in 1 .. Len(ts)
      PROVE  TokenText(ts[k]) \in Seq(X) /\ Len(TokenText(ts[k])) = TokenLength(ts[k])
  <2>1. PICK t, n : t = TokenText(ts[k]) /\ n = TokenLength(ts[k])
    OBVIOUS
  <2>2. n \in Nat /\ DOMAIN t = 1 .. n /\ t = [i \in 1 .. n |-> t[i]]
    BY <2>1 DEF TokenText
  <2>3. \A i \in 1 .. n : t[i] \in X
    BY <1>1, <2>1
  <2>4. t \in Seq(X) /\ Len(t) = n
    BY <2>2, <2>3
  <2>5. QED
    BY <2>1, <2>4
<1>3. Texts(ts) \in Seq(Seq(X)) /\ Len(Texts(ts)) = Len(ts)
  BY <1>2 DEF Texts
<1>4. QED
  BY <1>2, <1>3 DEF Texts

LEMMA ConcatSplits ==
  ASSUME NEW ts, Len(ts) \in Nat, \A k \in 1 .. Len(ts) : TokenLength(ts[k]) \in Nat
  PROVE  \E e : Ends(e, ts) /\ Splits(Concat(ts), e, ts)
<1>1. PICK X : /\ Texts(ts) \in Seq(Seq(X))
               /\ Len(Texts(ts)) = Len(ts)
               /\ \A k \in 1 .. Len(ts) : /\ Texts(ts)[k] = TokenText(ts[k])
                                          /\ Len(TokenText(ts[k])) = TokenLength(ts[k])
  BY TextsAreTexts
<1>2. PICK f : Joins(f, Texts(ts)) /\ Concat(ts) = f[Len(ts)]
  BY ConcatJoins
<1>3. PICK e : e = [k \in 0 .. Len(ts) |-> Len(f[k])]
  OBVIOUS
<1>4. PICK s, n : s = Texts(ts) /\ n = Len(ts)
  OBVIOUS
<1>5. /\ s \in Seq(Seq(X)) /\ Len(s) = n /\ n \in Nat
      /\ \A k \in 1 .. n : s[k] = TokenText(ts[k]) /\ Len(s[k]) = TokenLength(ts[k])
      /\ Joins(f, s)
  BY <1>1, <1>2, <1>4
<1>6. /\ \A k \in 0 .. n : f[k] \in Seq(X) /\ Len(f[k]) <= Len(f[n])
      /\ \A k \in 1 .. n : /\ Len(f[k]) = Len(f[k - 1]) + Len(s[k])
                           /\ Inside(f, s, k, n)
  BY <1>5, JoinedTexts
<1>7. f[0] = << >>
  BY <1>5 DEF Joins
<1>8. \A k \in 0 .. n : e[k] = Len(f[k]) /\ e[k] \in Nat
  BY <1>3, <1>4, <1>6
<1>9. Ends(e, ts)
  <2>1. e \in [0 .. n -> Nat]
    BY <1>3, <1>4, <1>8
  <2>2. e[0] = 0
    BY <1>5, <1>7, <1>8
  <2>3. ASSUME NEW k \in 1 .. n PROVE e[k] = e[k - 1] + TokenLength(ts[k])
    <3>1. k \in 0 .. n /\ k - 1 \in 0 .. n
      BY <1>5
    <3>2. Len(f[k]) = Len(f[k - 1]) + TokenLength(ts[k])
      BY <1>5, <1>6
    <3>3. QED
      BY <1>8, <3>1, <3>2
  <2>4. ASSUME NEW k \in 0 .. n PROVE e[k] <= e[n]
    <3>1. n \in 0 .. n /\ Len(f[k]) <= Len(f[n])
      BY <1>5, <1>6
    <3>2. QED
      BY <1>8, <3>1
  <2>5. QED
    BY <1>4, <2>1, <2>2, <2>3, <2>4 DEF Ends
<1>10. Splits(Concat(ts), e, ts)
  <2>1. ASSUME NEW k \in 1 .. n, NEW i \in 1 .. TokenLength(ts[k])
        PROVE  f[n][e[k - 1] + i] = TokenText(ts[k])[i]
    <3>1. k - 1 \in 0 .. n /\ i \in 1 .. Len(s[k])
      BY <1>5
    <3>2. f[n][Len(f[k - 1]) + i] = s[k][i]
      BY <1>6, <3>1 DEF Inside
    <3>3. QED
      BY <1>5, <1>8, <3>1, <3>2
  <2>2. n \in 0 .. n
    BY <1>5
  <2>3. Concat(ts) \in Seq(X) /\ Len(Concat(ts)) = e[n]
    BY <1>2, <1>4, <1>6, <1>8, <2>2
  <2>4. QED
    BY <1>2, <1>4, <2>1, <2>3 DEF Splits
<1>11. QED
  BY <1>9, <1>10

-----------------------------------------------------------------------------
(***************************************************************************)
(* The copy of an event.                                                   *)
(***************************************************************************)
LEMMA EndsUnique ==
  ASSUME NEW ts, Len(ts) \in Nat, NEW e, Ends(e, ts),
         NEW g, g = [k \in 0 .. Len(ts) |-> IF k = 0 THEN 0 ELSE g[k - 1] + TokenLength(ts[k])]
  PROVE  g = e
<1> DEFINE Same(k) == g[k] = e[k]
<1> DEFINE S == {k \in Nat : k <= Len(ts) => Same(k)}
<1>1. 0 \in S
  <2>1. g[0] = 0
    OBVIOUS
  <2>2. QED
    BY <2>1 DEF Ends
<1>2. ASSUME NEW k \in Nat, k \in S PROVE k + 1 \in S
  <2>1. SUFFICES ASSUME k + 1 <= Len(ts) PROVE g[k + 1] = e[k + 1]
    OBVIOUS
  <2>2. k + 1 \in 1 .. Len(ts) /\ k + 1 # 0 /\ (k + 1) - 1 = k /\ g[k] = e[k]
    BY <1>2, <2>1
  <2>3. g[k + 1] = g[k] + TokenLength(ts[k + 1])
    BY <2>2
  <2>4. e[k + 1] = e[k] + TokenLength(ts[k + 1])
    BY <2>2 DEF Ends
  <2>5. QED
    BY <2>2, <2>3, <2>4
<1>3. Nat \subseteq S
  <2> HIDE DEF S
  <2>1. QED
    BY <1>1, <1>2, SetInduction
<1>4. \A k \in 0 .. Len(ts) : Same(k)
  <2> HIDE DEF Same
  <2>1. QED
    BY <1>3
<1>5. DOMAIN g = 0 .. Len(ts) /\ e \in [0 .. Len(ts) -> Nat]
  BY DEF Ends
<1>6. QED
  BY <1>4, <1>5

\* The copy keeps the tokens' types, and each of its slots is the text of its token.
LEMMA CopySlots ==
  ASSUME NEW ts, Len(ts) \in Nat, NEW e, Ends(e, ts)
  PROVE  deep_copy(ts) =
           [ has_header |-> out.has_header,
             m_buffer   |-> Concat(ts),
             slots      |-> [k \in DOMAIN ts |-> [ start_pos |-> e[k - 1],
                                                   end_pos   |-> e[k],
                                                   type      |-> ts[k].type ]] ]
<1>1. e = [k \in 0 .. Len(ts) |-> IF k = 0 THEN 0 ELSE e[k - 1] + TokenLength(ts[k])]
  <2>1. \A k \in 0 .. Len(ts) : e[k] = IF k = 0 THEN 0 ELSE e[k - 1] + TokenLength(ts[k])
    BY DEF Ends
  <2>2. QED
    BY <2>1 DEF Ends
<1>2. PICK g : /\ g = [k \in 0 .. Len(ts) |-> IF k = 0 THEN 0 ELSE g[k - 1] + TokenLength(ts[k])]
               /\ deep_copy(ts) =
                    [ has_header |-> out.has_header,
                      m_buffer   |-> Concat(ts),
                      slots      |-> [k \in DOMAIN ts |-> [ start_pos |-> g[k - 1],
                                                            end_pos   |-> g[k],
                                                            type      |-> ts[k].type ]] ]
  BY <1>1 DEF deep_copy
<1>3. g = e
  BY <1>2, EndsUnique
<1>4. QED
  BY <1>2, <1>3

LEMMA CopiedText ==
  ASSUME NEW ts, Len(ts) \in Nat, DOMAIN ts = 1 .. Len(ts),
         NEW e, Ends(e, ts), Splits(Concat(ts), e, ts),
         NEW k \in 1 .. Len(ts), TokenLength(ts[k]) \in Nat
  PROVE  /\ copied_text(deep_copy(ts), k) = SubSeq(Concat(ts), e[k - 1] + 1, e[k])
         /\ copied_text(deep_copy(ts), k) = TokenText(ts[k])
<1>1. PICK text, a, n : text = Concat(ts) /\ a = e[k - 1] /\ n = TokenLength(ts[k])
  OBVIOUS
<1>2. /\ deep_copy(ts).m_buffer = text
      /\ deep_copy(ts).slots[k].start_pos = a
      /\ deep_copy(ts).slots[k].end_pos = e[k]
  BY <1>1, CopySlots
<1>3. /\ a \in Nat /\ e[k] \in Nat /\ e[k] = a + n /\ n \in Int
      /\ e[k] <= e[Len(ts)] /\ e[Len(ts)] \in Nat
  <2>1. k - 1 \in 0 .. Len(ts) /\ k \in 0 .. Len(ts) /\ Len(ts) \in 0 .. Len(ts)
    OBVIOUS
  <2>2. a \in Nat /\ e[k] \in Nat /\ e[Len(ts)] \in Nat
    BY <1>1, <2>1 DEF Ends
  <2>3. QED
    BY <1>1, <2>1, <2>2 DEF Ends
<1>4. PICK X : text \in Seq(X)
  BY <1>1 DEF Splits
<1>5. Len(text) = e[Len(ts)] /\ \A i \in 1 .. n : text[a + i] = TokenText(ts[k])[i]
  BY <1>1 DEF Splits
<1>6. SubSeq(text, a + 1, e[k]) = [i \in 1 .. n |-> text[a + i]]
  BY <1>3, <1>4, <1>5
<1>7. [i \in 1 .. n |-> text[a + i]] = TokenText(ts[k])
  BY <1>1, <1>5 DEF TokenText
<1>8. copied_text(deep_copy(ts), k) = SubSeq(text, a + 1, e[k])
  BY <1>2 DEF copied_text
<1>9. QED
  BY <1>1, <1>6, <1>7, <1>8

LEMMA SubSeqJoin ==
  ASSUME NEW X, NEW text \in Seq(X), NEW a \in Nat, NEW b \in Nat, NEW c \in Nat,
         a <= b, b <= c, c <= Len(text)
  PROVE  SubSeq(text, a + 1, b) \o SubSeq(text, b + 1, c) = SubSeq(text, a + 1, c)
OBVIOUS

LEMMA SubSeqAll ==
  ASSUME NEW X, NEW text \in Seq(X)
  PROVE  /\ SubSeq(text, 1, Len(text)) = text
         /\ SubSeq(text, Len(text) + 1, Len(text)) = << >>
OBVIOUS

\* The k-th of the pieces of a text that end at e[1], e[2], ...
Piece(text, e, k) == SubSeq(text, e[k - 1] + 1, e[k])

\* P is a text cut into n pieces.
Pieces(P, text, e, n) ==
  /\ \E X : text \in Seq(X)
  /\ n \in Nat /\ e \in [0 .. n -> Nat]
  /\ e[0] = 0 /\ e[n] = Len(text)
  /\ \A k \in 1 .. n : e[k - 1] <= e[k]
  /\ \A k \in 0 .. n : e[k] <= e[n]
  /\ P = [k \in 1 .. n |-> Piece(text, e, k)]

\* r[k] is the pieces from k on, as to_string joins them.
JoinsBack(r, P, n) ==
  r = [k \in 1 .. n + 1 |-> IF k > n THEN << >> ELSE P[k] \o r[k + 1]]

\* The text from slot k on is the rest of the text behind the slots before it.
LEMMA RestOfText ==
  ASSUME NEW P, NEW text, NEW e, NEW n, Pieces(P, text, e, n)
  PROVE  /\ \E r : JoinsBack(r, P, n)
         /\ \A r : JoinsBack(r, P, n) => r[1] = text
<1>6. PICK X : /\ text \in Seq(X)
               /\ n \in Nat /\ e \in [0 .. n -> Nat]
               /\ e[0] = 0 /\ e[n] = Len(text)
               /\ \A k \in 1 .. n : e[k - 1] <= e[k]
               /\ \A k \in 0 .. n : e[k] <= e[n]
               /\ P = [k \in 1 .. n |-> Piece(text, e, k)]
  BY DEF Pieces
<1> DEFINE Join(k, rest) == P[k] \o rest
<1> DEFINE Rest(k) == SubSeq(text, e[k - 1] + 1, e[n])
<1>1. ASSUME NEW k \in 1 .. n PROVE Rest(k) = Join(k, Rest(k + 1))
  <2>1. PICK a, b, c : a = e[k - 1] /\ b = e[k] /\ c = e[n]
    OBVIOUS
  <2>2. k - 1 \in 0 .. n /\ k \in 0 .. n /\ n \in 0 .. n /\ (k + 1) - 1 = k
    BY <1>6
  <2>3. a \in Nat /\ b \in Nat /\ c \in Nat /\ a <= b /\ b <= c /\ c <= Len(text)
    BY <1>6, <2>1, <2>2
  <2>4. SubSeq(text, a + 1, b) \o SubSeq(text, b + 1, c) = SubSeq(text, a + 1, c)
    BY <1>6, <2>3, SubSeqJoin
  <2>5. P[k] = SubSeq(text, a + 1, b) /\ Rest(k) = SubSeq(text, a + 1, c)
        /\ Rest(k + 1) = SubSeq(text, b + 1, c)
    BY <1>6, <2>1, <2>2 DEF Piece
  <2>6. QED
    BY <2>4, <2>5
<1>2. Rest(1) = text /\ Rest(n + 1) = << >>
  <2>1. e[n] = Len(text) /\ e[0] = 0 /\ Len(text) \in Nat /\ (n + 1) - 1 = n /\ 1 - 1 = 0 /\ 0 + 1 = 1
    BY <1>6
  <2>2. Rest(1) = SubSeq(text, 1, Len(text)) /\ Rest(n + 1) = SubSeq(text, Len(text) + 1, Len(text))
    BY <2>1
  <2>3. QED
    BY <1>6, <2>2, SubSeqAll
<1> HIDE DEF Join, Rest
<1> DEFINE Unfolds(r) == r = [k \in 1 .. n + 1 |-> IF k > n THEN << >> ELSE Join(k, r[k + 1])]
<1>3. \E r : Unfolds(r)
  <2>1. PICK r : r = [k \in 1 .. n + 1 |-> Rest(k)]
    OBVIOUS
  <2>2. ASSUME NEW k \in 1 .. n + 1
        PROVE  r[k] = IF k > n THEN << >> ELSE Join(k, r[k + 1])
    <3>1. CASE k > n
      <4>1. k = n + 1
        BY <1>6, <3>1
      <4>2. QED
        BY <1>2, <1>6, <2>1, <3>1, <4>1
    <3>2. CASE ~(k > n)
      <4>1. k \in 1 .. n /\ k + 1 \in 1 .. n + 1
        BY <1>6, <3>2
      <4>2. QED
        BY <1>1, <1>6, <2>1, <3>2, <4>1
    <3>3. QED
      BY <3>1, <3>2
  <2>3. Unfolds(r)
    BY <2>1, <2>2
  <2>4. QED
    BY <2>3
<1>4. ASSUME NEW r, Unfolds(r) PROVE r[1] = text
  <2> DEFINE Same(k) == r[k] = Rest(k)
  <2> DEFINE S == {m \in Nat : m <= n => Same((n + 1) - m)}
  <2>1. 0 \in S
    <3>1. (n + 1) - 0 = n + 1 /\ n + 1 > n /\ n + 1 \in 1 .. n + 1
      BY <1>6
    <3>2. r[n + 1] = << >>
      BY <1>4, <3>1
    <3>3. QED
      BY <1>2, <3>1, <3>2
  <2>2. ASSUME NEW m \in Nat, m + 1 <= n, Same((n + 1) - m) PROVE Same((n + 1) - (m + 1))
    <3>1. PICK k : k = (n + 1) - (m + 1)
      OBVIOUS
    <3>2. k \in 1 .. n /\ k + 1 = (n + 1) - m /\ k \in 1 .. n + 1 /\ ~(k > n)
      BY <1>6, <2>2, <3>1
    <3>3. r[k] = Join(k, r[k + 1])
      BY <1>4, <3>2
    <3>4. r[k + 1] = Rest(k + 1)
      BY <2>2, <3>2
    <3>5. QED
      BY <1>1, <3>1, <3>2, <3>3, <3>4
  <2> HIDE DEF Same
  <2>3. ASSUME NEW m \in Nat, m \in S PROVE m + 1 \in S
    BY <1>6, <2>2, <2>3
  <2>4. Nat \subseteq S
    <3> HIDE DEF S
    <3>1. QED
      BY <2>1, <2>3, SetInduction
  <2>5. Same((n + 1) - n)
    BY <1>6, <2>4
  <2>6. Same(1)
    <3>1. (n + 1) - n = 1
      BY <1>6
    <3>2. QED
      BY <2>5, <3>1
  <2>7. QED
    BY <1>2, <2>6 DEF Same
<1>5. QED
  BY <1>3, <1>4 DEF Join, JoinsBack

LEMMA CopyString ==
  ASSUME NEW ts, Len(ts) \in Nat, DOMAIN ts = 1 .. Len(ts),
         \A k \in 1 .. Len(ts) : TokenLength(ts[k]) \in Nat,
         NEW e, Ends(e, ts), Splits(Concat(ts), e, ts), out.has_header
  PROVE  copy_to_string(deep_copy(ts)) = Concat(ts)
<1>1. PICK copy, text, n, P : /\ copy = deep_copy(ts) /\ text = Concat(ts) /\ n = Len(ts)
                              /\ P = [k \in 1 .. n |-> copied_text(copy, k)]
  OBVIOUS
<1>2. Len(copy.slots) = n /\ copy.has_header
  <2>1. PICK f : f = [k \in 1 .. n |-> [ start_pos |-> e[k - 1],
                                         end_pos   |-> e[k],
                                         type      |-> ts[k].type ]]
    OBVIOUS
  <2>2. copy = [ has_header |-> out.has_header, m_buffer |-> text, slots |-> f ]
    BY <1>1, <2>1, CopySlots
  <2>3. Len(f) = n
    BY <1>1, <2>1
  <2>4. QED
    BY <2>2, <2>3
<1>3. PICK X : text \in Seq(X)
  BY <1>1 DEF Splits
<1>4. P = [k \in 1 .. n |-> Piece(text, e, k)]
  BY <1>1, CopiedText DEF Piece
<1>5. /\ n \in Nat /\ e \in [0 .. n -> Nat] /\ e[0] = 0 /\ e[n] = Len(text)
      /\ \A k \in 0 .. n : e[k] <= e[n]
  BY <1>1 DEF Ends, Splits
<1>6. \A k \in 1 .. n : e[k - 1] <= e[k]
  <2>1. ASSUME NEW k \in 1 .. n PROVE e[k - 1] <= e[k]
    <3>1. k - 1 \in 0 .. n
      BY <1>5
    <3>2. e[k] = e[k - 1] + TokenLength(ts[k]) /\ e[k - 1] \in Nat /\ TokenLength(ts[k]) \in Nat
      BY <1>1, <1>5, <3>1 DEF Ends
    <3>3. QED
      BY <3>2
  <2>2. QED
    BY <2>1
<1>7. (\E r : JoinsBack(r, P, n)) /\ (\A r : JoinsBack(r, P, n) => r[1] = text)
  <2>1. Pieces(P, text, e, n)
    BY <1>3, <1>4, <1>5, <1>6 DEF Pieces
  <2>2. QED
    BY <2>1, RestOfText
<1>8. ASSUME NEW r
      PROVE  JoinsBack(r, P, n) <=>
               r = [k \in 1 .. n + 1 |-> IF k > n THEN << >> ELSE copied_text(copy, k) \o r[k + 1]]
  <2>1. ASSUME NEW k \in 1 .. n + 1, ~(k > n) PROVE P[k] = copied_text(copy, k)
    <3>1. k \in 1 .. n
      BY <1>5, <2>1
    <3>2. QED
      BY <1>1, <3>1
  <2>2. QED
    BY <2>1 DEF JoinsBack
<1>9. /\ \E r : r = [k \in 1 .. n + 1 |-> IF k > n THEN << >> ELSE copied_text(copy, k) \o r[k + 1]]
      /\ \A r : r = [k \in 1 .. n + 1 |-> IF k > n THEN << >> ELSE copied_text(copy, k) \o r[k + 1]]
                  => r[1] = text
  BY <1>7, <1>8
<1>10. copy_to_string(copy) = text
  <2> DEFINE Slots(m, r) ==
        r = [k \in 1 .. m + 1 |-> IF k > m THEN << >> ELSE copied_text(copy, k) \o r[k + 1]]
  <2>1. (\E r : Slots(n, r)) /\ (\A r : Slots(n, r) => r[1] = text)
    BY <1>9
  <2>2. /\ \E r : Slots(Len(copy.slots), r)
        /\ \A r : Slots(Len(copy.slots), r) => r[1] = text
    <3> HIDE DEF Slots
    <3>1. QED
      BY <1>2, <2>1
  <2>3. PICK g : /\ Slots(Len(copy.slots), g)
                 /\ copy_to_string(copy) = g[IF copy.has_header THEN 1 ELSE 2]
    BY <2>2 DEF copy_to_string
  <2>4. g[1] = text
    <3> HIDE DEF Slots
    <3>1. QED
      BY <2>2, <2>3
  <2>5. QED
    BY <1>2, <2>3, <2>4
<1>11. QED
  BY <1>1, <1>10

-----------------------------------------------------------------------------
(***************************************************************************)
(* The runs of the automaton over the log.                                 *)
(***************************************************************************)

\* The state after the character at offset k - 1.
After(r, k) == IF r = Null THEN Null ELSE Transition[r][log[k]]

\* f is the states from offset i to j.
Runs(f, s, i, j) == f = [k \in i .. j |-> IF k = i THEN s ELSE After(f[k - 1], k)]

LEMMA RunsExist ==
  ASSUME NEW s, NEW i \in Nat, NEW j \in Nat, i <= j
  PROVE  \E f : Runs(f, s, i, j)
<1> DEFINE Upto(f, m) ==
      /\ DOMAIN f = i .. i + m
      /\ f = [k \in i .. i + m |-> IF k = i THEN s ELSE After(f[k - 1], k)]
<1> DEFINE S == {m \in Nat : \E f : Upto(f, m)}
<1>1. 0 \in S
  <2>1. PICK f : f = [k \in i .. i + 0 |-> s]
    OBVIOUS
  <2>2. Upto(f, 0)
    BY <2>1
  <2>3. QED
    BY <2>2
<1>2. ASSUME NEW m \in Nat, m \in S PROVE m + 1 \in S
  <2>1. PICK f : Upto(f, m)
    BY <1>2
  <2>2. PICK g : g = [k \in i .. i + (m + 1) |-> IF k <= i + m THEN f[k]
                                                ELSE After(f[i + m], k)]
    OBVIOUS
  <2>3. ASSUME NEW k \in i .. i + (m + 1)
        PROVE  g[k] = IF k = i THEN s ELSE After(g[k - 1], k)
    BY <2>1, <2>2
  <2>4. Upto(g, m + 1)
    BY <2>2, <2>3
  <2>5. m + 1 \in Nat
    OBVIOUS
  <2> HIDE DEF Upto
  <2>6. QED
    BY <2>4, <2>5
<1>3. Nat \subseteq S
  <2> HIDE DEF S
  <2>1. QED
    BY <1>1, <1>2, SetInduction
<1>4. j - i \in Nat /\ i + (j - i) = j
  OBVIOUS
<1>5. PICK f : Upto(f, j - i)
  BY <1>3, <1>4
<1>6. QED
  BY <1>4, <1>5 DEF Runs

\* A run is the beginning of a longer one.
LEMMA RunsAgree ==
  ASSUME NEW s, NEW i \in Nat, NEW j \in Nat, NEW m \in Nat, i <= j, j <= m,
         NEW f, Runs(f, s, i, j), NEW g, Runs(g, s, i, m)
  PROVE  f[j] = g[j]
<1> DEFINE Same(k) == f[i + k] = g[i + k]
<1> DEFINE S == {k \in Nat : i + k <= j => Same(k)}
<1>1. 0 \in S
  BY DEF Runs
<1>2. ASSUME NEW k \in Nat, k \in S PROVE k + 1 \in S
  <2>1. SUFFICES ASSUME i + (k + 1) <= j PROVE Same(k + 1)
    OBVIOUS
  <2>2. Same(k)
    BY <1>2, <2>1
  <2>3. /\ i + (k + 1) \in i .. j /\ i + (k + 1) \in i .. m
        /\ (i + (k + 1)) - 1 = i + k /\ i + (k + 1) # i
    BY <2>1
  <2>4. f[i + (k + 1)] = After(f[i + k], i + (k + 1))
    BY <2>3 DEF Runs
  <2>5. g[i + (k + 1)] = After(g[i + k], i + (k + 1))
    BY <2>3 DEF Runs
  <2>6. QED
    BY <2>2, <2>4, <2>5
<1>3. Nat \subseteq S
  <2> HIDE DEF S
  <2>1. QED
    BY <1>1, <1>2, SetInduction
<1>4. j - i \in Nat /\ i + (j - i) = j
  OBVIOUS
<1>5. QED
  BY <1>3, <1>4

LEMMA RunRuns ==
  ASSUME NEW s, NEW i \in Nat, NEW j \in Nat, i <= j
  PROVE  \E f : Runs(f, s, i, j) /\ Run(s, i, j) = f[j]
<1>1. \E f : f = [k \in i .. j |-> IF k = i THEN s ELSE
                    IF f[k - 1] = Null THEN Null ELSE Transition[f[k - 1]][log[k]]]
  <2>1. PICK f : Runs(f, s, i, j)
    BY RunsExist
  <2>2. f = [k \in i .. j |-> IF k = i THEN s ELSE
                IF f[k - 1] = Null THEN Null ELSE Transition[f[k - 1]][log[k]]]
    BY <2>1, Zenon DEF Runs, After
  <2>3. QED
    BY <2>2
<1>2. PICK f : /\ f = [k \in i .. j |-> IF k = i THEN s ELSE
                       IF f[k - 1] = Null THEN Null ELSE Transition[f[k - 1]][log[k]]]
              /\ Run(s, i, j) = f[j]
  BY <1>1 DEF Run
<1>3. QED
  BY <1>2 DEF Runs, After

\* A run character by character.
LEMMA RunSteps ==
  ASSUME NEW s, NEW i \in Nat, NEW j \in Nat, i <= j
  PROVE  /\ Run(s, i, i) = s
         /\ Run(s, i, j + 1) = After(Run(s, i, j), j + 1)
<1>1. Run(s, i, i) = s
  <2>1. PICK f : Runs(f, s, i, i) /\ Run(s, i, i) = f[i]
    BY RunRuns
  <2>2. QED
    BY <2>1 DEF Runs
<1>2. PICK m \in Nat : m = j + 1
  OBVIOUS
<1>3. PICK f : Runs(f, s, i, j) /\ Run(s, i, j) = f[j]
  BY RunRuns
<1>4. i <= m /\ j <= m
  BY <1>2
<1>5. PICK g : Runs(g, s, i, m) /\ Run(s, i, m) = g[m]
  BY <1>4, RunRuns
<1>6. f[j] = g[j]
  BY <1>3, <1>4, <1>5, RunsAgree
<1>7. g[m] = After(g[j], m)
  <2>1. m \in i .. m /\ m - 1 = j /\ m # i
    BY <1>2
  <2>2. QED
    BY <1>5, <2>1 DEF Runs
<1>8. QED
  BY <1>1, <1>2, <1>3, <1>5, <1>6, <1>7

\* The automaton stays in its states, and does not come back from none.
LEMMA RunStates ==
  ASSUME log \in Seq(Chars), NEW s \in DfaStates, NEW i \in Nat,
         NEW j \in Nat, i <= j, j <= Len(log)
  PROVE  Run(s, i, j) \in DfaStates \cup {Null}
<1> DEFINE Good(n) == Run(s, i, i + n) \in DfaStates \cup {Null}
<1> DEFINE S == {n \in Nat : i + n <= Len(log) => Good(n)}
<1>1. 0 \in S
  BY RunSteps, i + 0 = i
<1>2. ASSUME NEW n \in Nat, n \in S PROVE n + 1 \in S
  <2>1. SUFFICES ASSUME i + (n + 1) <= Len(log) PROVE Good(n + 1)
    OBVIOUS
  <2>2. Good(n)
    BY <1>2, <2>1
  <2>3. PICK q \in Nat : q = i + n
    OBVIOUS
  <2>4. i <= q /\ i + (n + 1) = q + 1 /\ q + 1 <= Len(log)
    BY <2>1, <2>3
  <2>5. Run(s, i, q + 1) = After(Run(s, i, q), q + 1)
    BY <2>4, RunSteps
  <2>6. log[q + 1] \in Chars
    BY <2>4
  <2>7. Run(s, i, q) \in DfaStates \cup {Null}
    BY <2>2, <2>3
  <2>8. Run(s, i, q + 1) \in DfaStates \cup {Null}
    BY <2>5, <2>6, <2>7, SchemaAssumption DEF After
  <2>9. QED
    BY <2>4, <2>8
<1>3. Nat \subseteq S
  <2> HIDE DEF S
  <2>1. QED
    BY <1>1, <1>2, SetInduction
<1>4. j - i \in Nat /\ i + (j - i) = j
  OBVIOUS
<1>5. QED
  BY <1>3, <1>4

LEMMA RunStuck ==
  ASSUME NEW s, NEW i \in Nat, NEW j \in Nat, i <= j, Run(s, i, j) = Null,
         NEW k \in Nat, j <= k
  PROVE  Run(s, i, k) = Null
<1> DEFINE Good(n) == Run(s, i, j + n) = Null
<1> DEFINE S == {n \in Nat : Good(n)}
<1>1. 0 \in S
  BY j + 0 = j
<1>2. ASSUME NEW n \in Nat, n \in S PROVE n + 1 \in S
  <2>1. PICK q \in Nat : q = j + n
    OBVIOUS
  <2>2. i <= q /\ j + (n + 1) = q + 1
    BY <2>1
  <2>3. Run(s, i, q + 1) = After(Run(s, i, q), q + 1)
    BY <2>2, RunSteps
  <2>4. Run(s, i, q + 1) = Null
    BY <1>2, <2>1, <2>3 DEF After
  <2>5. QED
    BY <2>2, <2>4
<1>3. Nat \subseteq S
  <2> HIDE DEF S
  <2>1. QED
    BY <1>1, <1>2, SetInduction
<1>4. k - j \in Nat /\ j + (k - j) = k
  OBVIOUS
<1>5. QED
  BY <1>3, <1>4

\* What a log means depends on nothing else.
RunOn(l, s, i, j) ==
  LET at[k \in i .. j] ==
        IF k = i THEN s
        ELSE IF at[k - 1] = Null THEN Null ELSE Transition[at[k - 1]][l[k]]
  IN at[j]

LEMMA SameRun ==
  ASSUME log' = log
  PROVE  \A s, i, j : Run(s, i, j)' = Run(s, i, j)
<1>1. \A s, i, j : Run(s, i, j) = RunOn(log, s, i, j)
  BY Zenon DEF Run, RunOn
<1>2. \A s, i, j : Run(s, i, j)' = RunOn(log', s, i, j)
  BY Zenon DEF Run, RunOn
<1>3. QED
  BY <1>1, <1>2

\* Where the rule that began at offset i of log l in state s can end, and its type.
MatchEndsOn(l, s, i) ==
  { j \in i .. Len(l) : /\ is_accepting(RunOn(l, s, i, j))
                        /\ j = Len(l) \/ l[j + 1] \in Delims }

MatchTypeOn(l, s, i) ==
  IF MatchEndsOn(l, s, i) = {} THEN NoType
  ELSE TypeIds[RunOn(l, s, i, CHOOSE j \in MatchEndsOn(l, s, i) :
                                \A k \in MatchEndsOn(l, s, i) : k <= j)]

HeaderOn(l, i) ==
  /\ i < Len(l)
  /\ i = 0 \/ l[i] = Newline
  /\ MatchTypeOn(l, IF i = 0 THEN StartOfFile ELSE Transition[Root][Newline], i)
       = TokenHeader

EndOn(l, i) ==
  LET ends == { j \in i + 1 .. Len(l) :
                  /\ l[j] = Newline
                  /\ HeaderOn(l, j) \/ (~HeaderOn(l, i) /\ j > i + 1) }
  IN IF ends = {} THEN Len(l) ELSE CHOOSE j \in ends : \A k \in ends : j <= k

LEMMA SameLog ==
  ASSUME log' = log
  PROVE  /\ \A s, i, j : Run(s, i, j)' = Run(s, i, j)
         /\ \A s, i : MatchEnds(s, i)' = MatchEnds(s, i)
         /\ \A i : HeaderAt(i)' <=> HeaderAt(i)
         /\ \A i : EventEnd(i)' = EventEnd(i)
<1>1. \A s, i, j : Run(s, i, j)' = Run(s, i, j)
  BY SameRun
<1>2. \A s, i : MatchEnds(s, i)' = MatchEnds(s, i)
  <2>1. \A s, i : MatchEnds(s, i) = MatchEndsOn(log, s, i)
    BY Zenon DEF MatchEnds, MatchEndsOn, Run, RunOn, is_accepting
  <2>2. \A s, i : MatchEnds(s, i)' = MatchEndsOn(log', s, i)
    BY Zenon DEF MatchEnds, MatchEndsOn, Run, RunOn, is_accepting
  <2>3. QED
    BY <2>1, <2>2
<1>3. \A i : HeaderAt(i)' <=> HeaderAt(i)
  <2>1. \A i : HeaderAt(i) <=> HeaderOn(log, i)
    BY Zenon DEF HeaderAt, HeaderOn, MatchType, MatchTypeOn, MatchEnd, MatchEnds, MatchEndsOn, Run, RunOn, is_accepting
  <2>2. \A i : HeaderAt(i)' <=> HeaderOn(log', i)
    BY Zenon DEF HeaderAt, HeaderOn, MatchType, MatchTypeOn, MatchEnd, MatchEnds, MatchEndsOn, Run, RunOn, is_accepting
  <2>3. QED
    BY <2>1, <2>2
<1>4. \A i : EventEnd(i)' = EventEnd(i)
  <2>1. \A i : EventEnd(i) = EndOn(log, i)
    BY Zenon DEF EventEnd, EndOn,
       HeaderAt, HeaderOn, MatchType, MatchTypeOn, MatchEnd, MatchEnds, MatchEndsOn, Run, RunOn, is_accepting
  <2>2. \A i : EventEnd(i)' = EndOn(log', i)
    BY Zenon DEF EventEnd, EndOn,
       HeaderAt, HeaderOn, MatchType, MatchTypeOn, MatchEnd, MatchEnds, MatchEndsOn, Run, RunOn, is_accepting
  <2>3. QED
    BY <2>1, <2>2
<1>5. QED
  BY <1>1, <1>2, <1>3, <1>4

-----------------------------------------------------------------------------
(***************************************************************************)
(* What the view consists of.                                              *)
(***************************************************************************)

\* A token of the active storage.
LEMMA PlacedNewToken ==
  ASSUME TypeInv, ViewTypeInv, NEW p \in 0 .. buf.size - 1, NEW q \in 0 .. buf.size - 1,
         NEW y \in Types
  PROVE  NewToken(p, q, y) \in PlacedTokens
<1>1. buf.size \in Nat
  BY DEF TypeInv, StorageOf
<1>2. Len(retired) + 1 \in Nat
  BY DEF ViewTypeInv
<1>3. QED
  BY <1>1, <1>2 DEF NewToken, PlacedTokens, Tokens

\* The part of a token in front of its second byte, and the part behind the first.
LEMMA PlacedParts ==
  ASSUME NEW t \in PlacedTokens
  PROVE  /\ NewlineOf(t) \in PlacedTokens
         /\ [t EXCEPT !.start_pos = TokenNextPos(t)] \in PlacedTokens
<1>1. t \in Tokens /\ t.start_pos < t.buffer_size /\ t.end_pos < t.buffer_size
      /\ t.buffer_size \in Nat /\ t.start_pos \in Nat
  BY DEF PlacedTokens, Tokens
<1>2. TokenNextPos(t) \in Nat /\ TokenNextPos(t) < t.buffer_size
  BY <1>1 DEF TokenNextPos
<1>3. TokenUncaughtString \in Types
  BY DEF Types
<1>4. QED
  BY <1>1, <1>2, <1>3 DEF NewlineOf, PlacedTokens, Tokens

LEMMA PlacedLength ==
  ASSUME NEW t \in PlacedTokens
  PROVE  TokenLength(t) \in Nat
<1>1. /\ t.start_pos \in Nat /\ t.end_pos \in Nat /\ t.buffer_size \in Nat
      /\ t.start_pos < t.buffer_size
  BY DEF PlacedTokens, Tokens
<1>2. QED
  BY <1>1 DEF TokenLength

\* A token that scan returns is one of the active storage.
LEMMA ScanView ==
  ASSUME TypeInv, ViewTypeInv, Scan
  PROVE  ViewTypeInv'
<1> USE DEF input_vars, parse_vars, history, Return
<1>1. UNCHANGED <<retired, out, start_of_log>>
  BY DEF Scan, ScanResume, ScanPrepared, ScanFresh, ScanOutOfBounds, ScanNewline,
     ScanContinue, ScanMatch, ScanLastText, ScanEnd, ScanUncaught, ScanSkip,
     SkipCharacter, SkipOutOfBounds, SkipEnd
<1>2. /\ LexerWithin(lex, buf.size) /\ lex.type \in Types
      /\ taken(buf).pos \in 0 .. buf.size - 1
      /\ TokenUncaughtString \in Types /\ TokenEnd \in Types
  <2>1. LexerWithin(lex, buf.size) /\ StorageOf(buf, read_off)
    BY DEF TypeInv
  <2>2. StorageOf(taken(buf), read_off) /\ taken(buf).size = buf.size
    BY <2>1, TakenInStorage
  <2>3. QED
    BY <2>1, <2>2 DEF StorageOf, LexerWithin, Lexers, Types
<1>3. \A c \in NextChars :
        /\ Seen(c).start_pos \in 0 .. buf.size - 1
        /\ Seen(c).match_pos \in 0 .. buf.size - 1
        /\ Seen(c).last_match_pos \in 0 .. buf.size - 1
        /\ Seen(c).first_delim # Unset => Seen(c).first_delim \in 0 .. buf.size - 1
        /\ Seen(c).type \in Types
  BY SeenWithin DEF LexerWithin, Lexers, Unset
<1>4. pc' = "token" => tok' \in PlacedTokens
  <2>1. CASE ScanPrepared
    BY <1>2, <2>1, PlacedNewToken DEF ScanPrepared, LexerWithin
  <2>2. CASE ScanMatch
    BY <1>2, <1>3, <2>2, PlacedNewToken DEF ScanMatch
  <2>3. CASE ScanLastText
    BY <1>2, <1>3, <2>3, PlacedNewToken DEF ScanLastText
  <2>4. CASE ScanEnd
    BY <1>2, <2>4, PlacedNewToken DEF ScanEnd
  <2>5. CASE ScanUncaught
    BY <1>2, <1>3, <2>5, PlacedNewToken DEF ScanUncaught
  <2>6. CASE ~(ScanPrepared \/ ScanMatch \/ ScanLastText \/ ScanEnd \/ ScanUncaught)
    <3>1. pc' # "token"
      BY <2>6 DEF Scan, ScanResume, ScanFresh, ScanOutOfBounds, ScanNewline, ScanContinue,
         ScanSkip, SkipCharacter, SkipOutOfBounds, SkipEnd, MainLoop
    <3>2. QED
      BY <3>1
  <2>7. QED
    BY <2>1, <2>2, <2>3, <2>4, <2>5, <2>6
<1>5. QED
  BY <1>1, <1>4 DEF ViewTypeInv

\* parse adds the token, or the '\n' in front of it, to the view.
LEMMA ParseView ==
  ASSUME ViewTypeInv, Parse
  PROVE  ViewTypeInv'
<1> DEFINE Outs == [ has_header : BOOLEAN, started : BOOLEAN,
                     slot0 : PlacedTokens \cup {NoToken}, rest : Seq(PlacedTokens) ]
<1>1. /\ retired \in Seq(Storages) /\ out \in Outs /\ (out.has_header => out.slot0 # NoToken)
      /\ start_of_log \in PlacedTokens \cup {NoToken}
      /\ pc = "token" => tok \in PlacedTokens
  BY DEF ViewTypeInv
<1>2. \A t \in PlacedTokens : t # NoToken
  BY DEF PlacedTokens, Tokens, NoToken
<1>3. ASSUME NEW t \in PlacedTokens
      PROVE  /\ set_header(out, t) \in Outs /\ set_header(out, t).slot0 = t
             /\ set_first(out, t) \in Outs /\ ~set_first(out, t).has_header
             /\ set_end(out, t) \in Outs /\ set_end(out, t).slot0 = t
             /\ add_token(out, t) \in Outs
             /\ add_token(out, t).slot0 = out.slot0
             /\ add_token(out, t).has_header = out.has_header
  <2>1. /\ out.rest \in Seq(PlacedTokens) /\ << >> \in Seq(PlacedTokens)
        /\ <<t>> \in Seq(PlacedTokens)
        /\ Append(out.rest, t) \in Seq(PlacedTokens)
    BY <1>1, <1>3
  <2>2. set_header(out, t) \in Outs /\ set_header(out, t).slot0 = t
    BY <1>1, <1>3, <2>1 DEF set_header
  <2>3. set_first(out, t) \in Outs /\ ~set_first(out, t).has_header
    BY <1>1, <1>3, <2>1 DEF set_first
  <2>4. set_end(out, t) \in Outs /\ set_end(out, t).slot0 = t
    BY <1>1, <1>3, <2>1 DEF set_end
  <2>5. /\ add_token(out, t) \in Outs
        /\ add_token(out, t).slot0 = out.slot0
        /\ add_token(out, t).has_header = out.has_header
    <3>1. PICK r : r = Append(out.rest, t)
      OBVIOUS
    <3>2. add_token(out, t) = [out EXCEPT !.rest = r]
      BY <3>1 DEF add_token
    <3>3. QED
      BY <1>1, <2>1, <3>1, <3>2
  <2>6. QED
    BY <2>2, <2>3, <2>4, <2>5
<1>4. ASSUME NEW t \in PlacedTokens, BeginEvent(t)
      PROVE  /\ out' \in Outs /\ (out'.has_header => out'.slot0 # NoToken)
             /\ start_of_log' \in PlacedTokens \cup {NoToken}
             /\ pc' # "token"
  BY <1>1, <1>2, <1>3, <1>4 DEF BeginEvent, Finish
<1>5. ASSUME NEW t \in PlacedTokens, SplitAtNewline(t)
      PROVE  start_of_log' \in PlacedTokens /\ pc' # "token"
  BY <1>5, PlacedParts DEF SplitAtNewline
<1>6. /\ out' \in Outs /\ (out'.has_header => out'.slot0 # NoToken)
      /\ start_of_log' \in PlacedTokens \cup {NoToken}
      /\ pc' # "token" /\ retired' = retired
  <2> USE DEF parse_vars, input_vars
  <2>1. CASE UseStartOfLog
    BY <1>1, <1>4, <2>1 DEF UseStartOfLog
  <2>2. CASE GetNextSymbol
    BY <1>1, <2>2 DEF GetNextSymbol
  <2>3. CASE FirstTokenNewline
    <3>1. tok \in PlacedTokens /\ NewlineOf(tok) \in PlacedTokens
      BY <1>1, <2>3, PlacedParts DEF FirstTokenNewline
    <3>2. QED
      BY <1>3, <1>5, <2>3, <3>1 DEF FirstTokenNewline
  <2>4. CASE FirstToken
    BY <1>1, <1>4, <2>4 DEF FirstToken
  <2>5. CASE NextTokenEnd
    BY <1>1, <2>5 DEF NextTokenEnd, Finish
  <2>6. CASE NextTokenNewline
    BY <1>1, <1>3, <2>6 DEF NextTokenNewline
  <2>7. CASE NextTokenStart
    <3>1. tok \in PlacedTokens /\ NewlineOf(tok) \in PlacedTokens
      BY <1>1, <2>7, PlacedParts DEF NextTokenStart
    <3>2. QED
      BY <1>1, <1>3, <1>5, <2>7, <3>1 DEF NextTokenStart
  <2>8. CASE NextToken
    BY <1>1, <1>3, <2>8 DEF NextToken
  <2>9. QED
    BY <2>1, <2>2, <2>3, <2>4, <2>5, <2>6, <2>7, <2>8 DEF Parse
<1>7. QED
  BY <1>1, <1>6 DEF ViewTypeInv

LEMMA EmptyViewType ==
  /\ out_reset \in [ has_header : BOOLEAN, started : BOOLEAN,
                     slot0 : PlacedTokens \cup {NoToken}, rest : Seq(PlacedTokens) ]
  /\ ~out_reset.has_header
BY DEF out_reset

LEMMA NextViewType == TypeInv /\ ViewTypeInv /\ [Next]_vars => ViewTypeInv'
<1> SUFFICES ASSUME TypeInv, ViewTypeInv, [Next]_vars PROVE ViewTypeInv'
  OBVIOUS
<1>1. CASE ResetAndSetReader
  <2>1. retired' = << >> /\ out' = out_reset /\ start_of_log' = start_of_log /\ pc' = "ready"
    BY <1>1 DEF ResetAndSetReader, ResetTo
  <2>2. QED
    BY <2>1, EmptyViewType DEF ViewTypeInv
<1>2. CASE ParseNextEvent
  <2>1. retired' = retired /\ out' = out_reset /\ start_of_log' = start_of_log
        /\ pc' \in {"parse", "failed"}
    BY <1>2 DEF ParseNextEvent
  <2>2. QED
    BY <2>1, EmptyViewType DEF ViewTypeInv
<1>3. CASE IncreaseCapacity
  <2>1. retired' = Append(retired, buf.storage) /\ UNCHANGED <<out, start_of_log>>
        /\ pc' \in {"parse", "failed"}
    BY <1>3 DEF IncreaseCapacity
  <2>2. buf.storage \in Storages
    <3>1. buf.size \in Nat /\ buf.storage \in [0 .. buf.size - 1 -> Unset .. read_off - 1]
      BY DEF TypeInv, StorageOf
    <3>2. buf.storage \in [0 .. buf.size - 1 -> Int]
      BY <3>1 DEF TypeInv, Unset
    <3>3. QED
      BY <3>1, <3>2 DEF Storages
  <2>3. QED
    BY <2>1, <2>2 DEF ViewTypeInv
<1>4. CASE UNCHANGED vars
  BY <1>4 DEF vars, history, ViewTypeInv
<1>5. QED
  BY <1>1, <1>2, <1>3, <1>4, ScanView, ParseView DEF Next

LEMMA InitViewType == Init => ViewTypeInv
BY EmptyViewType DEF Init, ViewTypeInv

\* The tokens of the view.
LEMMA ViewTokens ==
  ASSUME ViewTypeInv
  PROVE  /\ EventTokens \in Seq(PlacedTokens)
         /\ Len(EventTokens) \in Nat /\ DOMAIN EventTokens = 1 .. Len(EventTokens)
         /\ \A k \in 1 .. Len(EventTokens) :
              EventTokens[k] \in PlacedTokens /\ TokenLength(EventTokens[k]) \in Nat
<1>1. /\ out.rest \in Seq(PlacedTokens)
      /\ out.has_header => out.slot0 \in PlacedTokens
  BY DEF ViewTypeInv
<1>2. EventTokens \in Seq(PlacedTokens)
  BY <1>1 DEF EventTokens
<1>3. /\ Len(EventTokens) \in Nat /\ DOMAIN EventTokens = 1 .. Len(EventTokens)
      /\ \A k \in 1 .. Len(EventTokens) : EventTokens[k] \in PlacedTokens
  BY <1>2
<1>4. QED
  BY <1>2, <1>3, PlacedLength

-----------------------------------------------------------------------------
(***************************************************************************)
(* The text of an event and its copy.                                      *)
(***************************************************************************)

\* Tokens that follow each other from one offset to another are as long as
\* the text between them.
LEMMA ChainLength ==
  ASSUME TextInv, ViewTypeInv, "text" \in intact,
         NEW e, Ends(e, EventTokens),
         NEW k \in 1 .. Len(EventTokens)
  PROVE  /\ EndOffset(EventTokens[k]) = from + e[k]
         /\ TokenText(EventTokens[k])
              = [i \in 1 .. TokenLength(EventTokens[k]) |-> (from + e[k - 1]) + i - 1]
<1> DEFINE At(j) == /\ EndOffset(EventTokens[j]) = from + e[j]
                    /\ TokenText(EventTokens[j])
                         = [i \in 1 .. TokenLength(EventTokens[j]) |-> (from + e[j - 1]) + i - 1]
<1> DEFINE S == {j \in Nat : j # 0 /\ j <= Len(EventTokens) => At(j)}
<1>1. /\ Chain(retired, buf, EventTokens, from)
      /\ from \in Nat
  BY DEF TextInv, ViewInv, SeamInv, Chain
<1>2. Len(EventTokens) \in Nat
  BY ViewTokens
<1>3. \A t : EndOffset(t) = EndIn(retired, buf, t)
  BY DEF EndOffset, EndIn, TokenByte, ByteIn
<1>4. ASSUME NEW j \in 1 .. Len(EventTokens),
             NEW a, a = IF j = 1 THEN from ELSE EndOffset(EventTokens[j - 1]),
             a = from + e[j - 1]
      PROVE  At(j)
  <2>1. Spells(retired, buf, EventTokens[j], a)
    BY <1>1, <1>3, <1>4 DEF Chain
  <2>2. /\ TokenText(EventTokens[j]) = [i \in 1 .. TokenLength(EventTokens[j]) |-> a + i - 1]
        /\ EndOffset(EventTokens[j]) = a + TokenLength(EventTokens[j])
    BY <1>3, <2>1, SpelledText DEF Spells
  <2>3. j - 1 \in 0 .. Len(EventTokens) /\ j \in 0 .. Len(EventTokens)
    BY <1>2
  <2>4. e[j] = e[j - 1] + TokenLength(EventTokens[j]) /\ e[j - 1] \in Nat
        /\ TokenLength(EventTokens[j]) \in Nat
    BY <2>3, ViewTokens DEF Ends
  <2>5. from + (e[j - 1] + TokenLength(EventTokens[j])) = (from + e[j - 1]) + TokenLength(EventTokens[j])
    BY <1>1, <2>4
  <2>6. QED
    BY <1>4, <2>2, <2>4, <2>5
<1> HIDE DEF At
<1>5. 0 \in S
  OBVIOUS
<1>6. ASSUME NEW j \in Nat, j \in S PROVE j + 1 \in S
  <2>1. SUFFICES ASSUME j + 1 <= Len(EventTokens) PROVE At(j + 1)
    BY <1>6
  <2>2. j + 1 \in 1 .. Len(EventTokens) /\ (j + 1) - 1 = j
    BY <1>2, <2>1
  <2>3. CASE j = 0
    <3>1. e[0] = 0 /\ from + 0 = from
      BY <1>1 DEF Ends
    <3>2. QED
      BY <1>4, <2>2, <2>3, <3>1
  <2>4. CASE j # 0
    <3>1. j <= Len(EventTokens) /\ j + 1 # 1
      BY <1>2, <2>1, <2>4
    <3>2. At(j)
      BY <1>6, <2>4, <3>1
    <3>3. EndOffset(EventTokens[j]) = from + e[j]
      BY <3>2 DEF At
    <3>4. QED
      BY <1>4, <2>2, <3>1, <3>3
  <2>5. QED
    BY <2>3, <2>4
<1>7. Nat \subseteq S
  <2> HIDE DEF S
  <2>1. QED
    BY <1>5, <1>6, SetInduction
<1>8. At(k)
  BY <1>2, <1>7
<1>9. QED
  BY <1>8 DEF At

\* The text of the view is that of the log between from and NextFrom.
LEMMA EventTextIsLog ==
  ASSUME TextInv, ViewTypeInv, "text" \in intact
  PROVE  /\ Len(EventText) = NextFrom - from
         /\ \A i \in 1 .. Len(EventText) : EventText[i] = from + i - 1
         /\ \E X : EventText \in Seq(X)
<1>1. PICK n, ts : n = Len(EventTokens) /\ ts = EventTokens
  OBVIOUS
<1>2. n \in Nat /\ \A k \in 1 .. n : TokenLength(ts[k]) \in Nat
  BY <1>1, ViewTokens
<1>3. PICK e : Ends(e, ts) /\ Splits(Concat(ts), e, ts)
  BY <1>1, <1>2, ConcatSplits
<1>4. PICK text : text = EventText /\ text = Concat(ts)
  BY <1>1 DEF EventText
<1>5. /\ Len(text) = e[n] /\ (\E X : text \in Seq(X))
      /\ e[0] = 0 /\ \A k \in 0 .. n : e[k] \in Nat
      /\ \A k \in 1 .. n : e[k] = e[k - 1] + TokenLength(ts[k])
  BY <1>1, <1>3, <1>4 DEF Splits, Ends
<1>6. from \in Nat
  BY DEF TextInv, SeamInv
<1>7. ASSUME NEW k \in 1 .. n, NEW j \in 1 .. TokenLength(ts[k])
      PROVE  text[e[k - 1] + j] = from + (e[k - 1] + j) - 1
  <2>1. text[e[k - 1] + j] = TokenText(ts[k])[j]
    BY <1>1, <1>3, <1>4 DEF Splits
  <2>2. TokenText(ts[k])[j] = (from + e[k - 1]) + j - 1
    <3>1. TokenText(ts[k]) = [i \in 1 .. TokenLength(ts[k]) |-> (from + e[k - 1]) + i - 1]
      BY <1>1, <1>3, ChainLength
    <3>2. QED
      BY <3>1
  <2>3. e[k - 1] \in Nat /\ TokenLength(ts[k]) \in Nat
    BY <1>2, <1>5
  <2>4. PICK a \in Nat, d \in Nat : a = e[k - 1] /\ d = j
    BY <1>2, <2>3
  <2>5. (from + a) + d - 1 = from + (a + d) - 1
    BY <1>6
  <2>6. QED
    BY <2>1, <2>2, <2>4, <2>5
<1>8. \A i \in 1 .. e[n] : text[i] = from + i - 1
  <2> DEFINE Good(k) == \A i \in 1 .. e[k] : text[i] = from + i - 1
  <2> DEFINE S == {k \in Nat : k <= n => Good(k)}
  <2>1. Good(0)
    BY <1>5
  <2>2. ASSUME NEW k \in Nat, k + 1 <= n, Good(k) PROVE Good(k + 1)
    <3>1. k + 1 \in 1 .. n /\ (k + 1) - 1 = k /\ k \in 0 .. n
      BY <1>2, <2>2
    <3>2. PICK a \in Nat, b \in Nat, l \in Nat :
            a = e[k] /\ b = e[k + 1] /\ l = TokenLength(ts[k + 1]) /\ b = a + l
      BY <1>2, <1>5, <3>1
    <3>3. ASSUME NEW i \in 1 .. b PROVE text[i] = from + i - 1
      <4>1. CASE i <= a
        <5>1. i \in 1 .. a
          BY <3>2, <4>1
        <5>2. QED
          BY <2>2, <3>2, <5>1
      <4>2. CASE ~(i <= a)
        <5>1. PICK j \in 1 .. l : a + j = i
          <6>1. i - a \in 1 .. l /\ a + (i - a) = i
            BY <3>2, <4>2
          <6>2. QED
            BY <6>1
        <5>2. text[a + j] = from + (a + j) - 1
          BY <1>7, <3>1, <3>2
        <5>3. QED
          BY <5>1, <5>2
      <4>3. QED
        BY <4>1, <4>2
    <3>4. QED
      BY <3>2, <3>3
  <2> HIDE DEF Good
  <2>3. 0 \in S
    BY <2>1
  <2>4. ASSUME NEW k \in Nat, k \in S PROVE k + 1 \in S
    BY <1>2, <2>2, <2>4
  <2>5. Nat \subseteq S
    <3> HIDE DEF S
    <3>1. QED
      BY <2>3, <2>4, SetInduction
  <2>6. Good(n)
    BY <1>2, <2>5
  <2>7. QED
    BY <2>6 DEF Good
<1>9. NextFrom = from + e[n]
  <2>1. CASE n = 0
    <3>1. ts = << >>
      BY <1>1, <2>1, ViewTokens
    <3>2. QED
      BY <1>1, <1>5, <1>6, <2>1, <3>1 DEF NextFrom
  <2>2. CASE n # 0
    <3>1. n \in 1 .. n /\ ts # << >>
      BY <1>1, <1>2, <2>2
    <3>2. EndOffset(ts[n]) = from + e[n]
      BY <1>1, <1>3, <3>1, ChainLength
    <3>3. QED
      BY <1>1, <3>1, <3>2 DEF NextFrom
  <2>3. QED
    BY <2>1, <2>2
<1>10. e[n] \in Nat
  BY <1>2, <1>5
<1>11. e[n] = NextFrom - from
  BY <1>6, <1>9, <1>10
<1>12. QED
  BY <1>4, <1>5, <1>8, <1>11

\* Whatever has happened to the text of an event, its deep copy has the same
\* variables and, if the event has a header, the same text; and an event without text
\* is the end of the log.  This holds for events of any number of tokens, which may
\* wrap and be spread over any number of storages.
THEOREM CopiesAreEvents == Spec => []CopyIsEvent
<1>1. ASSUME TypeInv, TextInv, ViewTypeInv, pc = "event", EventText = << >>, "text" \in intact
      PROVE  done
  <2>1. NextFrom - from = 0
    BY <1>1, EventTextIsLog
  <2>2. ~done => from < NextFrom
    BY <1>1 DEF TextInv, SeamInv
  <2>3. from \in Nat /\ NextFrom \in Int
    BY <1>1, SoundFacts DEF Sound
  <2>4. QED
    BY <2>1, <2>2, <2>3
<1>2. ASSUME ViewTypeInv
      PROVE  LET copy == deep_copy(EventTokens)
             IN /\ copy_variables(copy) = ViewVariables
                /\ out.has_header => copy_to_string(copy) = EventText
  <2>1. PICK n, ts, copy : n = Len(EventTokens) /\ ts = EventTokens /\ copy = deep_copy(ts)
    OBVIOUS
  <2>2. /\ n \in Nat /\ DOMAIN ts = 1 .. n /\ n = Len(ts)
        /\ \A k \in 1 .. n : TokenLength(ts[k]) \in Nat
    BY <1>2, <2>1, ViewTokens
  <2>3. PICK e : Ends(e, ts) /\ Splits(Concat(ts), e, ts)
    BY <2>2, ConcatSplits
  <2>4. \A k \in 1 .. n : copied_text(copy, k) = TokenText(ts[k])
    BY <2>1, <2>2, <2>3, CopiedText
  <2>5. DOMAIN copy.slots = 1 .. n /\ \A k \in 1 .. n : copy.slots[k].type = ts[k].type
    BY <2>1, <2>2, <2>3, CopySlots
  <2>6. copy_variables(copy) = ViewVariables
    BY <2>1, <2>2, <2>4, <2>5 DEF copy_variables, ViewVariables, IsVariable
  <2>7. out.has_header => copy_to_string(copy) = Concat(ts)
    BY <2>1, <2>2, <2>3, CopyString
  <2>8. QED
    BY <2>1, <2>6, <2>7 DEF EventText
<1>3. TypeInv /\ TextInv /\ ViewTypeInv => CopyIsEvent
  BY <1>1, <1>2 DEF CopyIsEvent
<1>4. QED
  BY <1>3, InitTypeInv, NextTypeInv, InitTextInv, NextTextInv, InitViewType, NextViewType,
     PTL DEF Spec

-----------------------------------------------------------------------------
(***************************************************************************)
(* The automaton of a schema whose rules are as LineRules says.            *)
(***************************************************************************)
LEMMA InnerClosed ==
  /\ Inner \subseteq DfaStates
  /\ \A c \in Chars \ {Newline} : Transition[Root][c] \in Inner \cup {Null}
  /\ \A s \in Inner, c \in Chars : Transition[s][c] \in Inner \cup {Null}
<1> DEFINE closed(B) ==
      /\ \A c \in Chars \ {Newline} : Transition[Root][c] \in B \cup {Null}
      /\ \A s \in B, c \in Chars : Transition[s][c] \in B \cup {Null}
<1>1. Inner = {s \in DfaStates : \A B \in SUBSET DfaStates : closed(B) => s \in B}
  BY DEF Inner
<1>2. Inner \subseteq DfaStates
  BY <1>1
<1>3. ASSUME NEW c \in Chars \ {Newline}, Transition[Root][c] # Null
      PROVE  Transition[Root][c] \in Inner
  <2>1. Transition[Root][c] \in DfaStates
    BY <1>3, SchemaAssumption
  <2>2. \A B \in SUBSET DfaStates : closed(B) => Transition[Root][c] \in B
    BY <1>3
  <2> HIDE DEF closed
  <2>3. QED
    BY <1>1, <2>1, <2>2
<1>4. ASSUME NEW s \in Inner, NEW c \in Chars, Transition[s][c] # Null
      PROVE  Transition[s][c] \in Inner
  <2>1. Transition[s][c] \in DfaStates
    BY <1>2, <1>4, SchemaAssumption
  <2>2. \A B \in SUBSET DfaStates : closed(B) => s \in B
    BY <1>1
  <2>3. \A B \in SUBSET DfaStates : closed(B) => Transition[s][c] \in B
    BY <1>4, <2>2
  <2> HIDE DEF closed
  <2>4. QED
    BY <1>1, <2>1, <2>3
<1>5. QED
  BY <1>2, <1>3, <1>4

LEMMA LineStartState == LineStart \in DfaStates /\ TypeIds[LineStart] = TokenNewline
BY SchemaAssumption DEF LineStart

\* A rule that begins with another delimiter is neither a header nor just '\n'.
LEMMA InnerTypes ==
  ASSUME LineRules
  PROVE  /\ Root \notin Inner
         /\ \A f \in Inner : TypeIds[f] \notin {TokenHeader, TokenNewline}
<1>1. LineStart \notin Inner /\ Root \notin Inner
  <2>1. PICK B \in SUBSET DfaStates : B = DfaStates \ {LineStart, Root}
    OBVIOUS
  <2>2. /\ \A d \in Chars \ {Newline} : Transition[Root][d] \in B \cup {Null}
        /\ \A f \in B, d \in Chars : Transition[f][d] \in B \cup {Null}
    <3>1. ASSUME NEW f \in DfaStates, NEW d \in Chars, f # Root \/ d # Newline
          PROVE  Transition[f][d] \in B \cup {Null}
      BY <2>1, <3>1, SchemaAssumption DEF LineRules, LineStart
    <3>2. QED
      BY <2>1, <3>1, SchemaAssumption
  <2>3. QED
    BY <2>1, <2>2 DEF Inner
<1>2. QED
  BY <1>1, InnerClosed DEF LineRules, LineStart

\* A run that has begun is not back at the root, and matches just '\n' only at once.
LEMMA RunAway ==
  ASSUME LineRules, log \in Seq(Chars), NEW s \in DfaStates \ {Root},
         NEW i \in Nat, NEW j \in Nat, i <= j, j <= Len(log)
  PROVE  /\ Run(s, i, j) \in (DfaStates \ {Root}) \cup {Null}
         /\ i < j => Run(s, i, j) # LineStart
<1>1. Run(s, i, j) \in DfaStates \cup {Null}
  BY RunStates
<1>2. /\ i < j => Run(s, i, j) # LineStart /\ Run(s, i, j) # Root
  <2>1. SUFFICES ASSUME i < j PROVE Run(s, i, j) # LineStart /\ Run(s, i, j) # Root
    OBVIOUS
  <2>2. PICK k \in Nat : j = k + 1 /\ i <= k /\ k <= Len(log)
    <3>1. j - 1 \in Nat /\ j = (j - 1) + 1 /\ i <= j - 1 /\ j - 1 <= Len(log)
      BY <2>1
    <3>2. QED
      BY <3>1
  <2>3. Run(s, i, j) = After(Run(s, i, k), k + 1)
    BY <2>2, RunSteps
  <2>4. Run(s, i, k) \in DfaStates \cup {Null}
    BY <2>2, RunStates
  <2>5. log[k + 1] \in Chars
    BY <2>2
  <2>6. LineStart # Null /\ Root # Null
    BY SchemaAssumption, LineStartState
  <2>8. CASE Run(s, i, k) = Null
    BY <2>3, <2>6, <2>8 DEF After
  <2>9. CASE Run(s, i, k) # Null
    <3>1. Run(s, i, j) = Transition[Run(s, i, k)][log[k + 1]]
      BY <2>3, <2>9 DEF After
    <3>2. Run(s, i, j) # Root
      BY <2>4, <2>5, <2>9, <3>1 DEF LineRules
    <3>3. Run(s, i, k) # Root
      <4>1. CASE i = k
        BY <4>1, RunSteps
      <4>2. CASE i < k
        <5>1. PICK h \in Nat : k = h + 1 /\ i <= h /\ h <= Len(log)
          <6>1. k - 1 \in Nat /\ k = (k - 1) + 1 /\ i <= k - 1 /\ k - 1 <= Len(log)
            BY <2>2, <4>2
          <6>2. QED
            BY <6>1
        <5>2. Run(s, i, k) = After(Run(s, i, h), h + 1)
          BY <5>1, RunSteps
        <5>3. Run(s, i, h) \in DfaStates \cup {Null}
          BY <5>1, RunStates
        <5>4. log[h + 1] \in Chars
          BY <2>2, <5>1
        <5>5. QED
          BY <5>2, <5>3, <5>4, <2>6 DEF After, LineRules
      <4>3. QED
        BY <2>2, <4>1, <4>2
    <3>4. QED
      BY <2>4, <2>5, <2>9, <3>1, <3>2, <3>3 DEF LineRules, LineStart
  <2>10. QED
    BY <2>8, <2>9
<1>3. i = j => Run(s, i, j) # Root
  BY RunSteps
<1>4. QED
  BY <1>1, <1>2, <1>3

-----------------------------------------------------------------------------
(***************************************************************************)
(* What a rule matches from an offset on.                                  *)
(***************************************************************************)
LEMMA LongestMatch ==
  ASSUME NEW s, NEW i \in Nat, NEW m \in MatchEnds(s, i),
         \A j \in MatchEnds(s, i) : j <= m
  PROVE  MatchType(s, i) = TypeIds[Run(s, i, m)]
<1>1. \A j \in MatchEnds(s, i) : j \in Int
  BY DEF MatchEnds
<1>2. MatchEnd(s, i) = m
  BY <1>1 DEF MatchEnd
<1>3. QED
  BY <1>2 DEF MatchType

LEMMA NoMatch ==
  ASSUME NEW s, NEW i, MatchEnds(s, i) = {}
  PROVE  MatchType(s, i) = NoType
BY DEF MatchType

\* The start of the file is not the start of a line.
LEMMA NoHeaderAtNewline ==
  ASSUME LinesApart, log \in Seq(Chars), Len(log) > 0, log[1] = Newline
  PROVE  ~HeaderAt(0)
<1>1. MatchEnds(StartOfFile, 0) = {}
  <2>1. SUFFICES ASSUME NEW j \in MatchEnds(StartOfFile, 0) PROVE FALSE
    OBVIOUS
  <2>2. j \in Nat /\ is_accepting(Run(StartOfFile, 0, j)) /\ NoNewline(0, j)
    BY <2>1 DEF MatchEnds, LinesApart
  <2>3. CASE j = 0
    <3>1. Run(StartOfFile, 0, 0) = StartOfFile
      BY RunSteps
    <3>2. QED
      BY <2>2, <2>3, <3>1, RulesAssumption DEF is_accepting
  <2>4. CASE j > 0
    BY <2>2, <2>4 DEF NoNewline
  <2>5. QED
    BY <2>2, <2>3, <2>4
<1>2. QED
  BY <1>1, NoMatch DEF HeaderAt, NoType, TokenHeader

\* Lexer x, at offset p and with its last match up to m, becomes y, with n, when it has
\* noted a match that ends here.
Marks(x, y, p, m, n) ==
  LET here == (p = Len(log) \/ log[p + 1] \in Delims) /\ is_accepting(x.state)
  IN /\ y.match <=> x.match \/ here
     /\ here => n = p /\ y.type = TypeIds[x.state]
     /\ ~here => n = m /\ y.type = x.type

\* An end of a rule that the lexer passes is noted.
LEMMA NotedPast ==
  ASSUME NEW s, NEW i \in Nat, NEW p \in Nat, i <= p, p <= Len(log),
         NEW x, NEW m, Noted(x, s, i, p, m), x.match => m \in Nat /\ m <= p,
         x.state = Run(s, i, p), NEW y, NEW n, Marks(x, y, p, m, n)
  PROVE  /\ \A j \in MatchEnds(s, i) : j <= p => y.match /\ j <= n
         /\ y.match => y.type = TypeIds[Run(s, i, n)] /\ (n = i \/ n \in MatchEnds(s, i))
<1> DEFINE here == (p = Len(log) \/ log[p + 1] \in Delims) /\ is_accepting(x.state)
<1>1. p \in MatchEnds(s, i) <=> here
  BY DEF MatchEnds
<1>2. \A j \in MatchEnds(s, i) : j \in Nat
  BY DEF MatchEnds
<1>3. CASE here
  BY <1>1, <1>2, <1>3 DEF Noted, Marks
<1>4. CASE ~here
  <2>1. \A j \in MatchEnds(s, i) : j <= p => j < p
    BY <1>1, <1>2, <1>4
  <2>2. QED
    BY <1>4, <2>1 DEF Noted, Marks
<1>5. QED
  BY <1>3, <1>4

\* When the automaton can go no further, what was noted last is the longest match.
LEMMA NotedLast ==
  ASSUME NEW s, NEW i \in Nat, NEW p \in Nat, i <= p, p <= Len(log), Len(log) \in Nat,
         p = Len(log) \/ Run(s, i, p + 1) = Null,
         NEW y, NEW n,
         \A j \in MatchEnds(s, i) : j <= p => y.match /\ j <= n
  PROVE  \A j \in MatchEnds(s, i) : y.match /\ j <= n
<1>1. SUFFICES ASSUME NEW j \in MatchEnds(s, i), j > p PROVE FALSE
  BY DEF MatchEnds
<1>2. j \in Nat /\ j <= Len(log) /\ is_accepting(Run(s, i, j))
  BY DEF MatchEnds
<1>3. Run(s, i, p + 1) = Null /\ p + 1 \in Nat /\ i <= p + 1 /\ p + 1 <= j
  BY <1>1, <1>2
<1>4. Run(s, i, j) = Null
  BY <1>2, <1>3, RunStuck
<1>5. QED
  BY <1>2, <1>4 DEF is_accepting

-----------------------------------------------------------------------------
(***************************************************************************)
(* One character of the main loop.                                         *)
(***************************************************************************)

\* Lexer x, at offset p and with its last match up to m, becomes y, with n, when it has
\* seen character c, before it moves on.
Sees(x, y, c, p, m, n) ==
  LET here == (c \in Delims \/ c = CharEOF) /\ is_accepting(x.state)
  IN /\ c = IF p = Len(log) THEN CharEOF ELSE log[p + 1]
     /\ y.match <=> x.match \/ here
     /\ here => n = p /\ y.type = TypeIds[x.state]
     /\ ~here => n = m /\ y.type = x.type
     /\ y.state = IF x.state = Null \/ c = CharEOF THEN Null ELSE Transition[x.state][c]

\* Where it stands in the log.
Within(x, l, s, p, m) ==
  /\ log \in Seq(Chars)
  /\ l \in Nat /\ s \in Nat /\ p \in Nat
  /\ l <= s /\ s <= p /\ p <= Len(log)
  /\ x.match \in BOOLEAN
  /\ x.match => m \in Nat /\ s < m /\ m <= p
  /\ x.state \in DfaStates \cup {Null}

LEMMA SeesMarks ==
  ASSUME NEW x, NEW l, NEW s, NEW p, NEW m, Within(x, l, s, p, m),
         NEW y, NEW n, NEW c, Sees(x, y, c, p, m, n)
  PROVE  Marks(x, y, p, m, n)
<1>1. Len(log) \in Nat /\ p \in Nat /\ p <= Len(log)
      /\ (p # Len(log) => log[p + 1] \in Chars)
  BY DEF Within
<1>2. c \in Delims \/ c = CharEOF <=> p = Len(log) \/ log[p + 1] \in Delims
  BY <1>1, SchemaAssumption DEF Sees
<1>3. QED
  BY <1>2 DEF Sees, Marks

\* A rule goes on with the character.
LEMMA SeesRun ==
  ASSUME NEW x, NEW l, NEW s, NEW p, NEW m, Within(x, l, s, p, m),
         NEW y, NEW n, NEW c, Sees(x, y, c, p, m, n), p < Len(log),
         NEW f, NEW i \in Nat, i <= p, x.state = Run(f, i, p)
  PROVE  c = log[p + 1] /\ c \in Chars /\ y.state = Run(f, i, p + 1)
<1>1. Len(log) \in Nat /\ p \in Nat /\ p # Len(log) /\ log[p + 1] \in Chars
  BY DEF Within
<1>2. c = log[p + 1] /\ c # CharEOF
  BY <1>1, SchemaAssumption DEF Sees
<1>3. Run(f, i, p + 1) = After(Run(f, i, p), p + 1)
  BY <1>1, RunSteps
<1>4. QED
  BY <1>1, <1>2, <1>3 DEF Sees, After

\* The lexer has found the longest match of the rule, or that there is none.
LEMMA SeesLast ==
  ASSUME NEW x, NEW l, NEW s, NEW p, NEW m, Within(x, l, s, p, m),
         NEW y, NEW n, NEW c, Sees(x, y, c, p, m, n),
         NEW f, NEW i \in Nat, i <= p, x.state = Run(f, i, p), Noted(x, f, i, p, m),
         p = Len(log) \/ y.state = Null
  PROVE  /\ \A j \in MatchEnds(f, i) : y.match /\ j <= n
         /\ y.match => y.type = TypeIds[Run(f, i, n)] /\ (n = i \/ n \in MatchEnds(f, i))
<1>1. Len(log) \in Nat /\ p \in Nat /\ p <= Len(log) /\ (x.match => m \in Nat /\ m <= p)
  BY DEF Within
<1>2. Marks(x, y, p, m, n)
  BY SeesMarks
<1>3. /\ \A j \in MatchEnds(f, i) : j <= p => y.match /\ j <= n
      /\ y.match => y.type = TypeIds[Run(f, i, n)] /\ (n = i \/ n \in MatchEnds(f, i))
  BY <1>1, <1>2, NotedPast
<1>4. p = Len(log) \/ Run(f, i, p + 1) = Null
  BY <1>1, SeesRun
<1>5. QED
  BY <1>1, <1>3, <1>4, NotedLast

\* ... or goes on, with what it has noted.
LEMMA SeesMore ==
  ASSUME NEW x, NEW l, NEW s, NEW p, NEW m, Within(x, l, s, p, m),
         NEW y, NEW n, NEW c, Sees(x, y, c, p, m, n), p < Len(log),
         NEW f, NEW i \in Nat, i <= p, x.state = Run(f, i, p), Noted(x, f, i, p, m)
  PROVE  y.state = Run(f, i, p + 1) /\ Noted(y, f, i, p + 1, n)
<1>1. Len(log) \in Nat /\ p \in Nat /\ p <= Len(log) /\ (x.match => m \in Nat /\ m <= p)
  BY DEF Within
<1>2. Marks(x, y, p, m, n)
  BY SeesMarks
<1>3. /\ \A j \in MatchEnds(f, i) : j <= p => y.match /\ j <= n
      /\ y.match => y.type = TypeIds[Run(f, i, n)] /\ (n = i \/ n \in MatchEnds(f, i))
  BY <1>1, <1>2, NotedPast
<1>4. \A j \in MatchEnds(f, i) : j < p + 1 => j <= p
  BY <1>1 DEF MatchEnds
<1>5. Noted(y, f, i, p + 1, n)
  BY <1>3, <1>4 DEF Noted
<1>6. QED
  BY <1>5, SeesRun

\* A rule that begins behind character k does not match beyond a '\n'.
LEMMA MatchApart ==
  ASSUME LinesApart, NEW k \in 1 .. Len(log), NEW n \in Nat,
         n = k \/ n \in MatchEnds(Transition[Root][log[k]], k)
  PROVE  NoNewline(k, n)
<1>1. CASE n = k
  BY <1>1 DEF NoNewline
<1>2. CASE n \in MatchEnds(Transition[Root][log[k]], k)
  BY <1>2 DEF LinesApart
<1>3. QED
  BY <1>1, <1>2

\* The match that is returned is a token as LineToken says.
LEMMA FileStartToken ==
  ASSUME LineRules, LinesApart, NEW x, NEW l, NEW s, NEW p, NEW m, Within(x, l, s, p, m),
         AtFileStart(x, s, p, m),
         NEW y, NEW n, NEW c, Sees(x, y, c, p, m, n), p = Len(log) \/ y.state = Null
  PROVE  IF y.match THEN s < n /\ n <= p /\ LineToken(s, n, y.type) ELSE ~HeaderAt(0)
<1>1. /\ log \in Seq(Chars) /\ Len(log) \in Nat /\ p \in Nat /\ p <= Len(log) /\ 0 <= p
      /\ (x.match => m \in Nat /\ s < m /\ m <= p) /\ s = 0
  BY DEF Within, AtFileStart
<1>2. x.state = Run(StartOfFile, 0, p) /\ Noted(x, StartOfFile, 0, p, m)
  BY DEF AtFileStart
<1>3. StartOfFile \in DfaStates \ {Root} /\ TypeIds[StartOfFile] = NoType
  BY SchemaAssumption, RulesAssumption DEF LineRules
<1>4. /\ \A j \in MatchEnds(StartOfFile, 0) : y.match /\ j <= n
      /\ y.match => /\ y.type = TypeIds[Run(StartOfFile, 0, n)]
                    /\ n = 0 \/ n \in MatchEnds(StartOfFile, 0)
  BY <1>1, <1>2, SeesLast
<1>5. CASE ~y.match
  <2>1. MatchEnds(StartOfFile, 0) = {}
    BY <1>4, <1>5
  <2>2. QED
    BY <1>5, <2>1, NoMatch DEF HeaderAt, NoType, TokenHeader
<1>6. CASE y.match
  <2>1. n \in Nat /\ 0 < n /\ n <= p
    <3>1. Marks(x, y, p, m, n)
      BY SeesMarks
    <3>2. p = 0 => ~is_accepting(x.state)
      BY <1>2, <1>3, RunSteps DEF is_accepting
    <3>3. QED
      BY <1>1, <1>6, <3>1, <3>2 DEF Marks
  <2>2. n \in MatchEnds(StartOfFile, 0)
    BY <1>4, <1>6, <2>1
  <2>3. MatchType(StartOfFile, 0) = y.type
    BY <1>4, <1>6, <2>2, LongestMatch
  <2>4. HeaderAt(0) <=> y.type = TokenHeader
    BY <1>1, <2>1, <2>3 DEF HeaderAt
  <2>5. y.type # TokenNewline
    <3>1. Run(StartOfFile, 0, n) \in DfaStates \cup {Null} /\ Run(StartOfFile, 0, n) # LineStart
      BY <1>1, <1>3, <2>1, RunAway
    <3>2. Run(StartOfFile, 0, n) # Null
      BY <2>2 DEF MatchEnds, is_accepting
    <3>3. QED
      BY <1>4, <1>6, <3>1, <3>2 DEF LineRules, LineStart
  <2>6. \A i \in 1 .. n : log[i] # Newline
    BY <2>1, <2>2 DEF LinesApart, NoNewline
  <2>7. LineToken(s, n, y.type)
    BY <1>1, <2>1, <2>4, <2>5, <2>6 DEF LineToken, NoNewline
  <2>8. QED
    BY <1>1, <1>6, <2>1, <2>7
<1>7. QED
  BY <1>5, <1>6

LEMMA LineStartToken ==
  ASSUME LineRules, LinesApart, NEW x, NEW l, NEW s, NEW p, NEW m, Within(x, l, s, p, m),
         AtLineStart(x, l, s, p, m),
         NEW y, NEW n, NEW c, Sees(x, y, c, p, m, n), p = Len(log) \/ y.state = Null
  PROVE  y.match /\ s < n /\ n <= p /\ LineToken(s, n, y.type)
<1>1. /\ log \in Seq(Chars) /\ Len(log) \in Nat /\ p \in Nat /\ p <= Len(log)
      /\ s \in Nat /\ s + 1 \in Nat /\ s + 1 <= p
      /\ m \in Nat /\ s < m /\ m <= p
  BY DEF Within, AtLineStart
<1>2. /\ x.state = Run(LineStart, s + 1, p) /\ Noted(x, LineStart, s + 1, p, m)
      /\ x.match /\ log[s + 1] = Newline
  BY DEF AtLineStart
<1>3. LineStart \in DfaStates \ {Root} /\ TypeIds[LineStart] = TokenNewline
  BY LineStartState, SchemaAssumption DEF LineRules, LineStart
<1>4. /\ \A j \in MatchEnds(LineStart, s + 1) : y.match /\ j <= n
      /\ y.match => /\ y.type = TypeIds[Run(LineStart, s + 1, n)]
                    /\ n = s + 1 \/ n \in MatchEnds(LineStart, s + 1)
  BY <1>1, <1>2, SeesLast
<1>5. y.match /\ n \in Nat /\ s < n /\ n <= p
  BY <1>1, <1>2, SeesMarks DEF Marks
<1>6. y.type = TokenNewline <=> n = s + 1
  <2>1. CASE n = s + 1
    BY <1>1, <1>3, <1>4, <1>5, <2>1, RunSteps
  <2>2. CASE n # s + 1
    <3>1. n \in MatchEnds(LineStart, s + 1) /\ s + 1 < n
      BY <1>1, <1>4, <1>5, <2>2
    <3>2. /\ Run(LineStart, s + 1, n) \in DfaStates \cup {Null}
          /\ Run(LineStart, s + 1, n) # LineStart
      BY <1>1, <1>3, <1>5, <3>1, RunAway
    <3>3. Run(LineStart, s + 1, n) # Null
      BY <3>1 DEF MatchEnds, is_accepting
    <3>4. QED
      BY <1>4, <1>5, <2>2, <3>2, <3>3 DEF LineRules, LineStart
  <2>3. QED
    BY <2>1, <2>2
<1>7. HeaderAt(s + 1) <=> y.type = TokenHeader
  <2>1. HeaderAt(s + 1) <=> s + 1 < Len(log) /\ MatchType(LineStart, s + 1) = TokenHeader
    BY <1>1, <1>2 DEF HeaderAt, LineStart
  <2>2. CASE n \in MatchEnds(LineStart, s + 1)
    <3>1. MatchType(LineStart, s + 1) = y.type
      BY <1>1, <1>4, <1>5, <2>2, LongestMatch
    <3>2. y.type = TokenHeader => s + 1 < n
      BY <1>1, <1>5, <1>6 DEF TokenHeader, TokenNewline
    <3>3. QED
      BY <1>1, <1>5, <2>1, <3>1, <3>2
  <2>3. CASE n \notin MatchEnds(LineStart, s + 1)
    <3>1. n = s + 1 /\ y.type = TokenNewline
      BY <1>4, <1>5, <1>6, <2>3
    <3>2. \A j \in MatchEnds(LineStart, s + 1) : j \in Nat /\ s + 1 <= j
      BY <1>1 DEF MatchEnds
    <3>3. MatchEnds(LineStart, s + 1) = {}
      BY <1>1, <1>4, <2>3, <3>1, <3>2
    <3>4. QED
      BY <2>1, <3>1, <3>3, NoMatch DEF NoType, TokenHeader, TokenNewline
  <2>4. QED
    BY <2>2, <2>3
<1>8. NoNewline(s + 1, n)
  BY <1>1, <1>4, <1>5, MatchApart, <1>2 DEF LineStart
<1>9. QED
  BY <1>2, <1>5, <1>6, <1>7, <1>8 DEF LineToken

LEMMA InsideToken ==
  ASSUME LineRules, LinesApart, NEW x, NEW l, NEW s, NEW p, NEW m, Within(x, l, s, p, m),
         InsideLine(x, l, s, p, m),
         NEW y, NEW n, NEW c, Sees(x, y, c, p, m, n), y.match, p = Len(log) \/ y.state = Null
  PROVE  s < n => n <= p /\ LineToken(s, n, y.type)
<1>1. /\ Len(log) \in Nat /\ p \in Nat /\ s \in Nat /\ l \in Nat /\ l <= s /\ s <= p
      /\ p <= Len(log)
      /\ (x.match => m \in Nat /\ m <= p)
  BY DEF Within
<1>2. l = 0 => ~HeaderAt(0)
  BY DEF InsideLine
<1>3. n \in Nat /\ n <= p
  BY <1>1, SeesMarks DEF Marks
<1>4. y.type \notin {TokenHeader, TokenNewline}
  BY InnerTypes, RulesAssumption, SeesMarks
  DEF InsideLine, Marks, is_accepting, NoType, TokenHeader, TokenNewline
<1>5. x.state # Root
  BY RulesAssumption, SeesMarks DEF InsideLine, Marks, is_accepting
<1>6. PICK d \in s .. p - 1 : Tries(x, s, d, p, m)
  BY <1>5 DEF InsideLine
<1>7. PICK f : f = Transition[Root][log[d + 1]]
  OBVIOUS
<1>8. d + 1 \in Nat /\ d + 1 <= p /\ d + 1 \in 1 .. Len(log) /\ s <= d
  BY <1>1
<1>9. /\ NoNewline(s, d + 1)
      /\ x.state = Run(f, d + 1, p) /\ Noted(x, f, d + 1, p, m)
  BY <1>6, <1>7 DEF Tries
<1>10. n = d + 1 \/ n \in MatchEnds(f, d + 1)
  BY <1>8, <1>9, SeesLast
<1>11. NoNewline(d + 1, n)
  BY <1>3, <1>7, <1>8, <1>10, MatchApart
<1>12. NoNewline(s, n)
  BY <1>1, <1>3, <1>8, <1>9, <1>11 DEF NoNewline
<1>13. QED
  BY <1>1, <1>2, <1>3, <1>4, <1>12 DEF LineToken, NoNewline

\* A match is returned, with the text before it first.
LEMMA ReturnedLine ==
  ASSUME LineRules, LinesApart, NEW x, NEW l, NEW s, NEW p, NEW m, Within(x, l, s, p, m),
         NEW f, LineState(x, l, s, p, m, f),
         NEW y, NEW n, NEW c, Sees(x, y, c, p, m, n), y.match, s < n,
         p = Len(log) \/ y.state = Null
  PROVE  /\ LineToken(s, n, y.type)
         /\ l < s => LineToken(l, s, TokenUncaughtString)
<1>1. LineToken(s, n, y.type)
  BY FileStartToken, LineStartToken, InsideToken DEF LineState
<1>2. l \in Nat /\ s \in Nat
  BY DEF Within
<1>3. NoNewline(l, s)
  BY DEF LineState
<1>4. l < s => (l = 0 => ~HeaderAt(0))
  BY <1>2 DEF LineState, AtFileStart, AtLineStart, InsideLine
<1>5. QED
  BY <1>1, <1>2, <1>3, <1>4
  DEF LineToken, NoNewline, TokenUncaughtString, TokenHeader, TokenNewline

\* The first delimiter, at offset f in lexer x, is at g in y, which has seen character c
\* at offset p.
Delimits(x, y, c, l, p, f, g) ==
  /\ x.first_delim # Unset => y.first_delim # Unset /\ g = f
  /\ x.first_delim = Unset /\ y.first_delim # Unset => g = p
  /\ y.first_delim = Unset /\ c \in Delims => p = l

\* Nothing has matched, and nothing will before the first delimiter, or this '\n'.
LEMMA UnmatchedLine ==
  ASSUME LineRules, LinesApart, NEW x, NEW l, NEW s, NEW p, NEW m, Within(x, l, s, p, m),
         NEW f, LineState(x, l, s, p, m, f),
         NEW y, NEW n, NEW c, Sees(x, y, c, p, m, n), ~y.match,
         NEW g, Delimits(x, y, c, l, p, f, g),
         p = Len(log) \/ y.state = Null \/ (c = Newline /\ x.first_delim = Unset)
  PROVE  /\ NoNewline(l, IF y.first_delim = Unset THEN p ELSE g)
         /\ x.first_delim = Unset => NoNewline(l, p)
         /\ l = 0 => ~HeaderAt(0)
<1>1. /\ log \in Seq(Chars) /\ Len(log) \in Nat /\ l \in Nat /\ s \in Nat /\ p \in Nat
      /\ l <= s /\ s <= p /\ p <= Len(log)
      /\ (x.match => m \in Nat /\ m <= p)
  BY DEF Within
<1>2. ~AtLineStart(x, l, s, p, m)
  BY SeesMarks DEF Marks, AtLineStart
<1>3. CleanUpTo(x, l, p, f)
  BY <1>2 DEF LineState
<1>4. /\ NoNewline(l, IF y.first_delim = Unset THEN p ELSE g)
      /\ x.first_delim = Unset => NoNewline(l, p)
  BY <1>3 DEF CleanUpTo, Delimits
<1>5. ASSUME l = 0 PROVE ~HeaderAt(0)
  <2>1. CASE InsideLine(x, l, s, p, m)
    BY <1>5, <2>1 DEF InsideLine
  <2>2. CASE AtFileStart(x, s, p, m)
    <3>1. CASE p = Len(log) \/ y.state = Null
      BY <2>2, <3>1, FileStartToken
    <3>2. CASE p < Len(log) /\ c = Newline
      <4>1. /\ x.state = Run(StartOfFile, 0, p) /\ Noted(x, StartOfFile, 0, p, m)
            /\ 0 <= p
        BY <1>1, <2>2 DEF AtFileStart
      <4>2. log[p + 1] = Newline
        BY <1>1, <3>2 DEF Sees
      <4>3. \A j \in MatchEnds(StartOfFile, 0) : ~(j <= p)
        BY <1>1, <4>1, SeesMarks, NotedPast
      <4>4. \A j \in MatchEnds(StartOfFile, 0) : j \in Nat /\ NoNewline(0, j)
        BY DEF MatchEnds, LinesApart
      <4>5. \A j \in MatchEnds(StartOfFile, 0) : j <= p
        BY <1>1, <4>2, <4>4 DEF NoNewline
      <4>6. MatchEnds(StartOfFile, 0) = {}
        BY <4>3, <4>5
      <4>7. QED
        BY <4>6, NoMatch DEF HeaderAt, NoType, TokenHeader
    <3>3. QED
      BY <1>1, <3>1, <3>2
  <2>3. QED
    BY <1>2, <2>1, <2>2 DEF LineState
<1>6. QED
  BY <1>4, <1>5

\* The rule goes on.
LEMMA ContinuedLine ==
  ASSUME LineRules, NEW x, NEW l, NEW s, NEW p, NEW m, Within(x, l, s, p, m),
         NEW f, LineState(x, l, s, p, m, f),
         NEW y, NEW n, NEW c, Sees(x, y, c, p, m, n), p < Len(log), y.state # Null,
         NEW g, Delimits(x, y, c, l, p, f, g),
         c = Newline => y.match \/ x.first_delim # Unset,
         y.match => s < n
  PROVE  LineState(y, l, s, p + 1, n, g)
<1>1. /\ log \in Seq(Chars) /\ Len(log) \in Nat /\ l \in Nat /\ s \in Nat /\ p \in Nat
      /\ l <= s /\ s <= p /\ s + 1 \in Nat /\ p + 1 \in Nat /\ log[p + 1] \in Chars
      /\ (x.match => m \in Nat /\ m <= p)
  BY DEF Within
<1>2. c = log[p + 1] /\ c # CharEOF
  BY <1>1, SchemaAssumption DEF Sees
<1>3. NoNewline(l, s)
  BY DEF LineState
<1>4. ASSUME CleanUpTo(x, l, p, f) PROVE CleanUpTo(y, l, p + 1, g)
  <2>1. CASE y.first_delim # Unset
    BY <1>4, <2>1 DEF CleanUpTo, Delimits
  <2>2. CASE y.first_delim = Unset
    <3>1. x.first_delim = Unset /\ NoNewline(l, p)
      BY <1>4, <2>2 DEF CleanUpTo, Delimits
    <3>2. c # Newline
      <4>1. SUFFICES ASSUME c = Newline PROVE FALSE
        OBVIOUS
      <4>2. p = l
        BY <2>2, <4>1, SchemaAssumption DEF Delimits
      <4>3. y.match /\ s < n
        BY <3>1, <4>1
      <4>4. n \in Nat /\ n <= p
        BY <1>1, <4>3, SeesMarks DEF Marks
      <4>5. QED
        BY <1>1, <4>2, <4>3, <4>4
    <3>3. NoNewline(l, p + 1)
      BY <1>1, <1>2, <3>1, <3>2 DEF NoNewline
    <3>4. QED
      BY <2>2, <3>3 DEF CleanUpTo
  <2>3. QED
    BY <2>1, <2>2
<1>5. CASE AtFileStart(x, s, p, m) /\ CleanUpTo(x, l, p, f)
  <2>1. /\ s = 0 /\ x.state = Run(StartOfFile, 0, p)
        /\ Noted(x, StartOfFile, 0, p, m) /\ 0 <= p
    BY <1>1, <1>5 DEF AtFileStart
  <2>2. y.state = Run(StartOfFile, 0, p + 1) /\ Noted(y, StartOfFile, 0, p + 1, n)
    BY <2>1, SeesMore
  <2>3. QED
    BY <1>3, <1>4, <1>5, <2>1, <2>2 DEF LineState, AtFileStart
<1>6. CASE AtLineStart(x, l, s, p, m)
  <2>1. /\ s < p /\ log[s + 1] = Newline /\ x.match
        /\ x.state = Run(LineStart, s + 1, p) /\ Noted(x, LineStart, s + 1, p, m)
        /\ s + 1 <= p /\ (l = 0 => ~HeaderAt(0))
    BY <1>1, <1>6 DEF AtLineStart
  <2>2. y.state = Run(LineStart, s + 1, p + 1) /\ Noted(y, LineStart, s + 1, p + 1, n)
    BY <1>1, <2>1, SeesMore
  <2>3. y.match
    BY <2>1, SeesMarks DEF Marks
  <2>4. AtLineStart(y, l, s, p + 1, n)
    BY <1>1, <2>1, <2>2, <2>3 DEF AtLineStart
  <2>5. QED
    BY <1>3, <2>4 DEF LineState
<1>7. CASE InsideLine(x, l, s, p, m) /\ CleanUpTo(x, l, p, f)
  <2>1. x.state # Null
    BY DEF Sees
  <2>2. y.state = Transition[x.state][c]
    BY <1>2, <2>1 DEF Sees
  <2>3. y.match => y.type \notin {TokenHeader, TokenNewline}
    BY <1>7, InnerTypes, RulesAssumption, SeesMarks
    DEF InsideLine, Marks, is_accepting, NoType, TokenHeader, TokenNewline
  <2>4. ASSUME x.state = Root PROVE InsideLine(y, l, s, p + 1, n)
    <3>1. ~x.match /\ x.first_delim = Unset
      BY <1>7, <2>4 DEF InsideLine
    <3>2. ~y.match
      BY <2>4, <3>1, RulesAssumption, SeesMarks DEF Marks, is_accepting
    <3>3. c # Newline
      BY <3>1, <3>2
    <3>4. y.state \in Inner /\ y.state = Transition[Root][log[p + 1]]
      BY <1>1, <1>2, <2>2, <2>4, <3>3, InnerClosed
    <3>5. NoNewline(s, p + 1)
      <4>1. NoNewline(l, p)
        BY <1>7, <3>1 DEF CleanUpTo
      <4>2. QED
        BY <1>1, <1>2, <3>3, <4>1 DEF NoNewline
    <3>6. y.state = Run(Transition[Root][log[p + 1]], p + 1, p + 1)
      BY <1>1, <3>4, RunSteps
    <3>7. Noted(y, Transition[Root][log[p + 1]], p + 1, p + 1, n)
      BY <1>1, <3>2 DEF Noted, MatchEnds
    <3>8. Tries(y, s, p, p + 1, n)
      BY <3>5, <3>6, <3>7 DEF Tries
    <3>9. p \in s .. (p + 1) - 1
      BY <1>1
    <3>10. y.state # Root
      BY <3>4, InnerTypes
    <3>11. QED
      BY <1>7, <2>3, <3>4, <3>8, <3>9, <3>10 DEF InsideLine
  <2>5. ASSUME x.state # Root PROVE InsideLine(y, l, s, p + 1, n)
    <3>1. PICK d \in s .. p - 1 : Tries(x, s, d, p, m)
      BY <1>7, <2>5 DEF InsideLine
    <3>2. PICK h : h = Transition[Root][log[d + 1]]
      OBVIOUS
    <3>3. d + 1 \in Nat /\ d + 1 <= p /\ d \in s .. (p + 1) - 1
      BY <1>1
    <3>4. /\ NoNewline(s, d + 1)
          /\ x.state = Run(h, d + 1, p) /\ Noted(x, h, d + 1, p, m)
      BY <3>1, <3>2 DEF Tries
    <3>5. y.state = Run(h, d + 1, p + 1) /\ Noted(y, h, d + 1, p + 1, n)
      BY <3>3, <3>4, SeesMore
    <3>6. Tries(y, s, d, p + 1, n)
      BY <3>2, <3>4, <3>5 DEF Tries
    <3>7. x.state \in Inner
      BY <1>7, <2>5 DEF InsideLine
    <3>8. y.state \in Inner
      BY <1>1, <1>2, <2>2, <3>7, InnerClosed
    <3>9. y.state # Root
      BY <3>8, InnerTypes
    <3>10. QED
      BY <1>7, <2>3, <3>3, <3>6, <3>8, <3>9 DEF InsideLine
  <2>6. InsideLine(y, l, s, p + 1, n)
    BY <2>4, <2>5
  <2>7. QED
    BY <1>3, <1>4, <1>7, <2>6 DEF LineState
<1>8. QED
  BY <1>5, <1>6, <1>7 DEF LineState

\* A '\n' begins a rule.
LEMMA NewLine ==
  ASSUME LineRules, LinesApart, NEW x, NEW l, NEW s, NEW p, NEW m, Within(x, l, s, p, m),
         NEW f, LineState(x, l, s, p, m, f), x.first_delim = Unset, p < Len(log),
         NEW y, NEW n, Sees(x, y, Newline, p, m, n), ~y.match,
         NEW g, Delimits(x, y, Newline, l, p, f, g),
         NEW z, z.match, z.type = TokenNewline, z.state = LineStart, NEW h
  PROVE  LineState(z, l, p, p + 1, p + 1, h)
<1>1. /\ log \in Seq(Chars) /\ Len(log) \in Nat /\ l \in Nat /\ p \in Nat /\ l <= p
      /\ p + 1 \in Nat
  BY DEF Within
<1>2. log[p + 1] = Newline
  BY <1>1 DEF Sees
<1>3. NoNewline(l, p) /\ (l = 0 => ~HeaderAt(0))
  BY UnmatchedLine
<1>4. Run(LineStart, p + 1, p + 1) = LineStart
  BY <1>1, RunSteps
<1>5. Noted(z, LineStart, p + 1, p + 1, p + 1)
  BY <1>1, <1>4, LineStartState DEF Noted, MatchEnds
<1>6. AtLineStart(z, l, p, p + 1, p + 1)
  BY <1>1, <1>2, <1>3, <1>4, <1>5 DEF AtLineStart
<1>7. QED
  BY <1>3, <1>6 DEF LineState

-----------------------------------------------------------------------------
(***************************************************************************)
(* The steps of scan.                                                      *)
(***************************************************************************)

\* What LineInv says of positions does not depend on the buffer.
LEMMA SameLines ==
  ASSUME log' = log
  PROVE  /\ \A x, l, s, p, m, f : LineState(x, l, s, p, m, f)' <=> LineState(x, l, s, p, m, f)
         /\ LinesApart' <=> LinesApart
         /\ \A a, e, y : LineToken(a, e, y)' <=> LineToken(a, e, y)
         /\ \A a, e : NoNewline(a, e)' <=> NoNewline(a, e)
         /\ \A i : HeaderAt(i)' <=> HeaderAt(i)
         /\ \A i : EventEnd(i)' = EventEnd(i)
<1>1. \A x, l, s, p, m, f : LineState(x, l, s, p, m, f)' <=> LineState(x, l, s, p, m, f)
  <2>1. \A x, s, i, p, m : Noted(x, s, i, p, m)' <=> Noted(x, s, i, p, m)
    BY SameLog DEF Noted
  <2>2. \A a, e : NoNewline(a, e)' <=> NoNewline(a, e)
    BY DEF NoNewline
  <2>3. \A x, s, d, p, m : Tries(x, s, d, p, m)' <=> Tries(x, s, d, p, m)
    BY SameLog, <2>1, <2>2 DEF Tries
  <2>4. \A x, l, s, p, m : InsideLine(x, l, s, p, m)' <=> InsideLine(x, l, s, p, m)
    BY SameLog, <2>3 DEF InsideLine
  <2>5. \A x, s, p, m : AtFileStart(x, s, p, m)' <=> AtFileStart(x, s, p, m)
    BY SameLog, <2>1 DEF AtFileStart
  <2>6. \A x, l, s, p, m : AtLineStart(x, l, s, p, m)' <=> AtLineStart(x, l, s, p, m)
    BY SameLog, <2>1 DEF AtLineStart
  <2>7. \A x, l, p, f : CleanUpTo(x, l, p, f)' <=> CleanUpTo(x, l, p, f)
    BY <2>2 DEF CleanUpTo
  <2>8. QED
    BY <2>2, <2>4, <2>5, <2>6, <2>7 DEF LineState
<1>2. \A a, e, y : LineToken(a, e, y)' <=> LineToken(a, e, y)
  BY SameLog DEF LineToken, NoNewline
<1>3. \A a, e : NoNewline(a, e)' <=> NoNewline(a, e)
  BY DEF NoNewline
<1>4. LinesApart' <=> LinesApart
  BY SameLog, <1>3 DEF LinesApart
<1>5. QED
  BY <1>1, <1>2, <1>3, <1>4, SameLog

\* A state whose lines are as LineInv says, under a schema as LineRules says, with a log
\* that LinesApart is about.
Lined == Sound /\ LineInv /\ LineRules /\ LinesApart

LEMMA LinedFacts ==
  ASSUME Lined
  PROVE  /\ Sound /\ LineRules /\ LinesApart
         /\ MainLine /\ SkipLine /\ RestLine /\ TokenLine /\ NextEventLine /\ EventLine
BY DEF Lined, Sound, LineInv

\* Scan does not change the view, nor the token kept for the next event.
LEMMA ScanKeepsLines ==
  ASSUME Lined, pc \in Scanning, pc' \in Scanning \cup {"token", "oob"},
         ScanFrame, SameBytes(buf, buf'),
         MainLine', SkipLine', RestLine', TokenLine'
  PROVE  LineInv'
<1> USE DEF ScanFrame
<1>1. Sound /\ NextEventLine /\ EventLine
  BY LinedFacts
<1>2. start_of_log = NoToken /\ start_of_log' = NoToken
  BY <1>1, ScanFacts
<1>3. EventTokens' = EventTokens
  BY DEF EventTokens
<1>4. \A t : EndIn(retired', buf', t) = EndIn(retired, buf, t)
  BY SpellsSame DEF SameBytes
<1>5. NextFrom' = NextFrom
  BY <1>3, <1>4, NextFromIn DEF NextIn
<1>6. pc # "event" /\ pc' # "event"
  BY DEF Scanning
<1>7. \A i : HeaderAt(i)' <=> HeaderAt(i)
  BY SameLines
<1>8. NextEventLine'
  <2>1. SUFFICES ASSUME ~out.started
                 PROVE  (NextFrom = 0 \/ (log[NextFrom] = Newline /\ ~HeaderAt(NextFrom)))'
    BY <1>2, <1>6 DEF NextEventLine
  <2>2. NextFrom = 0 \/ (log[NextFrom] = Newline /\ ~HeaderAt(NextFrom))
    BY <1>1, <1>2, <2>1 DEF NextEventLine
  <2>3. PICK n : n = NextFrom
    OBVIOUS
  <2>4. HeaderAt(n)' <=> HeaderAt(n)
    BY <1>7
  <2>5. QED
    BY <1>5, <2>2, <2>3, <2>4
<1>9. EventLine'
  <2>1. PICK n, f : n = NextFrom /\ f = from
    OBVIOUS
  <2>2. /\ out.started => (out.has_header <=> HeaderAt(f))
        /\ out.started => f < n
        /\ \A j \in f + 1 .. n :
             log[j] = Newline => ~HeaderAt(j) /\ (HeaderAt(f) \/ j = f + 1)
    BY <1>1, <1>6, <2>1 DEF EventLine
  <2>3. NextFrom' = n /\ from' = f
    BY <1>5, <2>1
  <2>4. QED
    BY <1>6, <1>7, <2>2, <2>3 DEF EventLine
<1>10. QED
  BY <1>8, <1>9 DEF LineInv

\* The positions after a step of scan stand for the same offsets.
LEMMA LinesNext ==
  ASSUME Sound, ScanFrame, SameBytes(buf, buf')
  PROVE  /\ LineState(lex', Offset(lex'.last_match_pos), Offset(lex'.start_pos),
                      Offset(buf'.pos), Offset(lex'.match_pos), Offset(lex'.first_delim))
              => MainLine'
         /\ /\ NoNewline(Offset(lex'.last_match_pos), Offset(skip'.prev))
            /\ Offset(lex'.last_match_pos) = 0 => ~HeaderAt(0)
            /\ ~buf'.fully_consumed => /\ Offset(buf'.pos) = Offset(skip'.prev) + 1
                                       /\ skip'.c = log[Offset(buf'.pos)]
            => SkipLine'
         /\ (IF lex'.match
             THEN LineToken(Offset(lex'.start_pos), Offset(lex'.match_pos), lex'.type)
             ELSE Offset(lex'.last_match_pos) = 0 => ~HeaderAt(0)) => RestLine'
         /\ LineToken(Offset(tok'.start_pos), Offset(tok'.end_pos), tok'.type) => TokenLine'
<1> USE DEF ScanFrame
<1>1. \A p : OffsetOf(buf', read_off', p) = Offset(p)
  BY SameOffsets DEF Offset
<1>2. ASSUME LineState(lex', Offset(lex'.last_match_pos), Offset(lex'.start_pos),
                       Offset(buf'.pos), Offset(lex'.match_pos), Offset(lex'.first_delim))
      PROVE  MainLine'
  BY <1>1, <1>2, SameLines DEF MainLine, Offset
<1>3. ASSUME NoNewline(Offset(lex'.last_match_pos), Offset(skip'.prev)),
             Offset(lex'.last_match_pos) = 0 => ~HeaderAt(0),
             ~buf'.fully_consumed => /\ Offset(buf'.pos) = Offset(skip'.prev) + 1
                                     /\ skip'.c = log[Offset(buf'.pos)]
      PROVE  SkipLine'
  BY <1>1, <1>3, SameLines DEF SkipLine, Offset
<1>4. ASSUME IF lex'.match
             THEN LineToken(Offset(lex'.start_pos), Offset(lex'.match_pos), lex'.type)
             ELSE Offset(lex'.last_match_pos) = 0 => ~HeaderAt(0)
      PROVE  RestLine'
  BY <1>1, <1>4, SameLines DEF RestLine, Offset
<1>5. ASSUME LineToken(Offset(tok'.start_pos), Offset(tok'.end_pos), tok'.type)
      PROVE  TokenLine'
  BY <1>1, <1>5, SameLines DEF TokenLine, Offset
<1>6. QED
  BY <1>2, <1>3, <1>4, <1>5

\* The character that arrives is the next one of the log.
LEMMA NextByte ==
  ASSUME Sound, NEW c \in NextChars, ~at_end_of_log(buf),
         NEW p, p = Offset(buf.pos), Needed <= p, 0 <= p, p < read_off
  PROVE  c = log[p + 1]
<1>1. KeepsFrom(buf, read_off, Needed) /\ buf.pos \in 0 .. buf.size - 1 /\ p \in Int
  BY SoundFacts
<1>2. OffsetOf(buf, read_off, buf.pos) = p
  BY DEF Offset
<1>3. buf.storage[buf.pos] = p
  BY <1>1, <1>2 DEF KeepsFrom
<1>4. p # Unset
  BY <1>1 DEF Unset
<1>5. QED
  BY <1>3, <1>4 DEF NextChars, curr_value, CharsOf

\* What the main loop makes of a character.
LEMMA SeenFields ==
  ASSUME Sound, NEW c \in NextChars, MainLoop(c), NEW y, y = Seen(c)
  PROVE  LET here == (c \in Delims \/ c = CharEOF) /\ is_accepting(lex.state)
         IN /\ y.match <=> lex.match \/ here
            /\ here => y.match_pos = buf.pos /\ y.type = TypeIds[lex.state]
            /\ ~here => y.match_pos = lex.match_pos /\ y.type = lex.type
            /\ y.state = IF lex.state = Null \/ c = CharEOF THEN Null
                         ELSE Transition[lex.state][c]
            /\ y.first_delim \in {lex.first_delim, buf.pos}
            /\ lex.first_delim # Unset => y.first_delim = lex.first_delim
            /\ y.first_delim = Unset /\ c \in Delims => buf.pos = lex.last_match_pos
<1>1. lex \in Lexers /\ buf.pos \in Nat
  BY SoundFacts
<1>2. /\ taken(buf).fully_consumed <=> at_end_of_log(buf)
      /\ IF at_end_of_log(buf) THEN c = CharEOF ELSE c \in Chars
  BY MainFacts
<1>3. taken(buf).fully_consumed <=> c = CharEOF
  BY <1>2, SchemaAssumption
<1>4. PICK x : x = note_delimiter(lex, buf, c)
  OBVIOUS
<1>5. /\ x.match = lex.match /\ x.match_pos = lex.match_pos
      /\ x.state = lex.state /\ x.type = lex.type
      /\ x.first_delim \in {lex.first_delim, buf.pos}
      /\ lex.first_delim # Unset => x.first_delim = lex.first_delim
      /\ x.first_delim = Unset /\ c \in Delims => buf.pos = lex.last_match_pos
  BY <1>1, <1>4 DEF note_delimiter, Lexers, Unset
<1>6. x \in Lexers
  BY <1>1, <1>4 DEF note_delimiter, Lexers
<1>7. PICK z : z = note_match(x, buf, c)
  OBVIOUS
<1>8. CASE (c \in Delims \/ c = CharEOF) /\ is_accepting(lex.state)
  <2>1. z = [x EXCEPT !.match = TRUE, !.type = TypeIds[x.state], !.match_pos = buf.pos]
    BY <1>3, <1>5, <1>7, <1>8 DEF note_match
  <2>2. y = process_char(z, c)
    BY <1>4, <1>7 DEF Seen, see_character
  <2>3. QED
    BY <1>5, <1>6, <1>8, <2>1, <2>2 DEF process_char, Lexers
<1>9. CASE ~((c \in Delims \/ c = CharEOF) /\ is_accepting(lex.state))
  <2>1. z = x
    BY <1>3, <1>5, <1>7, <1>9 DEF note_match
  <2>2. y = process_char(x, c)
    BY <1>4, <1>7, <2>1 DEF Seen, see_character
  <2>3. QED
    BY <1>5, <1>6, <1>9, <2>2 DEF process_char, Lexers
<1>10. QED
  BY <1>8, <1>9

\* ... at the offsets that its positions stand for.
LEMMA MainSees ==
  ASSUME Lined, NEW c \in NextChars, MainLoop(c), NEW y, y = Seen(c),
         NEW l, l = Offset(lex.last_match_pos), NEW s, s = Offset(lex.start_pos),
         NEW p, p = Offset(buf.pos), NEW m, m = Offset(lex.match_pos),
         NEW n, n = Offset(y.match_pos),
         NEW f, f = Offset(lex.first_delim), NEW g, g = Offset(y.first_delim)
  PROVE  /\ Within(lex, l, s, p, m)
         /\ LineState(lex, l, s, p, m, f)
         /\ Sees(lex, y, c, p, m, n)
         /\ Delimits(lex, y, c, l, p, f, g)
         /\ newline_is_match(y, buf, c) => lex.first_delim = Unset
         /\ at_end_of_log(buf) <=> p = Len(log)
         /\ c = Newline /\ ~newline_is_match(y, buf, c)
              => y.match \/ lex.first_delim # Unset
<1>1. Sound /\ MainLine /\ pc = "main"
  BY LinedFacts DEF MainLoop
<1>2. /\ MainInv /\ Needed = NextFrom /\ l = NextFrom
  BY <1>1, MainStart, SoundFacts, ScanFacts
<1>3. /\ log \in Seq(Chars) /\ read_off \in 0 .. Len(log) /\ Len(log) \in Nat
      /\ from \in Nat /\ from <= NextFrom /\ NextFrom \in Int
      /\ buf.pos \in 0 .. buf.size - 1
      /\ lex.start_pos \in 0 .. buf.size - 1 /\ lex.match_pos \in 0 .. buf.size - 1
      /\ \A q \in 0 .. buf.size - 1 : Offset(q) \in Int /\ Offset(q) <= read_off
      /\ lex \in Lexers
      /\ buf.finished => read_off = Len(log)
      /\ KeepsFrom(buf, read_off, Needed)
  BY <1>1, SoundFacts
<1>4. /\ l <= s /\ s <= p
      /\ lex.match => s < m /\ m <= p
  BY <1>1, <1>2 DEF MainInv
<1>5. l \in Nat /\ s \in Nat /\ p \in Nat /\ m \in Int /\ p <= read_off /\ p <= Len(log)
  <2>1. s \in Int /\ p \in Int /\ m \in Int /\ p <= read_off
    BY <1>3
  <2>2. l \in Nat
    BY <1>2, <1>3
  <2>3. QED
    BY <1>3, <1>4, <2>1, <2>2
<1>6. Within(lex, l, s, p, m)
  BY <1>3, <1>4, <1>5 DEF Within, Lexers
<1>7. LineState(lex, l, s, p, m, f)
  BY <1>1 DEF MainLine
<1>8. IF at_end_of_log(buf) THEN c = CharEOF /\ p = Len(log) ELSE p < read_off
  BY <1>1, <1>3, MainFacts
<1>9. at_end_of_log(buf) <=> p = Len(log)
  BY <1>3, <1>5, <1>8
<1>10. ~at_end_of_log(buf) => c = log[p + 1]
  <2>1. Needed <= p /\ 0 <= p
    BY <1>2, <1>4, <1>5
  <2>2. QED
    BY <1>1, <1>8, <2>1, NextByte
<1>11. LET here == (c \in Delims \/ c = CharEOF) /\ is_accepting(lex.state)
       IN /\ y.match <=> lex.match \/ here
          /\ here => y.match_pos = buf.pos /\ y.type = TypeIds[lex.state]
          /\ ~here => y.match_pos = lex.match_pos /\ y.type = lex.type
          /\ y.state = IF lex.state = Null \/ c = CharEOF THEN Null
                       ELSE Transition[lex.state][c]
          /\ y.first_delim \in {lex.first_delim, buf.pos}
          /\ lex.first_delim # Unset => y.first_delim = lex.first_delim
          /\ y.first_delim = Unset /\ c \in Delims => buf.pos = lex.last_match_pos
  BY <1>1, SeenFields
<1>12. Sees(lex, y, c, p, m, n)
  BY <1>8, <1>9, <1>10, <1>11 DEF Sees
<1>13. c = Newline /\ ~newline_is_match(y, buf, c) => y.match \/ lex.first_delim # Unset
  BY <1>11 DEF newline_is_match
<1>14. Delimits(lex, y, c, l, p, f, g)
  BY <1>11 DEF Delimits
<1>15. newline_is_match(y, buf, c) => lex.first_delim = Unset
  <2>1. lex.first_delim # Unset => f < p
    BY <1>1, <1>2 DEF MainInv
  <2>2. newline_is_match(y, buf, c) /\ lex.first_delim # Unset => f = p
    BY <1>11 DEF newline_is_match
  <2>3. QED
    BY <1>5, <2>1, <2>2
<1>16. QED
  BY <1>6, <1>7, <1>9, <1>12, <1>13, <1>14, <1>15

\* What LineState says of a lexer is about four of its fields.
LEMMA SameLexer ==
  ASSUME NEW x, NEW y, y.match = x.match, y.state = x.state, y.type = x.type,
         y.first_delim = x.first_delim
  PROVE  \A l, s, p, m, f : LineState(x, l, s, p, m, f) <=> LineState(y, l, s, p, m, f)
<1>1. \A s, i, p, m : Noted(x, s, i, p, m) <=> Noted(y, s, i, p, m)
  BY DEF Noted
<1>2. \A s, d, p, m : Tries(x, s, d, p, m) <=> Tries(y, s, d, p, m)
  BY <1>1 DEF Tries
<1>3. \A l, s, p, m : InsideLine(x, l, s, p, m) <=> InsideLine(y, l, s, p, m)
  BY <1>2 DEF InsideLine
<1>4. \A s, p, m : AtFileStart(x, s, p, m) <=> AtFileStart(y, s, p, m)
  BY <1>1 DEF AtFileStart
<1>5. \A l, s, p, m : AtLineStart(x, l, s, p, m) <=> AtLineStart(y, l, s, p, m)
  BY <1>1 DEF AtLineStart
<1>6. \A l, p, f : CleanUpTo(x, l, p, f) <=> CleanUpTo(y, l, p, f)
  BY DEF CleanUpTo
<1>7. QED
  BY <1>3, <1>4, <1>5, <1>6 DEF LineState

\* Scan goes on where it was interrupted.
LEMMA ScanResumeLine ==
  ASSUME Lined, ScanResume
  PROVE  LineInv'
<1> USE DEF ScanResume, input_vars, parse_vars, history
<1>1. /\ ScanFrame /\ pc = "scan" /\ pc \in Scanning /\ pc' = "main" /\ buf' = buf
      /\ lex.asked
  BY DEF ScanFrame, Scanning
<1>2. Sound /\ MainLine
  BY LinedFacts
<1>3. lex \in Lexers /\ SameBytes(buf, buf')
  BY <1>1, <1>2, SoundFacts DEF SameBytes, RingOf
<1>4. /\ ~lex'.asked
      /\ lex'.match = lex.match
      /\ lex'.match_pos = lex.match_pos
      /\ lex'.start_pos = lex.start_pos
      /\ lex'.last_match_pos = lex.last_match_pos
      /\ lex'.first_delim = lex.first_delim
      /\ lex'.state = lex.state
      /\ lex'.type = lex.type
  BY <1>3 DEF resume_scan, Lexers
<1>5. \A l, s, p, m, f : LineState(lex, l, s, p, m, f) <=> LineState(lex', l, s, p, m, f)
  BY <1>4, SameLexer
<1>6. MainLine'
  BY <1>1, <1>2, <1>3, <1>4, <1>5, LinesNext DEF MainLine
<1>7. SkipLine' /\ RestLine' /\ TokenLine'
  BY <1>1 DEF SkipLine, RestLine, TokenLine
<1>8. QED
  BY <1>1, <1>3, <1>6, <1>7, ScanKeepsLines DEF Scanning

\* Scan returns the match that was prepared.
LEMMA ScanPreparedLine ==
  ASSUME Lined, ScanPrepared
  PROVE  LineInv'
<1> USE DEF ScanPrepared, Return, input_vars, parse_vars, history
<1>1. /\ ScanFrame /\ pc = "scan" /\ pc \in Scanning /\ pc' = "token" /\ buf' = buf
      /\ ~lex.asked /\ lex.match
  BY DEF ScanFrame, Scanning
<1>2. Sound /\ RestLine
  BY LinedFacts
<1>3. /\ lex \in Lexers /\ SameBytes(buf, buf')
      /\ RestInv /\ NextFrom = Offset(lex.start_pos) /\ from \in Nat /\ from <= NextFrom
      /\ lex.start_pos \in 0 .. buf.size - 1 /\ lex.match_pos \in 0 .. buf.size - 1
      /\ \A p \in 0 .. buf.size - 1 : Offset(p) \in Int
      /\ IsBuffer(buf) /\ RingOf(buf, read_off)
  BY <1>1, <1>2, SoundFacts, ScanFacts DEF SameBytes, RingOf, Pending
<1>4. /\ ~lex'.asked /\ ~lex'.match
      /\ lex'.last_match_pos = lex.match_pos
  BY <1>3 DEF take_match, Lexers
<1>5. /\ tok'.start_pos = lex.start_pos /\ tok'.end_pos = lex.match_pos
      /\ tok'.type = lex.type
  BY DEF NewToken
<1>6. LineToken(Offset(lex.start_pos), Offset(lex.match_pos), lex.type)
  BY <1>1, <1>2 DEF RestLine
<1>7. TokenLine'
  BY <1>1, <1>2, <1>3, <1>5, <1>6, LinesNext
<1>8. RestLine'
  <2>1. PICK a, e : a = Offset(lex.start_pos) /\ e = Offset(lex.match_pos)
    OBVIOUS
  <2>2. a \in Int /\ e \in Int /\ a >= 0
    BY <1>3, <2>1
  <2>3. buf.pos = lex.match_pos
    BY <1>1, <1>3 DEF RestInv
  <2>4. e = 0 => ~HeaderAt(0)
    <3>1. SUFFICES ASSUME e = 0 PROVE ~HeaderAt(0)
      OBVIOUS
    <3>2. CASE lex.type = TokenEnd
      <4>1. read_off = 0 /\ buf.finished
        BY <1>1, <1>3, <2>1, <2>3, <3>1, <3>2 DEF RestInv
      <4>2. Len(log) = 0
        BY <1>2, <4>1, SoundFacts
      <4>3. QED
        BY <4>2 DEF HeaderAt
    <3>3. CASE lex.type # TokenEnd
      BY <1>1, <1>3, <2>1, <2>2, <3>1, <3>3 DEF RestInv
    <3>4. QED
      BY <3>2, <3>3
  <2>5. QED
    BY <1>1, <1>2, <1>3, <1>4, <2>1, <2>4, LinesNext
<1>9. MainLine' /\ SkipLine'
  BY <1>1, <1>4 DEF MainLine, SkipLine
<1>10. QED
  BY <1>1, <1>3, <1>7, <1>8, <1>9, ScanKeepsLines

\* Scan starts behind the text that was returned.
LEMMA ScanFreshLine ==
  ASSUME Lined, ScanFresh
  PROVE  LineInv'
<1> USE DEF ScanFresh, input_vars, parse_vars, history
<1>1. /\ ScanFrame /\ pc = "scan" /\ pc \in Scanning /\ pc' = "main"
      /\ ~lex.asked /\ ~lex.match
  BY DEF ScanFrame, Scanning
<1>2. Sound /\ RestLine
  BY LinedFacts
<1>3. /\ lex \in Lexers /\ RestInv
      /\ IsBuffer(buf) /\ RingOf(buf, read_off)
      /\ lex.last_match_pos \in 0 .. buf.size - 1
      /\ \A p \in 0 .. buf.size - 1 : Offset(p) \in Int
  BY <1>1, <1>2, SoundFacts, ScanFacts
<1>4. lex.last_match_pos = IF lex.first_delim = Unset THEN buf.pos ELSE lex.first_delim
  BY <1>1, <1>3 DEF RestInv
<1>5. SameBytes(buf, buf') /\ buf'.pos = lex.last_match_pos
  <2>1. CASE lex.first_delim = Unset
    BY <1>3, <1>4, <2>1 DEF rewind, SameBytes, RingOf
  <2>2. CASE lex.first_delim # Unset
    BY <1>3, <1>4, <2>2, MovedSame DEF rewind
  <2>3. QED
    BY <2>1, <2>2
<1>6. lex' = [lex EXCEPT !.state = Root, !.start_pos = lex.last_match_pos,
                         !.match_pos = lex.last_match_pos,
                         !.type = NoType, !.first_delim = Unset]
  BY <1>5 DEF start_scan
<1>7. /\ ~lex'.asked /\ ~lex'.match
      /\ lex'.start_pos = lex.last_match_pos
      /\ lex'.last_match_pos = lex.last_match_pos
      /\ lex'.first_delim = Unset
      /\ lex'.state = Root
  BY <1>1, <1>3, <1>6 DEF Lexers
<1>8. Offset(lex.last_match_pos) = 0 => ~HeaderAt(0)
  BY <1>1, <1>2 DEF RestLine
<1>9. PICK l : l = Offset(lex.last_match_pos)
  OBVIOUS
<1>10. l \in Int /\ NoNewline(l, l)
  BY <1>3, <1>9 DEF NoNewline
<1>11. \A m, f : LineState(lex', l, l, l, m, f)
  BY <1>7, <1>8, <1>9, <1>10 DEF LineState, InsideLine, CleanUpTo
<1>12. MainLine'
  BY <1>1, <1>2, <1>5, <1>7, <1>9, <1>11, LinesNext
<1>13. SkipLine' /\ RestLine' /\ TokenLine'
  BY <1>1 DEF SkipLine, RestLine, TokenLine
<1>14. QED
  BY <1>1, <1>5, <1>12, <1>13, ScanKeepsLines DEF Scanning

\* Scan has run into the end of what was read.
LEMMA ScanOutOfBoundsLine ==
  ASSUME Lined, ScanOutOfBounds \/ SkipOutOfBounds
  PROVE  LineInv'
<1> USE DEF ScanOutOfBounds, SkipOutOfBounds, input_vars, parse_vars, history
<1>1. /\ ScanFrame /\ pc \in {"main", "skip"} /\ pc \in Scanning /\ pc' = "oob"
      /\ buf' = buf /\ out_of_bounds(buf)
  BY DEF ScanFrame, Scanning
<1>2. Sound /\ MainLine /\ SkipLine /\ LineRules
  BY LinedFacts
<1>3. /\ lex \in Lexers /\ SameBytes(buf, buf')
      /\ buf.fully_consumed => at_end_of_log(buf)
  BY <1>1, <1>2, SoundFacts DEF SameBytes, RingOf
<1>4. /\ lex'.asked
      /\ lex'.match = lex.match
      /\ lex'.match_pos = lex.match_pos
      /\ lex'.start_pos = lex.start_pos
      /\ lex'.last_match_pos = lex.last_match_pos
      /\ lex'.first_delim = lex.first_delim
      /\ lex'.state = lex.state
      /\ lex'.type = lex.type
  BY <1>3 DEF Lexers
<1>5. \A l, s, p, m, f : LineState(lex, l, s, p, m, f) <=> LineState(lex', l, s, p, m, f)
  BY <1>4, SameLexer
<1>6. PICK l, s, p, m, q, f :
        /\ l = Offset(lex.last_match_pos) /\ s = Offset(lex.start_pos)
        /\ p = Offset(buf.pos) /\ m = Offset(lex.match_pos)
        /\ q = Offset(skip.prev) /\ f = Offset(lex.first_delim)
  OBVIOUS
<1>7. LineState(lex, l, s, p, m, f)
  <2>1. CASE pc = "main"
    BY <1>2, <1>6, <2>1 DEF MainLine
  <2>2. CASE pc = "skip"
    <3>1. ~buf.fully_consumed
      BY <1>1, <1>3 DEF out_of_bounds
    <3>2. /\ NoNewline(l, q) /\ (l = 0 => ~HeaderAt(0))
          /\ p = q + 1 /\ skip.c = log[p]
      BY <1>2, <1>6, <2>2, <3>1 DEF SkipLine
    <3>3. /\ l \in Int /\ s \in Int /\ q \in Int /\ l <= s /\ s <= q
          /\ ~lex.match /\ lex.first_delim = Unset /\ lex.state = Root
      BY <1>2, <1>6, <2>2, SkipStart
    <3>4. skip.c # Newline
      BY <1>1, <2>2, SchemaAssumption DEF SkipFound, is_first_char_of_a_variable
    <3>5. NoNewline(l, s) /\ NoNewline(l, p)
      BY <3>2, <3>3, <3>4 DEF NoNewline
    <3>6. QED
      BY <3>2, <3>3, <3>5 DEF LineState, InsideLine, CleanUpTo
  <2>3. QED
    BY <1>1, <2>1, <2>2
<1>8. MainLine'
  BY <1>1, <1>2, <1>3, <1>4, <1>5, <1>6, <1>7, LinesNext
<1>9. SkipLine' /\ RestLine' /\ TokenLine'
  BY <1>1 DEF SkipLine, RestLine, TokenLine
<1>10. QED
  BY <1>1, <1>3, <1>8, <1>9, ScanKeepsLines

\* A line begins.
LEMMA ScanNewlineLine ==
  ASSUME Lined, ScanNewline
  PROVE  LineInv'
<1> USE DEF input_vars, parse_vars, history
<1>1. PICK c \in NextChars : /\ MainLoop(c)
                             /\ newline_is_match(Seen(c), buf, c)
                             /\ lex' = match_newline(Seen(c), buf)
                             /\ buf' = taken(buf)
                             /\ pc' = pc /\ ScanFrame
  BY DEF ScanNewline, ScanFrame
<1>2. PICK y, b : y = Seen(c) /\ b = taken(buf)
  OBVIOUS
<1>3. pc = "main" /\ pc \in Scanning /\ c = Newline /\ ~y.match
  BY <1>1, <1>2 DEF MainLoop, Scanning, newline_is_match
<1>4. Sound /\ LineRules /\ LinesApart
  BY LinedFacts
<1>5. /\ y \in Lexers /\ ~y.asked
      /\ y.last_match_pos = lex.last_match_pos
      /\ SameBytes(buf, b)
      /\ IF at_end_of_log(buf) THEN c = CharEOF ELSE Offset(b.pos) = Offset(buf.pos) + 1
  BY <1>1, <1>2, <1>4, MainFacts
<1>6. ~at_end_of_log(buf)
  BY <1>3, <1>5, SchemaAssumption
<1>7. /\ ~lex'.asked /\ lex'.match
      /\ lex'.type = TokenNewline
      /\ lex'.state = LineStart
      /\ lex'.start_pos = buf.pos
      /\ lex'.match_pos = b.pos
      /\ lex'.last_match_pos = lex.last_match_pos
  <2>1. Newline # CharEOF /\ Root # Null /\ TypeIds[LineStart] = TokenNewline
    BY SchemaAssumption DEF LineStart
  <2>2. QED
    BY <1>1, <1>2, <1>5, <2>1 DEF match_newline, process_char, Lexers, LineStart
<1>8. PICK l, s, p, m, n, f, g :
        /\ l = Offset(lex.last_match_pos) /\ s = Offset(lex.start_pos)
        /\ p = Offset(buf.pos) /\ m = Offset(lex.match_pos) /\ n = Offset(y.match_pos)
        /\ f = Offset(lex.first_delim) /\ g = Offset(y.first_delim)
  OBVIOUS
<1>9. /\ Within(lex, l, s, p, m)
      /\ LineState(lex, l, s, p, m, f) /\ lex.first_delim = Unset
      /\ Sees(lex, y, Newline, p, m, n)
      /\ Delimits(lex, y, Newline, l, p, f, g)
      /\ p # Len(log)
  BY <1>1, <1>2, <1>3, <1>6, <1>8, MainSees
<1>10. p < Len(log)
  BY <1>9 DEF Within
<1>11. \A h : LineState(lex', l, p, p + 1, p + 1, h)
  BY <1>3, <1>4, <1>7, <1>9, <1>10, NewLine
<1>12. MainLine'
  <2>1. Offset(b.pos) = p + 1
    BY <1>5, <1>6, <1>8
  <2>2. QED
    BY <1>1, <1>2, <1>4, <1>5, <1>7, <1>8, <1>11, <2>1, LinesNext
<1>13. SkipLine' /\ RestLine' /\ TokenLine'
  BY <1>1, <1>3 DEF SkipLine, RestLine, TokenLine
<1>14. QED
  BY <1>1, <1>2, <1>3, <1>5, <1>12, <1>13, ScanKeepsLines

\* The automaton goes on.
LEMMA ScanContinueLine ==
  ASSUME Lined, ScanContinue
  PROVE  LineInv'
<1> USE DEF input_vars, parse_vars, history
<1>1. PICK c \in NextChars : /\ MainLoop(c)
                             /\ ~newline_is_match(Seen(c), buf, c)
                             /\ ~taken(buf).fully_consumed
                             /\ Seen(c).state # Null
                             /\ lex' = Seen(c)
                             /\ buf' = taken(buf)
                             /\ pc' = pc /\ ScanFrame
  BY DEF ScanContinue, ScanFrame
<1>2. PICK y, b : y = Seen(c) /\ b = taken(buf)
  OBVIOUS
<1>3. pc = "main" /\ pc \in Scanning
  BY <1>1 DEF MainLoop, Scanning
<1>4. Sound /\ LineRules /\ LinesApart
  BY LinedFacts
<1>5. /\ ~y.asked
      /\ y.start_pos = lex.start_pos /\ y.last_match_pos = lex.last_match_pos
      /\ y.match => Offset(y.start_pos) < Offset(y.match_pos)
      /\ SameBytes(buf, b)
      /\ b.fully_consumed <=> at_end_of_log(buf)
      /\ ~at_end_of_log(buf) => Offset(b.pos) = Offset(buf.pos) + 1
  BY <1>1, <1>2, <1>4, MainFacts
<1>6. PICK l, s, p, m, n, f, g :
        /\ l = Offset(lex.last_match_pos) /\ s = Offset(lex.start_pos)
        /\ p = Offset(buf.pos) /\ m = Offset(lex.match_pos) /\ n = Offset(y.match_pos)
        /\ f = Offset(lex.first_delim) /\ g = Offset(y.first_delim)
  OBVIOUS
<1>7. /\ Within(lex, l, s, p, m)
      /\ LineState(lex, l, s, p, m, f)
      /\ Sees(lex, y, c, p, m, n)
      /\ Delimits(lex, y, c, l, p, f, g)
      /\ p # Len(log)
      /\ c = Newline => y.match \/ lex.first_delim # Unset
  BY <1>1, <1>2, <1>5, <1>6, MainSees
<1>8. p < Len(log)
  BY <1>7 DEF Within
<1>9. LineState(y, l, s, p + 1, n, g)
  <2>1. y.match => s < n
    BY <1>5, <1>6
  <2>2. QED
    BY <1>1, <1>2, <1>4, <1>7, <1>8, <2>1, ContinuedLine
<1>10. MainLine'
  <2>1. Offset(b.pos) = p + 1
    BY <1>1, <1>2, <1>5, <1>6
  <2>2. QED
    BY <1>1, <1>2, <1>4, <1>5, <1>6, <1>9, <2>1, LinesNext
<1>11. SkipLine' /\ RestLine' /\ TokenLine'
  BY <1>1, <1>2, <1>3, <1>5 DEF SkipLine, RestLine, TokenLine
<1>12. QED
  BY <1>1, <1>2, <1>3, <1>5, <1>10, <1>11, ScanKeepsLines

\* Text before which no line begins, and the end of the log.
LEMMA UncaughtLine ==
  ASSUME NEW l \in Nat, NEW e \in Nat, NEW p \in Nat, e <= p, NoNewline(l, p),
         l = 0 => ~HeaderAt(0)
  PROVE  LineToken(l, e, TokenUncaughtString)
BY DEF LineToken, NoNewline, TokenUncaughtString, TokenHeader, TokenNewline

LEMMA LastLine ==
  ASSUME NEW p \in Nat, p = Len(log)
  PROVE  LineToken(p, p, TokenEnd)
BY DEF LineToken, NoNewline, HeaderAt, TokenEnd, TokenHeader, TokenNewline

\* What scan returns when the rule that it has tried ends.
LEMMA StuckFacts ==
  ASSUME Lined, NEW c \in NextChars, Stuck(c), NEW y, y = Seen(c),
         NEW l, l = Offset(lex.last_match_pos), NEW s, s = Offset(lex.start_pos),
         NEW p, p = Offset(buf.pos), NEW n, n = Offset(y.match_pos)
  PROVE  /\ Sound /\ pc \in Scanning
         /\ y \in Lexers /\ ~y.asked
         /\ y.start_pos = lex.start_pos /\ y.last_match_pos = lex.last_match_pos
         /\ l \in Nat /\ s \in Nat /\ p \in Nat /\ l <= s /\ s <= p
         /\ SameBytes(buf, taken(buf))
         /\ taken(buf).fully_consumed => p = Len(log) /\ taken(buf).pos = buf.pos
         /\ ~taken(buf).fully_consumed => /\ Offset(taken(buf).pos) = p + 1
                                          /\ c = log[p + 1]
         /\ y.match => /\ n \in Nat /\ s < n /\ LineToken(s, n, y.type)
                       /\ l < s => LineToken(l, s, TokenUncaughtString)
         /\ ~y.match =>
              /\ NoNewline(l, IF y.first_delim = Unset THEN p ELSE Offset(y.first_delim))
              /\ l = 0 => ~HeaderAt(0)
<1>1. Sound /\ LineRules /\ LinesApart
  BY LinedFacts
<1>2. /\ MainLoop(c) /\ ~newline_is_match(y, buf, c)
      /\ taken(buf).fully_consumed \/ y.state = Null
      /\ pc \in Scanning
  BY DEF Stuck, MainLoop, Scanning
<1>3. PICK b, m, f, g : /\ b = taken(buf) /\ m = Offset(lex.match_pos)
                        /\ f = Offset(lex.first_delim) /\ g = Offset(y.first_delim)
  OBVIOUS
<1>4. /\ y \in Lexers /\ ~y.asked
      /\ y.start_pos = lex.start_pos /\ y.last_match_pos = lex.last_match_pos
      /\ y.match_pos \in 0 .. buf.size - 1
      /\ y.match => s < n
      /\ SameBytes(buf, b)
      /\ b.fully_consumed <=> at_end_of_log(buf)
      /\ IF at_end_of_log(buf) THEN b.pos = buf.pos ELSE Offset(b.pos) = p + 1
  BY <1>1, <1>2, <1>3, MainFacts
<1>5. /\ Within(lex, l, s, p, m)
      /\ LineState(lex, l, s, p, m, f)
      /\ Sees(lex, y, c, p, m, n)
      /\ Delimits(lex, y, c, l, p, f, g)
      /\ at_end_of_log(buf) <=> p = Len(log)
  BY <1>2, <1>3, MainSees
<1>6. /\ l \in Nat /\ s \in Nat /\ p \in Nat /\ l <= s /\ s <= p
      /\ p = Len(log) \/ y.state = Null
      /\ p # Len(log) => c = log[p + 1]
  BY <1>2, <1>3, <1>4, <1>5 DEF Within, Sees
<1>7. n \in Int
  BY <1>1, <1>4, SoundFacts
<1>8. y.match => /\ n \in Nat /\ s < n /\ LineToken(s, n, y.type)
                 /\ l < s => LineToken(l, s, TokenUncaughtString)
  BY <1>1, <1>4, <1>5, <1>6, <1>7, ReturnedLine
<1>9. ~y.match => /\ NoNewline(l, IF y.first_delim = Unset THEN p ELSE g)
                  /\ l = 0 => ~HeaderAt(0)
  BY <1>1, <1>5, <1>6, UnmatchedLine
<1>10. QED
  BY <1>1, <1>2, <1>3, <1>4, <1>5, <1>6, <1>8, <1>9

\* The longest match is returned, or first the text before it.
LEMMA ScanMatchLine ==
  ASSUME Lined, ScanMatch
  PROVE  LineInv'
<1> USE DEF input_vars, parse_vars, history, Return
<1>1. PICK c \in NextChars :
        /\ Stuck(c) /\ Seen(c).match
        /\ buf' = go_back(taken(buf), Seen(c).match_pos)
        /\ IF Seen(c).last_match_pos # Seen(c).start_pos
           THEN /\ lex' = Seen(c)
                /\ tok' = NewToken(Seen(c).last_match_pos, Seen(c).start_pos,
                                   TokenUncaughtString)
           ELSE /\ lex' = take_match(Seen(c))
                /\ tok' = NewToken(Seen(c).start_pos, Seen(c).match_pos,
                                   Seen(c).type)
        /\ pc' = "token" /\ ScanFrame
  BY DEF ScanMatch, ScanFrame
<1>2. PICK y, b : y = Seen(c) /\ b = taken(buf)
  OBVIOUS
<1>3. PICK l, s, p, n : /\ l = Offset(lex.last_match_pos) /\ s = Offset(lex.start_pos)
                        /\ p = Offset(buf.pos) /\ n = Offset(y.match_pos)
  OBVIOUS
<1>4. /\ Sound /\ pc \in Scanning
      /\ y \in Lexers /\ ~y.asked /\ y.match
      /\ y.start_pos = lex.start_pos /\ y.last_match_pos = lex.last_match_pos
      /\ l \in Nat /\ s \in Nat /\ n \in Nat /\ l <= s /\ s < n
      /\ SameBytes(buf, b)
      /\ LineToken(s, n, y.type)
      /\ l < s => LineToken(l, s, TokenUncaughtString)
  BY <1>1, <1>2, <1>3, StuckFacts
<1>5. SameBytes(buf, buf')
  <2>1. pc = "main"
    BY <1>1 DEF Stuck, MainLoop
  <2>2. IsBuffer(b) /\ RingOf(b, read_off)
    BY <1>1, <1>2, <1>4, SoundFacts, SameRing, MainFacts DEF Stuck
  <2>3. SameBytes(b, buf')
    BY <1>1, <1>2, <2>2, MovedSame
  <2>4. QED
    BY <1>4, <2>3 DEF SameBytes
<1>6. CASE y.last_match_pos # y.start_pos
  <2>1. /\ lex' = y /\ tok'.start_pos = y.last_match_pos /\ tok'.end_pos = y.start_pos
        /\ tok'.type = TokenUncaughtString
    BY <1>1, <1>2, <1>6 DEF NewToken
  <2>2. l < s
    <3>1. l # s
      BY <1>1, <1>3, <1>4, <1>6, MainStart DEF Stuck, MainLoop
    <3>2. QED
      BY <1>4, <3>1
  <2>3. RestLine' /\ TokenLine'
    BY <1>1, <1>3, <1>4, <1>5, <2>1, <2>2, LinesNext
  <2>4. MainLine' /\ SkipLine'
    BY <1>1, <1>4, <2>1 DEF MainLine, SkipLine
  <2>5. QED
    BY <1>1, <1>4, <1>5, <2>3, <2>4, ScanKeepsLines
<1>7. CASE y.last_match_pos = y.start_pos
  <2>1. /\ lex' = take_match(y)
        /\ tok'.start_pos = y.start_pos /\ tok'.end_pos = y.match_pos
        /\ tok'.type = y.type
    BY <1>1, <1>2, <1>7 DEF NewToken
  <2>2. /\ ~lex'.asked /\ ~lex'.match /\ lex'.last_match_pos = y.match_pos
    BY <1>4, <2>1 DEF take_match, Lexers
  <2>3. Offset(lex'.last_match_pos) # 0
    BY <1>3, <1>4, <2>2
  <2>4. RestLine' /\ TokenLine'
    BY <1>1, <1>3, <1>4, <1>5, <2>1, <2>2, <2>3, LinesNext
  <2>5. MainLine' /\ SkipLine'
    BY <1>1, <2>2 DEF MainLine, SkipLine
  <2>6. QED
    BY <1>1, <1>4, <1>5, <2>4, <2>5, ScanKeepsLines
<1>8. QED
  BY <1>6, <1>7

\* At the end of the log: the text behind the last match is returned.
LEMMA ScanLastTextLine ==
  ASSUME Lined, ScanLastText
  PROVE  LineInv'
<1> USE DEF input_vars, parse_vars, history, Return
<1>1. PICK c \in NextChars :
        /\ Stuck(c) /\ ~Seen(c).match /\ Seen(c).first_delim = Unset /\ AtEnd(Seen(c))
        /\ lex' = [Seen(c) EXCEPT !.match = TRUE, !.match_pos = taken(buf).pos,
                                  !.type = TokenEnd]
        /\ buf' = taken(buf)
        /\ tok' = NewToken(Seen(c).last_match_pos, Seen(c).start_pos,
                           TokenUncaughtString)
        /\ pc' = "token" /\ ScanFrame
  BY DEF ScanLastText, ScanFrame
<1>2. PICK y, b : y = Seen(c) /\ b = taken(buf)
  OBVIOUS
<1>3. PICK l, s, p, n : /\ l = Offset(lex.last_match_pos) /\ s = Offset(lex.start_pos)
                        /\ p = Offset(buf.pos) /\ n = Offset(y.match_pos)
  OBVIOUS
<1>4. /\ Sound /\ pc \in Scanning
      /\ y \in Lexers /\ ~y.asked /\ ~y.match
      /\ y.start_pos = lex.start_pos /\ y.last_match_pos = lex.last_match_pos
      /\ l \in Nat /\ s \in Nat /\ p \in Nat /\ l <= s /\ s <= p
      /\ SameBytes(buf, b)
      /\ b.fully_consumed => p = Len(log) /\ b.pos = buf.pos
      /\ NoNewline(l, p) /\ (l = 0 => ~HeaderAt(0))
  BY <1>1, <1>2, <1>3, StuckFacts
<1>5. b.pos = y.start_pos /\ s = p /\ p = Len(log)
  BY <1>1, <1>2, <1>3, <1>4 DEF AtEnd
<1>6. /\ ~lex'.asked /\ lex'.match /\ lex'.type = TokenEnd
      /\ lex'.start_pos = y.start_pos /\ lex'.match_pos = y.start_pos
  BY <1>1, <1>2, <1>4, <1>5 DEF Lexers
<1>7. /\ tok'.start_pos = y.last_match_pos /\ tok'.end_pos = y.start_pos
      /\ tok'.type = TokenUncaughtString
  BY <1>1, <1>2 DEF NewToken
<1>8. LineToken(s, s, TokenEnd) /\ LineToken(l, s, TokenUncaughtString)
  BY <1>4, <1>5, LastLine, UncaughtLine
<1>9. RestLine' /\ TokenLine'
  BY <1>1, <1>2, <1>3, <1>4, <1>6, <1>7, <1>8, LinesNext
<1>10. MainLine' /\ SkipLine'
  BY <1>1, <1>6 DEF MainLine, SkipLine
<1>11. QED
  BY <1>1, <1>2, <1>4, <1>9, <1>10, ScanKeepsLines

\* ... or the end.
LEMMA ScanEndLine ==
  ASSUME Lined, ScanEnd
  PROVE  LineInv'
<1> USE DEF input_vars, parse_vars, history, Return
<1>1. PICK c \in NextChars :
        /\ Stuck(c) /\ ~Seen(c).match /\ AtEnd(Seen(c))
        /\ lex' = Seen(c)
        /\ buf' = taken(buf)
        /\ tok' = NewToken(taken(buf).pos, taken(buf).pos, TokenEnd)
        /\ pc' = "token" /\ ScanFrame
  BY DEF ScanEnd, ScanFrame
<1>2. PICK y, b : y = Seen(c) /\ b = taken(buf)
  OBVIOUS
<1>3. PICK l, s, p, n : /\ l = Offset(lex.last_match_pos) /\ s = Offset(lex.start_pos)
                        /\ p = Offset(buf.pos) /\ n = Offset(y.match_pos)
  OBVIOUS
<1>4. /\ Sound /\ pc \in Scanning
      /\ ~y.asked /\ ~y.match
      /\ y.last_match_pos = lex.last_match_pos
      /\ p \in Nat
      /\ SameBytes(buf, b)
      /\ b.fully_consumed => p = Len(log) /\ b.pos = buf.pos
      /\ l = 0 => ~HeaderAt(0)
  BY <1>1, <1>2, <1>3, StuckFacts
<1>5. b.pos = buf.pos /\ p = Len(log)
  BY <1>1, <1>2, <1>4 DEF AtEnd
<1>6. /\ tok'.start_pos = buf.pos /\ tok'.end_pos = buf.pos /\ tok'.type = TokenEnd
  BY <1>1, <1>2, <1>5 DEF NewToken
<1>7. LineToken(p, p, TokenEnd)
  BY <1>4, <1>5, LastLine
<1>8. RestLine' /\ TokenLine'
  BY <1>1, <1>2, <1>3, <1>4, <1>6, <1>7, LinesNext
<1>9. MainLine' /\ SkipLine'
  BY <1>1, <1>2, <1>4 DEF MainLine, SkipLine
<1>10. QED
  BY <1>1, <1>2, <1>4, <1>8, <1>9, ScanKeepsLines

\* The text before the first delimiter is returned.
LEMMA ScanUncaughtLine ==
  ASSUME Lined, ScanUncaught
  PROVE  LineInv'
<1> USE DEF input_vars, parse_vars, history, Return
<1>1. PICK c \in NextChars :
        /\ Stuck(c) /\ ~Seen(c).match /\ Seen(c).first_delim # Unset
        /\ lex' = [Seen(c) EXCEPT !.last_match_pos = Seen(c).first_delim]
        /\ buf' = taken(buf)
        /\ tok' = NewToken(Seen(c).last_match_pos, Seen(c).first_delim,
                           TokenUncaughtString)
        /\ pc' = "token" /\ ScanFrame
  BY DEF ScanUncaught, ScanFrame
<1>2. PICK y, b : y = Seen(c) /\ b = taken(buf)
  OBVIOUS
<1>3. PICK l, s, p, n, d :
        /\ l = Offset(lex.last_match_pos) /\ s = Offset(lex.start_pos)
        /\ p = Offset(buf.pos) /\ n = Offset(y.match_pos) /\ d = Offset(y.first_delim)
  OBVIOUS
<1>4. /\ Sound /\ pc \in Scanning
      /\ y \in Lexers /\ ~y.asked /\ ~y.match
      /\ y.last_match_pos = lex.last_match_pos
      /\ l \in Nat /\ p \in Nat
      /\ SameBytes(buf, b)
      /\ b.fully_consumed => p = Len(log) /\ b.pos = buf.pos
      /\ ~b.fully_consumed => Offset(b.pos) = p + 1
      /\ NoNewline(l, d) /\ (l = 0 => ~HeaderAt(0))
  BY <1>1, <1>2, <1>3, StuckFacts
<1>5. d \in Nat /\ 0 < d /\ d <= p
  <2>1. /\ y.first_delim \in 0 .. buf.size - 1
        /\ l < d /\ d < Offset(b.pos)
    BY <1>1, <1>2, <1>3, <1>4, MainFacts DEF Stuck
  <2>2. d \in Int
    BY <1>3, <1>4, <2>1, SoundFacts
  <2>3. QED
    BY <1>3, <1>4, <2>1, <2>2
<1>6. ~lex'.asked /\ ~lex'.match /\ lex'.last_match_pos = y.first_delim
  BY <1>1, <1>2, <1>4 DEF Lexers
<1>7. /\ tok'.start_pos = y.last_match_pos /\ tok'.end_pos = y.first_delim
      /\ tok'.type = TokenUncaughtString
  BY <1>1, <1>2 DEF NewToken
<1>8. LineToken(l, d, TokenUncaughtString)
  BY <1>4, <1>5, UncaughtLine
<1>9. RestLine' /\ TokenLine'
  BY <1>1, <1>2, <1>3, <1>4, <1>5, <1>6, <1>7, <1>8, LinesNext
<1>10. MainLine' /\ SkipLine'
  BY <1>1, <1>6 DEF MainLine, SkipLine
<1>11. QED
  BY <1>1, <1>2, <1>4, <1>9, <1>10, ScanKeepsLines

\* Scan looks for the next delimiter.
LEMMA ScanSkipLine ==
  ASSUME Lined, ScanSkip
  PROVE  LineInv'
<1> USE DEF input_vars, parse_vars, history
<1>1. PICK c \in NextChars :
        /\ Stuck(c) /\ ~Seen(c).match /\ Seen(c).first_delim = Unset
        /\ lex' = [Seen(c) EXCEPT !.state = Root]
        /\ buf' = taken(buf)
        /\ skip' = [prev |-> buf.pos, c |-> c]
        /\ pc' = "skip" /\ ScanFrame
  BY DEF ScanSkip, ScanFrame
<1>2. PICK y, b : y = Seen(c) /\ b = taken(buf)
  OBVIOUS
<1>3. PICK l, s, p, n : /\ l = Offset(lex.last_match_pos) /\ s = Offset(lex.start_pos)
                        /\ p = Offset(buf.pos) /\ n = Offset(y.match_pos)
  OBVIOUS
<1>4. /\ Sound /\ pc \in Scanning
      /\ y \in Lexers /\ ~y.asked /\ ~y.match
      /\ y.last_match_pos = lex.last_match_pos
      /\ p \in Nat
      /\ SameBytes(buf, b)
      /\ ~b.fully_consumed => Offset(b.pos) = p + 1 /\ c = log[p + 1]
      /\ NoNewline(l, p) /\ (l = 0 => ~HeaderAt(0))
  BY <1>1, <1>2, <1>3, StuckFacts
<1>5. ~lex'.asked /\ lex'.last_match_pos = lex.last_match_pos
  BY <1>1, <1>2, <1>4 DEF Lexers
<1>6. skip'.prev = buf.pos /\ skip'.c = c
  BY <1>1
<1>7. SkipLine'
  BY <1>1, <1>2, <1>3, <1>4, <1>5, <1>6, LinesNext
<1>8. MainLine' /\ RestLine' /\ TokenLine'
  BY <1>1, <1>5 DEF MainLine, RestLine, TokenLine
<1>9. QED
  BY <1>1, <1>2, <1>4, <1>7, <1>8, ScanKeepsLines DEF Scanning

LEMMA SkipCharacterLine ==
  ASSUME Lined, SkipCharacter
  PROVE  LineInv'
<1> USE DEF input_vars, parse_vars, history
<1>1. /\ pc = "skip" /\ ~buf.fully_consumed /\ ~SkipFound /\ ~out_of_bounds(buf)
      /\ buf' = taken(buf)
      /\ lex' = lex /\ pc' = pc /\ ScanFrame
  BY DEF SkipCharacter, SkipFound, ScanFrame
<1>2. PICK c \in NextChars : skip' = [prev |-> buf.pos, c |-> c]
  BY DEF SkipCharacter
<1>3. PICK b, l, q, p : /\ b = taken(buf) /\ l = Offset(lex.last_match_pos)
                        /\ q = Offset(skip.prev) /\ p = Offset(buf.pos)
  OBVIOUS
<1>4. Sound /\ SkipLine
  BY LinedFacts
<1>5. /\ pc \in Scanning /\ ~lex.asked
      /\ Needed = l /\ l \in Int /\ q \in Int /\ p \in Int /\ Needed <= p
  BY <1>1, <1>3, <1>4, SkipStart
<1>6. /\ SameBytes(buf, b)
      /\ b.fully_consumed <=> at_end_of_log(buf)
      /\ ~at_end_of_log(buf) => p < read_off /\ Offset(b.pos) = p + 1
  <2>1. Needed \in Int /\ Needed <= OffsetOf(buf, read_off, buf.pos)
    BY <1>3, <1>5 DEF Offset
  <2>2. QED
    BY <1>1, <1>3, <1>4, <2>1, SoundFacts, TakenSame DEF Offset
<1>7. /\ NoNewline(l, q) /\ (l = 0 => ~HeaderAt(0))
      /\ p = q + 1 /\ skip.c = log[p]
  BY <1>1, <1>3, <1>4 DEF SkipLine
<1>8. NoNewline(l, p)
  <2>1. skip.c # Newline
    BY <1>1, SchemaAssumption DEF SkipFound, is_first_char_of_a_variable
  <2>2. QED
    BY <1>5, <1>7, <2>1 DEF NoNewline
<1>9. ~b.fully_consumed => Offset(b.pos) = p + 1 /\ c = log[p + 1]
  <2>1. 0 <= p
    <3>1. from \in Nat /\ from <= NextFrom /\ NextFrom \in Int
      BY <1>4, SoundFacts
    <3>2. Needed = NextFrom
      BY <1>4, <1>5, ScanFacts
    <3>3. QED
      BY <1>5, <3>1, <3>2
  <2>2. QED
    BY <1>3, <1>4, <1>5, <1>6, <2>1, NextByte
<1>10. skip'.prev = buf.pos /\ skip'.c = c
  BY <1>2
<1>11. SkipLine'
  BY <1>1, <1>3, <1>4, <1>6, <1>7, <1>8, <1>9, <1>10, LinesNext
<1>12. MainLine' /\ RestLine' /\ TokenLine'
  BY <1>1, <1>5 DEF MainLine, RestLine, TokenLine
<1>13. QED
  BY <1>1, <1>3, <1>5, <1>6, <1>11, <1>12, ScanKeepsLines DEF Scanning

\* The next rule may begin at the delimiter.
LEMMA SkipEndLine ==
  ASSUME Lined, SkipEnd
  PROVE  LineInv'
<1> USE DEF input_vars, parse_vars, history
<1>1. /\ pc = "skip"
      /\ buf' = set_pos(buf, skip.prev)
      /\ lex' = [lex EXCEPT !.start_pos = skip.prev]
      /\ pc' = "main" /\ ScanFrame
  BY DEF SkipEnd, ScanFrame
<1>2. Sound /\ SkipLine
  BY LinedFacts
<1>3. SameBytes(buf, buf') /\ buf'.pos = skip.prev
  BY <1>1, <1>2, SoundFacts, MovedSame
<1>4. /\ ~lex'.asked /\ ~lex'.match /\ lex'.first_delim = Unset /\ lex'.state = Root
      /\ lex'.start_pos = skip.prev
      /\ lex'.last_match_pos = lex.last_match_pos
  BY <1>1, <1>2, SkipStart, SoundFacts DEF Lexers
<1>5. PICK l, q : l = Offset(lex.last_match_pos) /\ q = Offset(skip.prev)
  OBVIOUS
<1>6. /\ pc \in Scanning /\ q \in Int
      /\ NoNewline(l, q) /\ (l = 0 => ~HeaderAt(0))
  BY <1>1, <1>2, <1>5, SkipStart DEF SkipLine
<1>7. \A m, f : LineState(lex', l, q, q, m, f)
  BY <1>4, <1>6 DEF LineState, InsideLine, CleanUpTo
<1>8. MainLine'
  BY <1>1, <1>2, <1>3, <1>4, <1>5, <1>7, LinesNext
<1>9. SkipLine' /\ RestLine' /\ TokenLine'
  BY <1>1 DEF SkipLine, RestLine, TokenLine
<1>10. QED
  BY <1>1, <1>3, <1>6, <1>8, <1>9, ScanKeepsLines DEF Scanning

LEMMA ScanLine ==
  ASSUME Lined, Scan
  PROVE  LineInv'
BY ScanResumeLine, ScanPreparedLine, ScanFreshLine, ScanOutOfBoundsLine,
   ScanNewlineLine, ScanContinueLine, ScanMatchLine, ScanLastTextLine, ScanEndLine,
   ScanUncaughtLine, ScanSkipLine, SkipCharacterLine, SkipEndLine DEF Scan

-----------------------------------------------------------------------------
(***************************************************************************)
(* The steps of parse.                                                     *)
(***************************************************************************)

\* From offset f to n there is no end of the event that begins at f.
GoesOn(f, n) ==
  \A j \in f + 1 .. n : log[j] = Newline => ~HeaderAt(j) /\ (HeaderAt(f) \/ j = f + 1)

\* Where an event ends.
LEMMA EndsHere ==
  ASSUME log \in Seq(Chars), NEW f \in Nat, NEW n \in Nat, f <= n, n < Len(log),
         GoesOn(f, n), log[n + 1] = Newline,
         HeaderAt(n + 1) \/ (~HeaderAt(f) /\ f < n)
  PROVE  EventEnd(f) = n + 1
<1>1. PICK ends : ends = { j \in f + 1 .. Len(log) :
                             /\ log[j] = Newline
                             /\ HeaderAt(j) \/ (~HeaderAt(f) /\ j > f + 1) }
  OBVIOUS
<1>2. EventEnd(f) = IF ends = {} THEN Len(log) ELSE CHOOSE j \in ends : \A k \in ends : j <= k
  BY <1>1 DEF EventEnd
<1>3. Len(log) \in Nat
  OBVIOUS
<1>4. n + 1 \in ends
  BY <1>1, <1>3
<1>5. \A k \in ends : k \in Int /\ n + 1 <= k
  <2>1. SUFFICES ASSUME NEW k \in ends, k <= n PROVE FALSE
    BY <1>1, <1>3
  <2>2. k \in f + 1 .. n /\ log[k] = Newline /\ (HeaderAt(k) \/ (~HeaderAt(f) /\ k > f + 1))
    BY <1>1, <1>3, <2>1
  <2>3. QED
    BY <2>2 DEF GoesOn
<1>6. QED
  BY <1>2, <1>4, <1>5

LEMMA EndsLast ==
  ASSUME log \in Seq(Chars), NEW f \in Nat, GoesOn(f, Len(log))
  PROVE  EventEnd(f) = Len(log)
<1>1. PICK ends : ends = { j \in f + 1 .. Len(log) :
                             /\ log[j] = Newline
                             /\ HeaderAt(j) \/ (~HeaderAt(f) /\ j > f + 1) }
  OBVIOUS
<1>2. EventEnd(f) = IF ends = {} THEN Len(log) ELSE CHOOSE j \in ends : \A k \in ends : j <= k
  BY <1>1 DEF EventEnd
<1>3. Len(log) \in Nat
  OBVIOUS
<1>4. ends = {}
  BY <1>1, <1>3 DEF GoesOn
<1>5. QED
  BY <1>2, <1>4

\* Nothing changes for what scan does next.
LEMMA ParseKeepsLines ==
  ASSUME Lined, ParseFrame, pc \in {"parse", "token"}, pc' \in {"scan", "event"},
         pc = "parse" => buf' = buf /\ pc' = "scan",
         \A p : OffsetOf(buf', read_off', p) = Offset(p), buf'.pos = buf.pos,
         NextEventLine', EventLine'
  PROVE  LineInv'
<1> USE DEF ParseFrame
<1>1. Sound /\ MainLine /\ RestLine /\ (pc = "token" => ~lex.asked)
  BY LinedFacts, ParseFacts
<1>2. MainLine'
  <2>1. SUFFICES ASSUME lex.asked
                 PROVE  LineState(lex, OffsetOf(buf', read_off', lex.last_match_pos),
                                  OffsetOf(buf', read_off', lex.start_pos),
                                  OffsetOf(buf', read_off', buf'.pos),
                                  OffsetOf(buf', read_off', lex.match_pos),
                                  OffsetOf(buf', read_off', lex.first_delim))
    BY SameLines DEF MainLine, Offset
  <2>2. QED
    BY <1>1, <2>1 DEF MainLine
<1>3. RestLine'
  <2>1. SUFFICES ASSUME ~lex.asked
                 PROVE  IF lex.match
                        THEN LineToken(OffsetOf(buf', read_off', lex.start_pos),
                                       OffsetOf(buf', read_off', lex.match_pos), lex.type)
                        ELSE OffsetOf(buf', read_off', lex.last_match_pos) = 0 => ~HeaderAt(0)
    BY SameLines DEF RestLine, Offset
  <2>2. QED
    BY <1>1, <2>1 DEF RestLine
<1>4. SkipLine' /\ TokenLine'
  BY DEF SkipLine, TokenLine
<1>5. QED
  BY <1>2, <1>3, <1>4 DEF LineInv

\* What a token adds to the view.
LEMMA ViewEnds ==
  ASSUME Sound, ParseFrame, pc \in {"parse", "token"}, pc' \in {"scan", "event"},
         buf'.size = buf.size, buf'.storage = buf.storage,
         NEW t, Current(t), AddedToView(t), Offset(t.start_pos) = NextFrom,
         Offset(t.start_pos) <= Offset(t.end_pos), Needed < Offset(t.end_pos)
  PROVE  /\ NextFrom' = Offset(t.end_pos)
         /\ out'.started
         /\ out'.has_header <=> IF out.started THEN out.has_header ELSE t.type = TokenHeader
         /\ ~out.started => from = NextFrom
<1>1. /\ out \in Views /\ (out.has_header => out.slot0 \in Tokens)
      /\ ~out.started => out = out_reset
  BY ParseFacts
<1>2. t \in Tokens
  BY DEF Current
<1>3. Needed <= NextFrom
  BY SoundFacts
<1>4. Spells(retired, buf, t, NextFrom) /\ EndIn(retired, buf, t) = Offset(t.end_pos)
  BY <1>3, CurrentSpells
<1>5. NextFrom' = Offset(t.end_pos)
  BY <1>2, <1>4, GrowView
<1>6. CASE out.started
  <2>1. out' = add_token(out, t)
    BY <1>6 DEF AddedToView
  <2>2. QED
    BY <1>1, <1>2, <1>5, <1>6, <2>1, AddView
<1>7. CASE ~out.started
  <2>1. /\ out = out_reset
        /\ out' = IF t.type = TokenHeader THEN set_header(out, t) ELSE set_first(out, t)
    BY <1>1, <1>7 DEF AddedToView
  <2>2. /\ out'.started
        /\ out'.has_header <=> t.type = TokenHeader
    BY <2>1 DEF out_reset, set_header, set_first
  <2>3. from = NextFrom
    <3>1. EventTokens = << >>
      BY <1>1, <2>1, EmptyView DEF EventTokens
    <3>2. QED
      BY <3>1 DEF NextFrom
  <2>4. QED
    BY <1>5, <1>7, <2>2, <2>3
<1>8. QED
  BY <1>6, <1>7

\* The token goes to the view and the event goes on.
LEMMA EventGoesOn ==
  ASSUME Lined, ParseFrame, pc \in {"parse", "token"}, pc' = "scan", buf' = buf,
         NEW t, Current(t), AddedToView(t), Offset(t.start_pos) = NextFrom,
         NEW n, n = NextFrom, NEW e \in Int, e = Offset(t.end_pos),
         n < e, NoNewline(n + 1, e),
         log[n + 1] = Newline => ~HeaderAt(n + 1) /\ (HeaderAt(from) \/ ~out.started),
         ~out.started => (t.type = TokenHeader <=> HeaderAt(n))
  PROVE  LineInv'
<1> USE DEF ParseFrame
<1>1. Sound /\ EventLine
  BY LinedFacts
<1>2. PICK f \in Nat : f = from
  BY <1>1, SoundFacts
<1>3. /\ n \in Int /\ f <= n /\ Needed <= n /\ Needed \in Int
  BY <1>1, <1>2, SoundFacts
<1>4. Offset(t.start_pos) <= Offset(t.end_pos) /\ Needed < Offset(t.end_pos)
  BY <1>3
<1>5. /\ NextFrom' = e
      /\ out'.started
      /\ out'.has_header <=> IF out.started THEN out.has_header ELSE t.type = TokenHeader
      /\ ~out.started => f = n
  BY <1>1, <1>2, <1>4, ViewEnds
<1>6. pc # "event" /\ (out.started => (out.has_header <=> HeaderAt(f))) /\ GoesOn(f, n)
  BY <1>1, <1>2 DEF EventLine, GoesOn
<1>7. GoesOn(f, e)
  <2>1. SUFFICES ASSUME NEW j \in f + 1 .. e, log[j] = Newline
                 PROVE  ~HeaderAt(j) /\ (HeaderAt(f) \/ j = f + 1)
    BY DEF GoesOn
  <2>2. CASE j <= n
    BY <1>3, <1>6, <2>1, <2>2 DEF GoesOn
  <2>3. CASE j > n
    <3>1. j = n + 1
      <4>1. j \in (n + 1) + 1 .. e \/ j = n + 1
        BY <1>3, <2>3
      <4>2. QED
        BY <2>1, <4>1 DEF NoNewline
    <3>2. QED
      BY <1>2, <1>3, <1>5, <2>1, <3>1
  <2>4. QED
    BY <1>3, <2>2, <2>3
<1>8. out'.has_header <=> HeaderAt(f)
  BY <1>5, <1>6
<1>9. \A i : HeaderAt(i)' <=> HeaderAt(i)
  BY SameLines
<1>10. EventLine'
  <2>1. from' = f /\ NextFrom' = e /\ f < e
    BY <1>2, <1>3, <1>5
  <2>2. QED
    BY <1>5, <1>7, <1>8, <1>9, <2>1 DEF EventLine, GoesOn
<1>11. NextEventLine'
  BY <1>5 DEF NextEventLine
<1>12. QED
  BY <1>10, <1>11, ParseKeepsLines DEF Offset

\* The event ends behind its last '\n'.
LEMMA EventEndsHere ==
  ASSUME Lined, ParseFrame, pc = "token", pc' = "event",
         buf'.size = buf.size, buf'.storage = buf.storage, buf'.pos = buf.pos,
         \A p : OffsetOf(buf', read_off', p) = Offset(p),
         NEW t, Current(t), AddedToView(t), Offset(t.start_pos) = NextFrom,
         start_of_log = NoToken,
         NEW n, n = NextFrom, Offset(t.end_pos) = n + 1, n + 1 <= Len(log),
         log[n + 1] = Newline,
         HeaderAt(n + 1) \/ (out.started /\ ~out.has_header),
         ~out.started => t.type # TokenHeader /\ ~HeaderAt(n),
         IF start_of_log' = NoToken THEN ~HeaderAt(n + 1)
         ELSE /\ n + 1 < Offset(start_of_log'.end_pos)
              /\ NoNewline(n + 1, Offset(start_of_log'.end_pos))
              /\ start_of_log'.type = TokenHeader <=> HeaderAt(n + 1)
  PROVE  LineInv'
<1> USE DEF ParseFrame
<1>1. Sound /\ EventLine
  BY LinedFacts
<1>2. PICK f \in Nat : f = from
  BY <1>1, SoundFacts
<1>3. /\ n \in Int /\ f <= n /\ Needed <= n /\ Needed \in Int
      /\ log \in Seq(Chars) /\ Len(log) \in Nat
  BY <1>1, <1>2, SoundFacts
<1>4. Offset(t.start_pos) <= Offset(t.end_pos) /\ Needed < Offset(t.end_pos)
  BY <1>3
<1>5. /\ NextFrom' = n + 1
      /\ out'.started
      /\ out'.has_header <=> IF out.started THEN out.has_header ELSE t.type = TokenHeader
      /\ ~out.started => f = n
  BY <1>1, <1>2, <1>4, ViewEnds
<1>6. /\ out.started => (out.has_header <=> HeaderAt(f)) /\ f < n
      /\ GoesOn(f, n)
  BY <1>1, <1>2 DEF EventLine, GoesOn
<1>7. out'.has_header <=> HeaderAt(f)
  BY <1>5, <1>6
<1>8. EventEnd(f) = n + 1
  <2>1. HeaderAt(n + 1) \/ (~HeaderAt(f) /\ f < n)
    BY <1>6
  <2>2. n \in Nat /\ n < Len(log)
    BY <1>3
  <2>3. QED
    BY <1>3, <1>6, <2>1, <2>2, EndsHere
<1>9. /\ \A i : HeaderAt(i)' <=> HeaderAt(i)
      /\ \A i : EventEnd(i)' = EventEnd(i)
      /\ \A a, e : NoNewline(a, e)' <=> NoNewline(a, e)
  BY SameLines
<1>10. EventLine'
  <2>1. from' = f
    BY <1>2
  <2>2. NextFrom' = EventEnd(f)
    BY <1>5, <1>8
  <2>3. QED
    BY <1>5, <1>7, <1>9, <2>1, <2>2 DEF EventLine
<1>11. NextEventLine'
  <2>1. PICK m : m = n + 1
    OBVIOUS
  <2>2. NextFrom' = m /\ m > 0 /\ log[m] = Newline
    BY <1>3, <1>5, <2>1
  <2>3. CASE start_of_log' = NoToken
    BY <1>9, <2>1, <2>2, <2>3 DEF NextEventLine
  <2>4. CASE start_of_log' # NoToken
    <3>1. PICK e : e = Offset(start_of_log'.end_pos)
      OBVIOUS
    <3>2. Offset(start_of_log.end_pos)' = e
      BY <3>1 DEF Offset
    <3>3. /\ m < e /\ NoNewline(m, e)
          /\ start_of_log'.type = TokenHeader <=> HeaderAt(m)
      BY <2>1, <2>4, <3>1
    <3>4. QED
      BY <1>9, <2>2, <2>4, <3>2, <3>3 DEF NextEventLine
  <2>5. QED
    BY <2>3, <2>4
<1>12. QED
  BY <1>10, <1>11, ParseKeepsLines

\* The event ends with the log.
LEMMA EventEndsLast ==
  ASSUME Lined, ParseFrame, pc = "token", tok.type = TokenEnd, buf' = buf,
         pc' = "event", done', out'.started, out'.has_header <=> HeaderAt(from),
         EventTokens' = EventTokens
  PROVE  LineInv'
<1> USE DEF ParseFrame
<1>1. Sound /\ EventLine
  BY LinedFacts
<1>2. PICK f \in Nat : f = from
  BY <1>1, SoundFacts
<1>3. log \in Seq(Chars) /\ Len(log) \in Nat
  BY <1>1, SoundFacts
<1>4. NextFrom = Len(log)
  <2>1. Offset(tok.start_pos) = read_off /\ buf.finished
    BY <1>1 DEF Sound, TextInv, TokenInv
  <2>2. QED
    BY <1>1, <2>1, SoundFacts DEF Seam
<1>5. NextFrom' = NextFrom
  BY NextFromIn DEF NextIn
<1>6. GoesOn(f, Len(log))
  BY <1>1, <1>2, <1>4 DEF EventLine, GoesOn
<1>7. EventEnd(f) = Len(log)
  BY <1>2, <1>3, <1>6, EndsLast
<1>8. /\ \A i : HeaderAt(i)' <=> HeaderAt(i)
      /\ \A i : EventEnd(i)' = EventEnd(i)
  BY SameLines
<1>9. EventLine'
  <2>1. from' = f /\ NextFrom' = EventEnd(f)
    BY <1>2, <1>4, <1>5, <1>7
  <2>2. out'.has_header <=> HeaderAt(f)
    BY <1>2
  <2>3. QED
    BY <1>8, <2>1, <2>2 DEF EventLine
<1>10. NextEventLine'
  BY DEF NextEventLine
<1>11. QED
  BY <1>9, <1>10, ParseKeepsLines DEF Offset

\* The first character of the token that scan has returned.
LEMMA FirstByte ==
  ASSUME Sound, pc = "token", tok.type # TokenEnd, NEW c \in FirstChars(tok)
  PROVE  c = log[NextFrom + 1]
<1>1. /\ Current(tok) /\ tok.start_pos \in 0 .. buf.size - 1
      /\ Offset(tok.start_pos) \in Int /\ Offset(tok.end_pos) \in Int
      /\ Offset(tok.start_pos) < Offset(tok.end_pos)
      /\ Offset(tok.end_pos) <= read_off
      /\ Offset(tok.start_pos) = NextFrom /\ Needed = NextFrom
  BY ScannedText
<1>2. /\ KeepsFrom(buf, read_off, Needed) /\ buf.size \in Nat /\ read_off \in Nat
      /\ from \in Nat /\ from <= NextFrom
  BY SoundFacts
<1>3. PICK n \in Int : n = NextFrom
  BY <1>1
<1>4. 0 <= n /\ n < read_off /\ OffsetOf(buf, read_off, tok.start_pos) = n
  BY <1>1, <1>2, <1>3 DEF Offset
<1>5. buf.storage[tok.start_pos] = n
  BY <1>1, <1>2, <1>3, <1>4 DEF KeepsFrom
<1>6. Len(retired) \in Nat
  BY DEF Sound, TextInv
<1>7. TokenByte(tok, tok.start_pos) = n
  BY <1>1, <1>2, <1>5, <1>6 DEF TokenByte, Current, Tokens
<1>8. QED
  BY <1>3, <1>4, <1>7 DEF FirstChars, CharsOf, Unset

\* There is one.
LEMMA FirstByteIs ==
  ASSUME Sound, pc = "token", tok.type # TokenEnd
  PROVE  /\ FirstChars(tok) # {}
         /\ log[NextFrom + 1] \in Chars
         /\ FirstChars(tok) = {log[NextFrom + 1]}
<1>1. log \in Seq(Chars) /\ from \in Nat /\ from <= NextFrom /\ read_off <= Len(log)
      /\ Len(log) \in Nat /\ read_off \in Nat
  BY SoundFacts
<1>2. /\ NextFrom \in Int /\ NextFrom < Offset(tok.end_pos) /\ Offset(tok.end_pos) <= read_off
      /\ Offset(tok.end_pos) \in Int
  BY ScannedText
<1>3. log[NextFrom + 1] \in Chars
  BY <1>1, <1>2
<1>4. FirstChars(tok) # {}
  BY <1>3 DEF FirstChars, CharsOf
<1>5. QED
  BY <1>3, <1>4, FirstByte

\* What scan has returned when nothing of the event is in the view.
LEMMA FirstLine ==
  ASSUME Lined, pc = "token", tok.type # TokenEnd,
         NEW n, n = NextFrom
  PROVE  /\ LineToken(n, Offset(tok.end_pos), tok.type)
         /\ n < Offset(tok.end_pos) /\ n \in Nat /\ Offset(tok.end_pos) \in Nat
         /\ Offset(tok.end_pos) <= Len(log) /\ Len(log) \in Nat
         /\ ~out.started =>
              n = from /\ (n = 0 \/ (log[n] = Newline /\ ~HeaderAt(n)))
<1>1. Sound /\ TokenLine /\ NextEventLine /\ start_of_log = NoToken
  BY LinedFacts, ScannedText
<1>2. LineToken(n, Offset(tok.end_pos), tok.type)
  BY <1>1, ScannedText DEF TokenLine
<1>3. /\ read_off \in 0 .. Len(log) /\ Len(log) \in Nat /\ from \in Nat /\ from <= n
  BY <1>1, SoundFacts
<1>4. /\ n \in Int /\ Offset(tok.end_pos) \in Int
      /\ n < Offset(tok.end_pos) /\ Offset(tok.end_pos) <= read_off
  BY <1>1, ScannedText
<1>5. ASSUME ~out.started
      PROVE  n = from /\ (n = 0 \/ (log[n] = Newline /\ ~HeaderAt(n)))
  <2>1. out = out_reset
    BY <1>1, <1>5, ParseFacts
  <2>2. EventTokens = << >>
    BY <2>1, EmptyView DEF EventTokens
  <2>3. n = from
    BY <2>2 DEF NextFrom
  <2>4. QED
    BY <1>1, <1>5, <2>3 DEF NextEventLine
<1>6. QED
  BY <1>2, <1>3, <1>4, <1>5

\* parse goes on with the token that the last call kept: a header or not.
LEMMA UseStartOfLogLine ==
  ASSUME Lined, UseStartOfLog
  PROVE  LineInv'
<1>1. PICK t, n : t = start_of_log /\ n = NextFrom
  OBVIOUS
<1>2. /\ pc = "parse" /\ out_pos(out) = 0 /\ t # NoToken
      /\ BeginEvent(t)
      /\ buf' = buf
      /\ ParseFrame
  BY <1>1 DEF UseStartOfLog, ParseFrame, history, input_vars
<1>3. Sound /\ NextEventLine /\ ~out.started
  BY <1>2, LinedFacts, ParseFacts
<1>4. /\ Current(t) /\ t.type # TokenEnd /\ t.start_pos = Seam
  BY <1>1, <1>2, <1>3 DEF Sound, TextInv, KeptInv, Seam
<1>5. /\ out' = IF t.type = TokenHeader THEN set_header(out, t) ELSE set_first(out, t)
      /\ pc' = "scan"
  BY <1>2, <1>4 DEF BeginEvent
<1>6. AddedToView(t)
  BY <1>3, <1>5 DEF AddedToView
<1>7. PICK e \in Int : e = Offset(t.end_pos)
  <2>1. t.end_pos \in 0 .. buf.size - 1
    BY <1>3, <1>4, SoundFacts DEF Current, Tokens
  <2>2. QED
    BY <1>3, <2>1, SoundFacts
<1>8. Offset(t.start_pos) = n /\ n \in Int
  BY <1>1, <1>3, <1>4, SoundFacts
<1>9. /\ n < e /\ NoNewline(n, e) /\ (t.type = TokenHeader <=> HeaderAt(n))
  BY <1>1, <1>2, <1>3, <1>7 DEF NextEventLine
<1>10. NoNewline(n + 1, e) /\ log[n + 1] # Newline
  BY <1>7, <1>8, <1>9 DEF NoNewline
<1>11. QED
  BY <1>1, <1>2, <1>3, <1>4, <1>5, <1>6, <1>7, <1>8, <1>9, <1>10, EventGoesOn

\* parse calls scan.
LEMMA GetNextSymbolLine ==
  ASSUME Lined, GetNextSymbol
  PROVE  LineInv'
<1>1. /\ pc = "parse" /\ pc' = "scan"
      /\ UNCHANGED <<buf, out, start_of_log>>
      /\ ParseFrame
  BY DEF GetNextSymbol, ParseFrame, parse_vars, history, input_vars
<1> USE DEF ParseFrame
<1>2. Sound /\ NextEventLine /\ EventLine
  BY LinedFacts
<1>3. start_of_log = NoToken
  <2>1. start_of_log # NoToken => ~out.started
    BY <1>1, <1>2 DEF Sound, TextInv, KeptInv
  <2>2. QED
    BY <1>1, <1>2, <2>1, ParseFacts DEF GetNextSymbol
<1>4. NextFrom' = NextFrom
  <2>1. EventTokens' = EventTokens
    BY <1>1 DEF EventTokens
  <2>2. QED
    BY <1>1, <2>1, NextFromIn DEF NextIn
<1>5. \A i : HeaderAt(i)' <=> HeaderAt(i)
  BY <1>1, SameLines
<1>6. PICK n, f : n = NextFrom /\ f = from
  OBVIOUS
<1>7. NextEventLine'
  <2>1. ~out.started => n = 0 \/ (log[n] = Newline /\ ~HeaderAt(n))
    BY <1>2, <1>3, <1>6 DEF NextEventLine
  <2>2. NextFrom' = n
    BY <1>4, <1>6
  <2>3. QED
    BY <1>1, <1>3, <1>5, <2>1, <2>2 DEF NextEventLine
<1>8. EventLine'
  <2>1. /\ out.started => (out.has_header <=> HeaderAt(f)) /\ f < n
        /\ GoesOn(f, n)
    BY <1>1, <1>2, <1>6 DEF EventLine, GoesOn
  <2>2. NextFrom' = n /\ from' = f
    BY <1>1, <1>4, <1>6
  <2>3. QED
    BY <1>1, <1>5, <2>1, <2>2 DEF EventLine, GoesOn
<1>9. QED
  BY <1>1, <1>7, <1>8, ParseKeepsLines DEF Offset

\* '\n' ends the event and the rest of the token is kept for the next one.
LEMMA SplitLine ==
  ASSUME Lined, ParseFrame, pc = "token", tok.type # TokenEnd,
         AddedToView(NewlineOf(tok)), SplitAtNewline(tok),
         NEW n, n = NextFrom, log[n + 1] = Newline, tok.type # TokenNewline,
         HeaderAt(n + 1) \/ (out.started /\ ~out.has_header),
         ~out.started => ~HeaderAt(n)
  PROVE  LineInv'
<1>1. PICK t, r : t = NewlineOf(tok) /\ r = [tok EXCEPT !.start_pos = TokenNextPos(tok)]
  OBVIOUS
<1>2. /\ start_of_log' = r
      /\ buf' = set_consumed_pos(buf, tok.start_pos)
      /\ pc' = "event"
  BY <1>1 DEF SplitAtNewline
<1>3. Sound
  BY LinedFacts
<1>4. /\ Current(t) /\ t.start_pos = tok.start_pos
      /\ Offset(t.end_pos) = Offset(tok.start_pos) + 1
      /\ t.type = TokenUncaughtString
      /\ r.end_pos = tok.end_pos /\ r.type = tok.type /\ r # NoToken
  BY <1>1, <1>3, NewlineText
<1>5. Offset(tok.start_pos) = n /\ start_of_log = NoToken
  BY <1>3, ScannedText
<1>6. PICK e : e = Offset(tok.end_pos)
  OBVIOUS
<1>7. /\ LineToken(n, e, tok.type)
      /\ n < e /\ n \in Nat /\ e \in Nat /\ e <= Len(log) /\ Len(log) \in Nat
  BY <1>6, FirstLine
<1>8. /\ n + 1 < e /\ NoNewline(n + 1, e) /\ n + 1 <= Len(log)
      /\ tok.type = TokenHeader <=> HeaderAt(n + 1)
  BY <1>7 DEF LineToken
<1>9. /\ buf'.size = buf.size /\ buf'.storage = buf.storage /\ buf'.pos = buf.pos
      /\ buf'.last_read = buf.last_read
  BY <1>2, <1>3, SoundFacts DEF set_consumed_pos, IsBuffer
<1>10. \A q : OffsetOf(buf', read_off', q) = Offset(q)
  BY <1>9, OffsetSame DEF Offset, ParseFrame
<1>11. AddedToView(t)
  BY <1>1
<1>12. t.type # TokenHeader
  BY <1>4 DEF TokenUncaughtString, TokenHeader
<1>13. IF start_of_log' = NoToken THEN ~HeaderAt(n + 1)
       ELSE /\ n + 1 < Offset(start_of_log'.end_pos)
            /\ NoNewline(n + 1, Offset(start_of_log'.end_pos))
            /\ start_of_log'.type = TokenHeader <=> HeaderAt(n + 1)
  BY <1>2, <1>4, <1>6, <1>8
<1>14. Offset(t.start_pos) = NextFrom /\ Offset(t.end_pos) = n + 1
  BY <1>4, <1>5
<1>15. QED
  BY <1>2, <1>4, <1>5, <1>8, <1>9, <1>10, <1>11, <1>12, <1>13, <1>14, EventEndsHere

\* "make a message with just the '\n' character".
LEMMA FirstTokenNewlineLine ==
  ASSUME Lined, FirstTokenNewline
  PROVE  LineInv'
<1>1. /\ pc = "token" /\ out_pos(out) = 0
      /\ tok.type = TokenHeader /\ tok.type \notin {TokenEnd, TokenNewline}
      /\ Newline \in FirstChars(tok)
      /\ out' = set_first(out, NewlineOf(tok))
      /\ SplitAtNewline(tok)
      /\ ParseFrame
  BY DEF FirstTokenNewline, ParseFrame, history, input_vars, TokenHeader, TokenEnd,
         TokenNewline
<1>2. Sound /\ LineRules /\ LinesApart /\ ~out.started
  BY <1>1, LinedFacts, ParseFacts
<1>3. NewlineOf(tok).type # TokenHeader
  BY <1>1, <1>2, NewlineText DEF TokenUncaughtString, TokenHeader
<1>4. AddedToView(NewlineOf(tok))
  BY <1>1, <1>2, <1>3 DEF AddedToView
<1>5. PICK n, e : n = NextFrom /\ e = Offset(tok.end_pos)
  OBVIOUS
<1>6. /\ LineToken(n, e, tok.type) /\ n < e /\ n \in Nat
      /\ e \in Nat /\ e <= Len(log) /\ Len(log) \in Nat
      /\ n = 0 \/ (log[n] = Newline /\ ~HeaderAt(n))
  BY <1>1, <1>2, <1>5, FirstLine
<1>7. log[n + 1] = Newline
  BY <1>1, <1>2, <1>5, FirstByte
<1>8. HeaderAt(n + 1)
  BY <1>1, <1>6, <1>7 DEF LineToken
<1>9. ~HeaderAt(n)
  <2>1. CASE n = 0
    <3>1. log \in Seq(Chars) /\ log[1] = Newline /\ Len(log) > 0
      BY <1>2, <1>6, <1>7, <2>1, SoundFacts
    <3>2. QED
      BY <1>2, <2>1, <3>1, NoHeaderAtNewline
  <2>2. QED
    BY <1>6, <2>1
<1>10. QED
  BY <1>1, <1>4, <1>5, <1>7, <1>8, <1>9, SplitLine

\* The first token of an event, or the end of the log.
LEMMA FirstTokenLine ==
  ASSUME Lined, FirstToken
  PROVE  LineInv'
<1>1. /\ pc = "token" /\ out_pos(out) = 0
      /\ tok.type # TokenHeader \/ \E c \in FirstChars(tok) : c # Newline
      /\ BeginEvent(tok)
      /\ UNCHANGED <<buf, tok>>
      /\ ParseFrame
  BY DEF FirstToken, ParseFrame, history, input_vars
<1>2. Sound /\ LineRules /\ LinesApart /\ ~out.started /\ out = out_reset
  BY <1>1, LinedFacts, ParseFacts
<1>3. PICK n, e : n = NextFrom /\ e = Offset(tok.end_pos)
  OBVIOUS
<1>4. CASE tok.type # TokenEnd
  <2>1. /\ LineToken(n, e, tok.type) /\ n < e /\ n \in Nat /\ e \in Nat
        /\ e <= Len(log) /\ Len(log) \in Nat
        /\ n = 0 \/ (log[n] = Newline /\ ~HeaderAt(n))
    BY <1>1, <1>2, <1>3, <1>4, FirstLine
  <2>2. /\ out' = IF tok.type = TokenHeader THEN set_header(out, tok) ELSE set_first(out, tok)
        /\ pc' = "scan"
    BY <1>1, <1>4 DEF BeginEvent
  <2>3. AddedToView(tok)
    BY <1>2, <2>2 DEF AddedToView
  <2>4. Current(tok) /\ Offset(tok.start_pos) = NextFrom
    BY <1>1, <1>2, <1>4, ScannedText
  <2>5. log[n + 1] = Newline => ~HeaderAt(n) /\ ~HeaderAt(n + 1)
    <3>1. SUFFICES ASSUME log[n + 1] = Newline PROVE ~HeaderAt(n) /\ ~HeaderAt(n + 1)
      OBVIOUS
    <3>2. tok.type # TokenHeader
      BY <1>1, <1>2, <1>3, <1>4, <3>1, FirstByte
    <3>3. ~HeaderAt(n + 1)
      BY <2>1, <3>1, <3>2 DEF LineToken
    <3>4. ~HeaderAt(n)
      <4>1. CASE n = 0
        <5>1. log \in Seq(Chars) /\ log[1] = Newline /\ Len(log) > 0
          BY <1>2, <2>1, <3>1, <4>1, SoundFacts
        <5>2. QED
          BY <1>2, <4>1, <5>1, NoHeaderAtNewline
      <4>2. QED
        BY <2>1, <4>1
    <3>5. QED
      BY <3>3, <3>4
  <2>6. tok.type = TokenHeader <=> HeaderAt(n)
    <3>1. CASE log[n + 1] = Newline
      BY <2>1, <2>5, <3>1 DEF LineToken
    <3>2. CASE log[n + 1] # Newline
      BY <2>1, <3>2 DEF LineToken
    <3>3. QED
      BY <3>1, <3>2
  <2>7. NoNewline(n + 1, e)
    BY <2>1 DEF LineToken
  <2>8. e \in Int
    BY <2>1
  <2>9. QED
    BY <1>1, <1>2, <1>3, <2>1, <2>2, <2>3, <2>4, <2>5, <2>6, <2>7, <2>8, EventGoesOn
<1>5. CASE tok.type = TokenEnd
  <2>1. /\ out' = set_end(out, tok)
        /\ done' = TRUE /\ pc' = "event"
    BY <1>1, <1>5 DEF BeginEvent, Finish
  <2>2. out'.started /\ ~out'.has_header /\ out'.rest = << >>
    BY <1>2, <2>1 DEF set_end, out_reset
  <2>3. EventTokens' = << >> /\ EventTokens = << >>
    BY <1>2, <2>2, EmptyView DEF EventTokens
  <2>4. ~HeaderAt(from)
    <3>1. from = NextFrom
      BY <2>3 DEF NextFrom
    <3>2. Offset(tok.start_pos) = read_off /\ buf.finished
      BY <1>1, <1>2, <1>5 DEF Sound, TextInv, TokenInv
    <3>3. from = Len(log) /\ Len(log) \in Nat
      BY <1>1, <1>2, <3>1, <3>2, SoundFacts DEF Seam
    <3>4. QED
      BY <3>3 DEF HeaderAt
  <2>5. QED
    BY <1>1, <1>5, <2>1, <2>2, <2>3, <2>4, EventEndsLast
<1>6. QED
  BY <1>4, <1>5

\* The log ends with an event.
LEMMA NextTokenEndLine ==
  ASSUME Lined, NextTokenEnd
  PROVE  LineInv'
<1>1. /\ pc = "token" /\ out_pos(out) # 0
      /\ tok.type = TokenEnd
      /\ done' = TRUE /\ pc' = "event"
      /\ UNCHANGED <<buf, tok, out, start_of_log>>
      /\ ParseFrame
  BY DEF NextTokenEnd, Finish, ParseFrame, history, input_vars
<1>2. Sound /\ EventLine /\ out.started
  BY <1>1, LinedFacts, ParseFacts
<1>3. out'.started /\ (out'.has_header <=> HeaderAt(from))
  BY <1>1, <1>2 DEF EventLine
<1>4. EventTokens' = EventTokens
  BY <1>1 DEF EventTokens
<1>5. QED
  BY <1>1, <1>3, <1>4, EventEndsLast

\* '\n' ends an event without a header.
LEMMA NextTokenNewlineLine ==
  ASSUME Lined, NextTokenNewline
  PROVE  LineInv'
<1>1. /\ pc = "token" /\ out_pos(out) # 0 /\ ~out.has_header
      /\ tok.type = TokenNewline /\ tok.type \notin {TokenEnd, TokenHeader}
      /\ buf' = set_consumed_pos(buf, tok.end_pos)
      /\ out' = add_token(out, tok)
      /\ pc' = "event"
      /\ start_of_log' = start_of_log
      /\ ParseFrame
  BY DEF NextTokenNewline, ParseFrame, history, input_vars, TokenNewline, TokenEnd,
         TokenHeader
<1>2. Sound /\ out.started
  BY <1>1, LinedFacts, ParseFacts
<1>3. AddedToView(tok)
  BY <1>1, <1>2 DEF AddedToView
<1>4. PICK n, e : n = NextFrom /\ e = Offset(tok.end_pos)
  OBVIOUS
<1>5. /\ LineToken(n, e, tok.type) /\ n < e /\ n \in Nat /\ e \in Nat
      /\ e <= Len(log) /\ Len(log) \in Nat
  BY <1>1, <1>4, FirstLine
<1>6. log[n + 1] = Newline /\ e = n + 1 /\ ~HeaderAt(n + 1)
  BY <1>1, <1>5 DEF LineToken
<1>7. Current(tok) /\ Offset(tok.start_pos) = NextFrom /\ start_of_log = NoToken
  BY <1>1, <1>2, ScannedText
<1>8. /\ buf'.size = buf.size /\ buf'.storage = buf.storage /\ buf'.pos = buf.pos
      /\ buf'.last_read = buf.last_read
  BY <1>1, <1>2, SoundFacts DEF set_consumed_pos, IsBuffer
<1>9. \A q : OffsetOf(buf', read_off', q) = Offset(q)
  BY <1>1, <1>8, OffsetSame DEF Offset, ParseFrame
<1>10. n + 1 <= Len(log) /\ Offset(tok.end_pos) = n + 1
  BY <1>4, <1>5, <1>6
<1>11. start_of_log' = NoToken
  BY <1>1, <1>7
<1>12. QED
  BY <1>1, <1>2, <1>3, <1>4, <1>6, <1>7, <1>8, <1>9, <1>10, <1>11, EventEndsHere

\* '\n' before the next event.
LEMMA NextTokenStartLine ==
  ASSUME Lined, NextTokenStart
  PROVE  LineInv'
<1>1. /\ pc = "token" /\ out_pos(out) # 0
      /\ tok.type # TokenEnd
      /\ out' = add_token(out, NewlineOf(tok))
      /\ SplitAtNewline(tok)
      /\ ParseFrame
  BY DEF NextTokenStart, ParseFrame, history, input_vars
<1>2. PICK first \in FirstChars(tok) : found_start_of_next_message(tok, first)
  BY DEF NextTokenStart
<1>3. Sound /\ out.started
  BY <1>1, LinedFacts, ParseFacts
<1>4. AddedToView(NewlineOf(tok))
  BY <1>1, <1>3 DEF AddedToView
<1>5. PICK n, e : n = NextFrom /\ e = Offset(tok.end_pos)
  OBVIOUS
<1>6. LineToken(n, e, tok.type) /\ n < e
  BY <1>1, <1>5, FirstLine
<1>7. log[n + 1] = Newline
  BY <1>1, <1>2, <1>3, <1>5, FirstByte DEF found_start_of_next_message
<1>8. /\ tok.type # TokenNewline
      /\ out.has_header => HeaderAt(n + 1)
  BY <1>2, <1>6, <1>7 DEF found_start_of_next_message, LineToken, TokenHeader, TokenNewline
<1>9. QED
  BY <1>1, <1>3, <1>4, <1>5, <1>7, <1>8, SplitLine

\* One more token of the event.
LEMMA NextTokenLine ==
  ASSUME Lined, NextToken
  PROVE  LineInv'
<1>1. /\ pc = "token" /\ out_pos(out) # 0
      /\ tok.type # TokenEnd
      /\ out.has_header \/ tok.type # TokenNewline
      /\ out' = add_token(out, tok)
      /\ pc' = "scan"
      /\ buf' = buf
      /\ ParseFrame
  BY DEF NextToken, ParseFrame, history, input_vars
<1>2. PICK first \in FirstChars(tok) : ~found_start_of_next_message(tok, first)
  BY DEF NextToken
<1>3. Sound /\ EventLine /\ out.started
  BY <1>1, LinedFacts, ParseFacts
<1>4. AddedToView(tok)
  BY <1>1, <1>3 DEF AddedToView
<1>5. PICK n, e : n = NextFrom /\ e = Offset(tok.end_pos)
  OBVIOUS
<1>6. LineToken(n, e, tok.type) /\ n < e /\ e \in Int /\ NoNewline(n + 1, e)
  BY <1>1, <1>5, FirstLine DEF LineToken
<1>7. Current(tok) /\ Offset(tok.start_pos) = NextFrom
  BY <1>1, <1>3, ScannedText
<1>8. log[n + 1] = Newline => ~HeaderAt(n + 1) /\ HeaderAt(from)
  <2>1. SUFFICES ASSUME log[n + 1] = Newline PROVE ~HeaderAt(n + 1) /\ HeaderAt(from)
    OBVIOUS
  <2>2. first = Newline
    BY <1>1, <1>2, <1>3, <1>5, <2>1, FirstByte
  <2>3. out.has_header /\ tok.type # TokenHeader
    BY <1>1, <1>2, <2>2 DEF found_start_of_next_message
  <2>4. QED
    BY <1>3, <1>6, <2>1, <2>3 DEF EventLine, LineToken
<1>9. QED
  BY <1>1, <1>3, <1>4, <1>5, <1>6, <1>7, <1>8, EventGoesOn

LEMMA ParseLine ==
  ASSUME Lined, Parse
  PROVE  LineInv'
BY UseStartOfLogLine, GetNextSymbolLine, FirstTokenNewlineLine, FirstTokenLine,
   NextTokenEndLine, NextTokenNewlineLine, NextTokenStartLine, NextTokenLine DEF Parse

-----------------------------------------------------------------------------
(***************************************************************************)
(* parse_next_event: reading and growing.                                  *)
(***************************************************************************)

\* Where the last match ends and where the first delimiter is matter only if there is
\* one.
LEMMA MatchedLine ==
  ASSUME NEW x, NEW l, NEW s, NEW p, NEW m, NEW f, LineState(x, l, s, p, m, f),
         NEW n, x.match => n = m, NEW g, x.first_delim # Unset => g = f
  PROVE  LineState(x, l, s, p, n, g)
<1>1. \A t, i : Noted(x, t, i, p, m) => Noted(x, t, i, p, n)
  BY DEF Noted
<1>2. \A d : Tries(x, s, d, p, m) => Tries(x, s, d, p, n)
  BY <1>1 DEF Tries
<1>3. InsideLine(x, l, s, p, m) => InsideLine(x, l, s, p, n)
  BY <1>2 DEF InsideLine
<1>4. /\ AtFileStart(x, s, p, m) => AtFileStart(x, s, p, n)
      /\ AtLineStart(x, l, s, p, m) => AtLineStart(x, l, s, p, n)
  BY <1>1 DEF AtFileStart, AtLineStart
<1>5. CleanUpTo(x, l, p, f) => CleanUpTo(x, l, p, g)
  BY DEF CleanUpTo
<1>6. QED
  BY <1>3, <1>4, <1>5 DEF LineState

\* A read that leaves the bytes that are needed where they are.
LEMMA ReadKeepsLines ==
  ASSUME Lined, pc \in {"ready", "event", "failed"}, pc' \in {"parse", "failed"},
         UNCHANGED <<log, lex>>, buf'.pos = buf.pos,
         buf.finished => buf' = buf /\ read_off' = read_off,
         \A p \in 0 .. buf.size - 1 :
           Needed <= Offset(p) => OffsetOf(buf', read_off', p) = Offset(p)
  PROVE  MainLine' /\ SkipLine' /\ RestLine' /\ TokenLine'
<1>1. PICK x : x = lex
  OBVIOUS
<1>2. /\ buf.pos \in 0 .. buf.size - 1
      /\ Needed \in Int
      /\ x.start_pos \in 0 .. buf.size - 1
      /\ x.match_pos \in 0 .. buf.size - 1
      /\ x.last_match_pos \in 0 .. buf.size - 1
      /\ x.first_delim # Unset => x.first_delim \in 0 .. buf.size - 1
      /\ \A p \in 0 .. buf.size - 1 : Offset(p) \in Int
  BY <1>1, LinedFacts, SoundFacts
<1>3. Needed <= Offset(Pending)
  BY LinedFacts, PendingKept
<1>4. RestInv /\ MainInv /\ MainLine /\ RestLine
  BY LinedFacts DEF Sound, TextInv, LexerInv
<1>5. \A p : Offset(p)' = OffsetOf(buf', read_off', p)
  BY DEF Offset
<1>6. MainLine'
  <2>1. SUFFICES ASSUME x.asked
                 PROVE  LineState(x, OffsetOf(buf', read_off', x.last_match_pos),
                                  OffsetOf(buf', read_off', x.start_pos),
                                  OffsetOf(buf', read_off', buf'.pos),
                                  OffsetOf(buf', read_off', x.match_pos),
                                  OffsetOf(buf', read_off', x.first_delim))
    BY <1>1, SameLines DEF MainLine, Offset
  <2>2. /\ Offset(x.last_match_pos) <= Offset(x.start_pos)
        /\ Offset(x.start_pos) <= Offset(buf.pos)
        /\ x.match => Offset(x.start_pos) < Offset(x.match_pos)
        /\ x.first_delim # Unset => Offset(x.last_match_pos) < Offset(x.first_delim)
    BY <1>1, <1>4, <2>1 DEF MainInv
  <2>3. Needed <= Offset(x.last_match_pos)
    BY <1>1, <1>3, <2>1 DEF Pending
  <2>4. /\ Needed <= Offset(x.start_pos)
        /\ Needed <= Offset(buf.pos)
        /\ x.match => Needed <= Offset(x.match_pos)
        /\ x.first_delim # Unset => Needed <= Offset(x.first_delim)
    BY <1>2, <2>2, <2>3
  <2>5. /\ OffsetOf(buf', read_off', x.last_match_pos) = Offset(x.last_match_pos)
        /\ OffsetOf(buf', read_off', x.start_pos) = Offset(x.start_pos)
        /\ OffsetOf(buf', read_off', buf'.pos) = Offset(buf.pos)
        /\ x.match => OffsetOf(buf', read_off', x.match_pos) = Offset(x.match_pos)
        /\ x.first_delim # Unset =>
             OffsetOf(buf', read_off', x.first_delim) = Offset(x.first_delim)
    BY <1>2, <2>3, <2>4
  <2>6. LineState(x, Offset(x.last_match_pos), Offset(x.start_pos),
                  Offset(buf.pos), Offset(x.match_pos), Offset(x.first_delim))
    BY <1>1, <1>4, <2>1 DEF MainLine
  <2>7. QED
    BY <2>5, <2>6, MatchedLine
<1>7. RestLine'
  <2>1. SUFFICES ASSUME ~x.asked
                 PROVE  IF x.match
                        THEN LineToken(OffsetOf(buf', read_off', x.start_pos),
                                       OffsetOf(buf', read_off', x.match_pos), x.type)
                        ELSE OffsetOf(buf', read_off', x.last_match_pos) = 0 => ~HeaderAt(0)
    BY <1>1, SameLines DEF RestLine, Offset
  <2>2. IF x.match THEN LineToken(Offset(x.start_pos), Offset(x.match_pos), x.type)
        ELSE Offset(x.last_match_pos) = 0 => ~HeaderAt(0)
    BY <1>1, <1>4, <2>1 DEF RestLine
  <2>3. CASE x.match
    <3>1. Needed <= Offset(x.start_pos)
      BY <1>1, <1>3, <2>1, <2>3 DEF Pending
    <3>2. x.type # TokenEnd => Offset(x.start_pos) < Offset(x.match_pos)
      BY <1>1, <1>4, <2>1, <2>3 DEF RestInv
    <3>3. x.type = TokenEnd => buf.finished
      BY <1>1, <1>4, <2>1, <2>3 DEF RestInv
    <3>4. CASE x.type # TokenEnd
      <4>1. Needed <= Offset(x.match_pos)
        BY <1>2, <3>1, <3>2, <3>4
      <4>2. QED
        BY <1>2, <2>2, <2>3, <3>1, <4>1
    <3>5. CASE x.type = TokenEnd
      BY <2>2, <2>3, <3>3, <3>5 DEF Offset
    <3>6. QED
      BY <3>4, <3>5
  <2>4. CASE ~x.match
    <3>1. Needed <= Offset(x.last_match_pos)
      BY <1>1, <1>3, <2>1, <2>4 DEF Pending
    <3>2. QED
      BY <1>2, <2>2, <2>4, <3>1
  <2>5. QED
    BY <2>3, <2>4
<1>8. SkipLine' /\ TokenLine'
  BY DEF SkipLine, TokenLine
<1>9. QED
  BY <1>6, <1>7, <1>8

\* The first half of parse_next_event.
LEMMA ParseNextEventLine ==
  ASSUME Lined, ParseNextEvent
  PROVE  LineInv'
<1>1. /\ pc \in {"ready", "event", "failed"} /\ ~done
      /\ out' = out_reset
      /\ from' = IF pc = "event" THEN NextFrom ELSE from
      /\ pc' \in {"parse", "failed"}
      /\ ReadInto(buf) \/ UNCHANGED <<buf, read_off>>
      /\ UNCHANGED <<log, retired, lex, start_of_log, skip, done, intact>>
  BY DEF ParseNextEvent
<1>2. Sound /\ NextEventLine
  BY LinedFacts
<1>3. /\ log \in Seq(Chars) /\ read_off \in 0 .. Len(log)
      /\ IsBuffer(buf) /\ RingOf(buf, read_off)
      /\ Needed \in Int /\ KeepsFrom(buf, read_off, Needed)
      /\ buf.finished => read_off = Len(log)
      /\ NextFrom \in Int /\ buf.size \in Nat
  BY <1>2, SoundFacts
<1>4. /\ buf'.pos = buf.pos
      /\ buf.finished => buf' = buf /\ read_off' = read_off
      /\ \A p \in 0 .. buf.size - 1 :
           Needed <= Offset(p) => OffsetOf(buf', read_off', p) = Offset(p)
  <2>1. CASE ReadInto(buf)
    BY <1>3, <2>1, ReadIntoKeeps DEF Offset
  <2>2. CASE UNCHANGED <<buf, read_off>>
    BY <2>2 DEF Offset
  <2>3. QED
    BY <1>1, <2>1, <2>2
<1>5. pc # "event" => ~out.started /\ out = out_reset
  BY <1>1, <1>2 DEF Sound, TextInv, ViewInv
<1>6. from' = NextFrom
  <2>1. CASE pc = "event"
    BY <1>1, <2>1
  <2>2. CASE pc # "event"
    <3>1. EventTokens = << >>
      BY <1>5, <2>2, EmptyView DEF EventTokens
    <3>2. QED
      BY <1>1, <2>2, <3>1 DEF NextFrom
  <2>3. QED
    BY <2>1, <2>2
<1>7. NextFrom' = NextFrom /\ ~out'.started
  <2>1. EventTokens' = << >> /\ ~out'.started
    BY <1>1, EmptyView DEF EventTokens
  <2>2. NextFrom' = from'
    BY <2>1 DEF NextFrom
  <2>3. QED
    BY <1>6, <2>1, <2>2
<1>8. \A i : HeaderAt(i)' <=> HeaderAt(i)
  BY <1>1, SameLines
<1>9. NextEventLine'
  <2>1. PICK n : n = NextFrom
    OBVIOUS
  <2>2. NextFrom' = n
    BY <1>7, <2>1
  <2>3. CASE start_of_log = NoToken
    <3>1. n = 0 \/ (log[n] = Newline /\ ~HeaderAt(n))
      BY <1>1, <1>2, <1>5, <2>1, <2>3 DEF NextEventLine
    <3>2. QED
      BY <1>1, <1>8, <2>2, <2>3, <3>1 DEF NextEventLine
  <2>4. CASE start_of_log # NoToken
    <3>1. PICK t : t = start_of_log
      OBVIOUS
    <3>2. PICK e : e = Offset(t.end_pos)
      OBVIOUS
    <3>3. /\ n > 0 /\ log[n] = Newline /\ n < e /\ NoNewline(n, e)
          /\ t.type = TokenHeader <=> HeaderAt(n)
      BY <1>1, <1>2, <1>5, <2>1, <2>4, <3>1, <3>2 DEF NextEventLine
    <3>4. t.end_pos = Pending
      BY <1>2, <2>4, <3>1 DEF Sound, TextInv, KeptInv
    <3>5. OffsetOf(buf', read_off', t.end_pos) = e
      BY <1>1, <1>2, <1>4, <3>2, <3>4, PendingKept
    <3>6. Offset(start_of_log.end_pos)' = e
      BY <1>1, <3>1, <3>5 DEF Offset
    <3>7. NoNewline(n, e)'
      BY <1>1, <3>3, SameLines
    <3>8. QED
      BY <1>1, <1>8, <2>2, <2>4, <3>1, <3>3, <3>6, <3>7 DEF NextEventLine, NoNewline
  <2>5. QED
    BY <2>3, <2>4
<1>10. EventLine'
  <2>1. pc' # "event"
    BY <1>1
  <2>2. from' + 1 .. NextFrom' = {}
    BY <1>3, <1>6, <1>7
  <2>3. QED
    BY <1>7, <2>1, <2>2 DEF EventLine
<1>11. MainLine' /\ SkipLine' /\ RestLine' /\ TokenLine'
  BY <1>1, <1>4, ReadKeepsLines
<1>12. QED
  BY <1>9, <1>10, <1>11 DEF LineInv

\* Growth moves the bytes, and what the lexer holds moves along.
LEMMA IncreaseCapacityLine ==
  ASSUME Lined, IncreaseCapacity, "text" \in intact'
  PROVE  LineInv'
<1>1. Sound /\ MainLine /\ NextEventLine /\ EventLine
  BY LinedFacts
<1>2. PICK c, m : c = buf' /\ m = read_off'
  OBVIOUS
<1>3. /\ pc = "oob" /\ pc' = "parse"
      /\ UNCHANGED <<log, out, start_of_log, tok, done, from>>
      /\ lex'.asked /\ lex'.match = lex.match /\ lex'.state = lex.state
      /\ lex'.type = lex.type /\ lex'.first_delim = lex.first_delim
      /\ OffsetOf(c, m, lex'.last_match_pos) = Offset(lex.last_match_pos)
      /\ OffsetOf(c, m, lex'.start_pos) = Offset(lex.start_pos)
      /\ OffsetOf(c, m, c.pos) = Offset(buf.pos)
      /\ lex.match => OffsetOf(c, m, lex'.match_pos) = Offset(lex.match_pos)
      /\ lex.first_delim # Unset =>
           OffsetOf(c, m, lex'.first_delim) = Offset(lex.first_delim)
      /\ NextFrom' = NextFrom
  BY <1>1, <1>2, GrowthFacts
<1>4. lex.asked /\ start_of_log = NoToken
  BY <1>1, <1>3, OutOfBoundsFacts
<1>5. MainLine'
  <2>1. PICK x, y : x = lex /\ y = lex'
    OBVIOUS
  <2>2. PICK l, s, p, n, g :
          /\ l = Offset(x.last_match_pos) /\ s = Offset(x.start_pos)
          /\ p = Offset(buf.pos) /\ n = OffsetOf(c, m, y.match_pos)
          /\ g = OffsetOf(c, m, y.first_delim)
    OBVIOUS
  <2>3. LineState(x, l, s, p, n, g)
    <3>1. LineState(x, l, s, p, Offset(x.match_pos), Offset(x.first_delim))
      BY <1>1, <1>4, <2>1, <2>2 DEF MainLine
    <3>2. QED
      BY <1>3, <2>1, <2>2, <3>1, MatchedLine
  <2>4. LineState(y, l, s, p, n, g)
    <3>1. /\ y.match = x.match /\ y.state = x.state /\ y.type = x.type
          /\ y.first_delim = x.first_delim
      BY <1>3, <2>1
    <3>2. QED
      BY <2>3, <3>1, SameLexer
  <2>5. /\ Offset(lex.last_match_pos)' = l /\ Offset(lex.start_pos)' = s
        /\ Offset(buf.pos)' = p /\ Offset(lex.match_pos)' = n
        /\ Offset(lex.first_delim)' = g
    BY <1>2, <1>3, <2>1, <2>2 DEF Offset
  <2>6. LineState(y, l, s, p, n, g)'
    BY <1>3, <2>4, SameLines
  <2>7. LineState(lex', l, s, p, n, g)
    BY <2>1, <2>4
  <2>8. QED
    BY <1>3, <2>5, <2>7, SameLines DEF MainLine
<1>6. SkipLine' /\ RestLine' /\ TokenLine'
  BY <1>3 DEF SkipLine, RestLine, TokenLine
<1>7. \A i : HeaderAt(i)' <=> HeaderAt(i)
  BY <1>3, SameLines
<1>8. PICK n, f : n = NextFrom /\ f = from
  OBVIOUS
<1>9. NextEventLine'
  <2>1. ~out.started => n = 0 \/ (log[n] = Newline /\ ~HeaderAt(n))
    BY <1>1, <1>4, <1>8 DEF NextEventLine
  <2>2. NextFrom' = n
    BY <1>3, <1>8
  <2>3. QED
    BY <1>3, <1>4, <1>7, <2>1, <2>2 DEF NextEventLine
<1>10. EventLine'
  <2>1. /\ out.started => (out.has_header <=> HeaderAt(f)) /\ f < n
        /\ GoesOn(f, n)
    BY <1>1, <1>3, <1>8 DEF EventLine, GoesOn
  <2>2. NextFrom' = n /\ from' = f
    BY <1>3, <1>8
  <2>3. QED
    BY <1>3, <1>7, <2>1, <2>2 DEF EventLine, GoesOn
<1>11. QED
  BY <1>5, <1>6, <1>9, <1>10 DEF LineInv

\* A fresh reader is at the start of the file.
LEMMA FreshLine == FreshReader => LineInv
<1> SUFFICES ASSUME FreshReader PROVE LineInv
  OBVIOUS
<1> USE DEF FreshReader
<1>1. buf.pos = 0 /\ OffsetOf(buf, 0, 0) = 0
  BY FreshBuffer
<1>2. Offset(0) = 0
  BY <1>1 DEF Offset
<1>3. /\ lex.asked /\ ~lex.match
      /\ lex.start_pos = 0 /\ lex.last_match_pos = 0
      /\ lex.state = StartOfFile /\ lex.first_delim = Unset
  <2>1. reset(StaticSize).pos = 0
    BY DEF reset
  <2>2. PICK z : z = lexer_reset
    OBVIOUS
  <2>3. lex = [z EXCEPT !.state = StartOfFile, !.asked = TRUE, !.start_pos = 0,
                        !.match_pos = 0, !.type = NoType]
    BY <2>1, <2>2 DEF prepend_start_of_file_char
  <2>4. QED
    BY <2>2, <2>3 DEF lexer_reset
<1>4. ~out.started /\ NextFrom = 0
  <2>1. EventTokens = << >> /\ ~out.started
    BY EmptyView DEF EventTokens
  <2>2. QED
    BY <2>1 DEF NextFrom
<1>5. MainLine
  <2>1. Run(StartOfFile, 0, 0) = StartOfFile
    BY RunSteps
  <2>2. \A j \in MatchEnds(StartOfFile, 0) : ~(j < 0)
    BY DEF MatchEnds
  <2>3. NoNewline(0, 0)
    BY DEF NoNewline
  <2>4. \A m : AtFileStart(lex, 0, 0, m)
    BY <1>3, <2>1, <2>2, <2>3 DEF AtFileStart, Noted
  <2>5. \A m, f : LineState(lex, 0, 0, 0, m, f)
    BY <1>3, <2>3, <2>4 DEF LineState, CleanUpTo
  <2>6. QED
    BY <1>1, <1>2, <1>3, <2>5 DEF MainLine
<1>6. SkipLine /\ RestLine /\ TokenLine
  BY <1>3 DEF SkipLine, RestLine, TokenLine
<1>7. NextEventLine
  BY <1>4 DEF NextEventLine
<1>8. EventLine
  BY <1>4 DEF EventLine
<1>9. QED
  BY <1>5, <1>6, <1>7, <1>8 DEF LineInv

\* The initial states.
LEMMA InitLineInv == Init => LineInv
<1>1. Init => FreshReader
  BY ReaderAssumption DEF Init, FreshReader
<1>2. QED
  BY <1>1, FreshLine

\* Every step keeps the invariant.
LEMMA NextLineInv ==
  LineRules /\ TypeInv /\ TextInv /\ LineInv /\ [Next]_vars => LineInv'
<1> SUFFICES ASSUME LineRules, TypeInv, TextInv, LineInv, [Next]_vars PROVE LineInv'
  OBVIOUS
<1>1. CASE "text" \notin intact'
  BY <1>1 DEF LineInv
<1>2. CASE "text" \in intact' /\ ResetAndSetReader
  <2>1. PICK l \in NextLogs : ResetTo(l)
    BY <1>2 DEF ResetAndSetReader
  <2>2. log' \in Seq(Chars)
    BY <2>1, ReaderAssumption DEF ResetTo
  <2>3. start_of_log = NoToken
    BY <1>2 DEF ResetAndSetReader
  <2>4. FreshReader'
    BY <1>2, <2>1, <2>2, <2>3 DEF ResetAndSetReader, ResetTo, FreshReader
  <2>5. FreshReader' => LineInv'
    BY FreshLine, PTL
  <2>6. QED
    BY <2>4, <2>5
<1>3. CASE "text" \in intact' /\ LinesApart' /\ IncreaseCapacity
  <2>1. (intact' = StillIntact \/ intact' = {}) /\ log' = log
    BY <1>3 DEF IncreaseCapacity
  <2>2. "text" \in intact
    BY <1>3, <2>1 DEF StillIntact
  <2>3. Lined
    BY <1>3, <2>1, <2>2, SameLines DEF Sound, Lined
  <2>4. QED
    BY <1>3, <2>3, IncreaseCapacityLine
<1>4. CASE "text" \in intact' /\ LinesApart' /\ (ParseNextEvent \/ Scan \/ Parse)
  <2>1. intact' = intact /\ log' = log
    <3>1. CASE ParseNextEvent
      BY <3>1 DEF ParseNextEvent
    <3>2. CASE Scan
      BY <3>2 DEF Scan, ScanResume, ScanPrepared, ScanFresh, ScanOutOfBounds, ScanNewline,
         ScanContinue, ScanMatch, ScanLastText, ScanEnd, ScanUncaught, ScanSkip,
         SkipCharacter, SkipOutOfBounds, SkipEnd, parse_vars, history, input_vars
    <3>3. CASE Parse
      BY <3>3 DEF Parse, UseStartOfLog, GetNextSymbol, FirstTokenNewline, FirstToken,
         NextTokenEnd, NextTokenNewline, NextTokenStart, NextToken, parse_vars, history,
         input_vars
    <3>4. QED
      BY <1>4, <3>1, <3>2, <3>3
  <2>2. Lined
    BY <1>4, <2>1, SameLines DEF Sound, Lined
  <2>3. QED
    BY <1>4, <2>2, ParseNextEventLine, ScanLine, ParseLine
<1>5. CASE UNCHANGED vars
  <2>1. UNCHANGED <<log, read_off, buf, retired, lex, out, start_of_log, tok, skip, pc,
                    done, from, intact>>
    BY <1>5 DEF vars, history
  <2>2. NextFrom' = NextFrom /\ \A p : Offset(p)' = Offset(p)
    <3>1. EventTokens' = EventTokens
      BY <2>1 DEF EventTokens
    <3>2. NextFrom' = NextFrom
      BY <2>1, <3>1, NextFromIn DEF NextIn
    <3>3. QED
      BY <2>1, <3>2 DEF Offset
  <2>3. MainLine' <=> MainLine
    <3>1. PICK x, l, s, p, m, g :
            /\ x = lex /\ l = Offset(lex.last_match_pos) /\ s = Offset(lex.start_pos)
            /\ p = Offset(buf.pos) /\ m = Offset(lex.match_pos)
            /\ g = Offset(lex.first_delim)
      OBVIOUS
    <3>2. LineState(x, l, s, p, m, g)' <=> LineState(x, l, s, p, m, g)
      BY <2>1, SameLines
    <3>3. /\ lex' = x /\ Offset(lex.last_match_pos)' = l /\ Offset(lex.start_pos)' = s
          /\ Offset(buf.pos)' = p /\ Offset(lex.match_pos)' = m
          /\ Offset(lex.first_delim)' = g
      BY <2>1, <3>1 DEF Offset
    <3>4. QED
      BY <2>1, <3>1, <3>2, <3>3, SameLines DEF MainLine
  <2>4. SkipLine' <=> SkipLine
    BY <2>1, SameLines DEF SkipLine, Offset
  <2>5. RestLine' <=> RestLine
    BY <2>1, SameLines DEF RestLine, Offset
  <2>6. TokenLine' <=> TokenLine
    BY <2>1, SameLines DEF TokenLine, Offset
  <2>7. PICK n, f : n = NextFrom /\ f = from
    OBVIOUS
  <2>8. NextFrom' = n /\ from' = f
    BY <2>1, <2>2, <2>7
  <2>9. NextEventLine' <=> NextEventLine
    BY <2>1, <2>7, <2>8, SameLines DEF NextEventLine, Offset
  <2>10. EventLine' <=> EventLine
    BY <2>1, <2>7, <2>8, SameLines DEF EventLine
  <2>11. QED
    BY <2>1, <2>3, <2>4, <2>5, <2>6, <2>9, <2>10, SameLines DEF LineInv
<1>6. CASE ~LinesApart'
  BY <1>6 DEF LineInv
<1>7. QED
  BY <1>1, <1>2, <1>3, <1>4, <1>5, <1>6 DEF Next

\* Behind the end of the log there is no header.
LEMMA NoHeaderAtEnd == \A i \in Nat : i >= Len(log) => ~HeaderAt(i)
BY DEF HeaderAt

\* What the two invariants say of an event.
LEMMA EventFromLines ==
  ASSUME Sound, LineInv, LinesApart, ViewTypeInv, pc = "event"
  PROVE  /\ Len(EventText) = EventEnd(from) - from
         /\ \A i \in 1 .. Len(EventText) : EventText[i] = from + i - 1
         /\ out.has_header <=> HeaderAt(from)
         /\ done => from + Len(EventText) = Len(log)
<1>1. TextInv /\ SeamInv /\ ViewInv /\ EventLine
  BY DEF Sound, TextInv, LineInv
<1>2. PICK f, n, e, h : f = from /\ n = NextFrom /\ e = EventEnd(f) /\ h = Len(log)
  OBVIOUS
<1>3. f \in Nat /\ n \in Nat /\ h \in Nat /\ f <= n
  <2>1. n \in Int /\ h \in Nat
    BY <1>2, SoundFacts
  <2>2. f \in Nat /\ f <= n
    BY <1>1, <1>2 DEF SeamInv
  <2>3. QED
    BY <2>1, <2>2
<1>4. PICK t : t = EventText
  OBVIOUS
<1>5. Len(t) = n - f /\ \A i \in 1 .. Len(t) : t[i] = f + i - 1
  BY <1>1, <1>2, <1>4, EventTextIsLog DEF Sound
<1>6. n = e
  BY <1>1, <1>2 DEF EventLine
<1>7. done => n = h
  BY <1>1, <1>2 DEF SeamInv
<1>8. out.has_header <=> HeaderAt(f)
  <2>1. CASE out.started
    BY <1>1, <1>2, <2>1 DEF EventLine
  <2>2. CASE ~out.started
    <3>1. out = out_reset
      BY <1>1, <2>2 DEF ViewInv
    <3>2. ~out.has_header /\ EventTokens = << >>
      BY <3>1, EmptyView DEF out_reset, EventTokens
    <3>3. n = f
      BY <1>2, <3>2 DEF NextFrom
    <3>4. done
      BY <1>1, <1>2, <1>3, <3>3 DEF SeamInv
    <3>5. f >= h
      BY <1>3, <1>7, <3>3, <3>4
    <3>6. QED
      BY <1>2, <1>3, <3>2, <3>5, NoHeaderAtEnd
  <2>3. QED
    BY <2>1, <2>2
<1>9. done => f + Len(t) = h
  BY <1>3, <1>5, <1>7
<1>10. QED
  BY <1>2, <1>4, <1>5, <1>6, <1>8, <1>9

\* The text of an event is the piece of the log from the end of the last one to the end
\* that the reference, which reads the log without a buffer, gives it, and the event has
\* a header exactly if the reference finds one there; the parser is done at the end of
\* the log.  This holds for every schema whose automaton is as LineRules says, every size
\* of the buffer, however often it grows, and every log in which no token goes on behind
\* a newline: parse looks for newlines only in front of tokens.
THEOREM EventsAreReference ==
  ASSUME LineRules
  PROVE  Spec => [](LinesApart => EventIsReference)
<1>1. TypeInv /\ TextInv /\ ViewTypeInv /\ LineInv => (LinesApart => EventIsReference)
  BY EventFromLines DEF EventIsReference, Sound
<1>2. TypeInv /\ TextInv /\ LineInv /\ [Next]_vars => LineInv'
  BY NextLineInv
<1>3. QED
  BY <1>1, <1>2, InitTypeInv, NextTypeInv, InitTextInv, NextTextInv, InitViewType,
     NextViewType, InitLineInv, PTL DEF Spec

-----------------------------------------------------------------------------
(***************************************************************************)
(* The lines of an event with a header.                                    *)
(***************************************************************************)
LEMMA TokenEndsAre ==
  ASSUME NEW ts, Len(ts) \in Nat, NEW e, Ends(e, ts)
  PROVE  TokenEnds(ts) = e
<1>1. e = [k \in 0 .. Len(ts) |-> IF k = 0 THEN 0 ELSE e[k - 1] + TokenLength(ts[k])]
  <2>1. \A k \in 0 .. Len(ts) : e[k] = IF k = 0 THEN 0 ELSE e[k - 1] + TokenLength(ts[k])
    BY DEF Ends
  <2>2. QED
    BY <2>1 DEF Ends
<1>2. PICK g : /\ g = [k \in 0 .. Len(ts) |-> IF k = 0 THEN 0 ELSE g[k - 1] + TokenLength(ts[k])]
               /\ TokenEnds(ts) = g
  BY <1>1 DEF TokenEnds
<1>3. g = e
  BY <1>2, EndsUnique
<1>4. QED
  BY <1>2, <1>3

\* One more token at the end.
LEMMA EndsAppend ==
  ASSUME NEW T, NEW s \in Seq(T), NEW t \in T, TokenLength(t) \in Nat,
         NEW e, Ends(e, s),
         NEW g, g = [k \in 0 .. Len(s) + 1 |-> IF k <= Len(s) THEN e[k]
                                               ELSE e[Len(s)] + TokenLength(t)]
  PROVE  Ends(g, Append(s, t))
<1>1. PICK u, n, h : u = Append(s, t) /\ n = Len(s) /\ h = TokenLength(t)
  OBVIOUS
<1>2. n \in Nat /\ Len(u) = n + 1 /\ u[n + 1] = t /\ \A k \in 1 .. n : u[k] = s[k]
  BY <1>1
<1>3. /\ e \in [0 .. n -> Nat] /\ e[0] = 0
      /\ \A k \in 1 .. n : e[k] = e[k - 1] + TokenLength(s[k])
      /\ \A k \in 0 .. n : e[k] <= e[n]
  BY <1>1 DEF Ends
<1>4. g = [k \in 0 .. n + 1 |-> IF k <= n THEN e[k] ELSE e[n] + h] /\ h \in Nat
  BY <1>1
<1>5. /\ g \in [0 .. n + 1 -> Nat] /\ g[0] = 0
      /\ \A k \in 0 .. n : g[k] = e[k]
      /\ g[n + 1] = e[n] + h
  BY <1>2, <1>3, <1>4
<1>6. ASSUME NEW k \in 1 .. n + 1 PROVE g[k] = g[k - 1] + TokenLength(u[k])
  <2>1. CASE k = n + 1
    <3>1. k - 1 = n /\ n \in 0 .. n
      BY <1>2, <2>1
    <3>2. QED
      BY <1>1, <1>2, <1>5, <2>1, <3>1
  <2>2. CASE k # n + 1
    <3>1. k \in 1 .. n /\ k \in 0 .. n /\ k - 1 \in 0 .. n
      BY <1>2, <2>2
    <3>2. QED
      BY <1>2, <1>3, <1>5, <3>1
  <2>3. QED
    BY <2>1, <2>2
<1>7. ASSUME NEW k \in 0 .. n + 1 PROVE g[k] <= g[n + 1]
  <2>1. CASE k = n + 1
    BY <1>5, <2>1
  <2>2. CASE k # n + 1
    <3>1. k \in 0 .. n /\ n \in 0 .. n
      BY <1>2, <2>2
    <3>2. e[k] \in Nat /\ e[n] \in Nat /\ e[k] <= e[n]
      BY <1>3, <3>1
    <3>3. QED
      BY <1>4, <1>5, <3>1, <3>2
  <2>3. QED
    BY <2>1, <2>2
<1>8. QED
  BY <1>1, <1>2, <1>5, <1>6, <1>7 DEF Ends

\* The view does not change.
LEMMA HeaderSame ==
  ASSUME HeaderLines, UNCHANGED <<log, out, from>>,
         "text" \in intact' => "text" \in intact,
         pc' = "event" => done' \/ (pc = "event" /\ done' = done)
  PROVE  HeaderLines'
<1>1. SUFFICES ASSUME "text" \in intact', LinesApart', out'.has_header
               PROVE  HeaderLines'
  BY DEF HeaderLines
<1>2. PICK ts, n, e, f : /\ ts = EventTokens /\ n = Len(ts) /\ e = TokenEnds(ts)
                         /\ f = from
  OBVIOUS
<1>3. /\ LinesOf(n, e, f)
      /\ pc = "event" /\ ~done => n > 1 /\ TokenLength(ts[n]) = 1
  BY <1>1, <1>2, SameLines DEF HeaderLines
<1>4. EventTokens' = ts /\ from' = f
  BY <1>2 DEF EventTokens
<1>5. \A a, b : NoNewline(a, b)' <=> NoNewline(a, b)
  BY SameLines
<1>6. LinesOf(n, e, f)'
  BY <1>3, <1>5 DEF LinesOf
<1>7. QED
  BY <1>2, <1>3, <1>4, <1>6 DEF HeaderLines

\* An event without a header.
LEMMA HeaderNone == ~out'.has_header => HeaderLines'
BY DEF HeaderLines

\* The event begins with the header.
LEMMA HeaderBegins ==
  ASSUME Sound, UNCHANGED <<log, from>>, pc' = "scan",
         NEW t \in Tokens, EventTokens' = <<t>>,
         NEW n \in Nat, n = from, TokenLength(t) \in Nat,
         NoNewline(n, n + TokenLength(t))
  PROVE  HeaderLines'
<1>1. PICK one, none : one = <<t>> /\ none = << >>
  OBVIOUS
<1>2. one \in Seq({t}) /\ none \in Seq({t}) /\ Len(one) = 1 /\ Len(none) = 0
      /\ one = Append(none, t)
  BY <1>1
<1>3. PICK e : e = [k \in 0 .. 0 |-> 0]
  OBVIOUS
<1>4. Ends(e, none)
  BY <1>2, <1>3 DEF Ends
<1>5. PICK g : g = [k \in 0 .. Len(none) + 1 |-> IF k <= Len(none) THEN e[k]
                                                 ELSE e[Len(none)] + TokenLength(t)]
  OBVIOUS
<1>6. Ends(g, one)
  BY <1>2, <1>4, <1>5, EndsAppend
<1>7. TokenEnds(one) = g
  BY <1>2, <1>6, TokenEndsAre
<1>8. g[1] = TokenLength(t)
  BY <1>2, <1>3, <1>5
<1>9. LinesOf(1, g, n)
  BY <1>8 DEF LinesOf
<1>10. \A a, b : NoNewline(a, b)' <=> NoNewline(a, b)
  BY SameLines
<1>11. LinesOf(1, g, n)'
  BY <1>9, <1>10 DEF LinesOf
<1>12. EventTokens' = one /\ from' = n
  BY <1>1
<1>13. QED
  BY <1>2, <1>7, <1>11, <1>12 DEF HeaderLines

\* One more token of an event with a header, which is not empty and has a '\n' at most
\* in front.
LEMMA HeaderMore ==
  ASSUME Sound, LinesApart, ViewTypeInv, HeaderLines, out.has_header, out.started,
         UNCHANGED <<log, from>>,
         NEW t \in Tokens, out' = add_token(out, t),
         NEW n, n = NextFrom, TokenLength(t) \in Nat, 0 < TokenLength(t),
         NoNewline(n + 1, n + TokenLength(t)),
         pc' = "scan" \/ (pc' = "event" /\ TokenLength(t) = 1),
         EventTokens # << >>
  PROVE  HeaderLines'
<1>1. PICK T : T = PlacedTokens \cup {t}
  OBVIOUS
<1>2. PICK s, u, m, f, h : /\ s = EventTokens /\ u = Append(s, t) /\ m = Len(s) /\ f = from
                           /\ h = TokenLength(t)
  OBVIOUS
<1>3. s \in Seq(T) /\ m \in Nat /\ m > 0 /\ Len(u) = m + 1 /\ u[m + 1] = t
      /\ \A k \in 1 .. m : TokenLength(s[k]) \in Nat
  <2>1. s \in Seq(PlacedTokens) /\ \A k \in 1 .. m : TokenLength(s[k]) \in Nat
    BY <1>2, ViewTokens
  <2>2. PlacedTokens \subseteq T
    BY <1>1
  <2>3. s \in Seq(T)
    BY <2>1, <2>2
  <2>4. QED
    BY <1>2, <2>1, <2>3
<1>4. EventTokens' = u
  <2>1. out \in Views /\ out.slot0 \in Tokens
    BY DEF Sound, TextInv, ViewInv, Views
  <2>2. QED
    BY <1>2, <2>1, AddView
<1>5. PICK e : Ends(e, s)
  BY <1>2, <1>3, ConcatSplits
<1>6. TokenEnds(s) = e
  BY <1>2, <1>3, <1>5, TokenEndsAre
<1>7. LinesOf(m, e, f)
  BY <1>2, <1>6 DEF HeaderLines, Sound
<1>8. PICK g : g = [k \in 0 .. m + 1 |-> IF k <= m THEN e[k] ELSE e[m] + h]
  OBVIOUS
<1>9. Ends(g, u)
  BY <1>1, <1>2, <1>3, <1>5, <1>8, EndsAppend
<1>10. TokenEnds(u) = g
  BY <1>3, <1>9, TokenEndsAre
<1>11. n = f + e[m]
  <2>1. m \in 1 .. Len(EventTokens) /\ Ends(e, EventTokens) /\ TextInv /\ "text" \in intact
    BY <1>2, <1>3, <1>5 DEF Sound
  <2>2. EndOffset(EventTokens[m]) = from + e[m]
    BY <2>1, ChainLength
  <2>3. QED
    BY <1>2, <2>2 DEF NextFrom
<1>12. f \in Nat /\ h \in Nat /\ h > 0 /\ e \in [0 .. m -> Nat]
  BY <1>2, <1>5, SoundFacts DEF Ends
<1>13. LinesOf(m + 1, g, f)
  <2>1. /\ g[m + 1] = e[m] + h
        /\ \A k \in 0 .. m : g[k] = e[k]
    BY <1>3, <1>8
  <2>2. 1 \in 0 .. m /\ g[1] = e[1]
    BY <1>3, <2>1
  <2>3. ASSUME NEW k \in 2 .. m + 1
        PROVE  g[k - 1] < g[k] /\ NoNewline(f + g[k - 1] + 1, f + g[k])
    <3>1. CASE k = m + 1
      <4>1. k - 1 = m /\ m \in 0 .. m /\ e[m] \in Nat
        BY <1>3, <1>12, <3>1
      <4>2. g[k - 1] = e[m] /\ g[k] = e[m] + h
        BY <2>1, <3>1, <4>1
      <4>3. f + e[m] + 1 = n + 1 /\ f + (e[m] + h) = n + h
        BY <1>11, <1>12, <4>1
      <4>4. QED
        BY <1>2, <1>12, <4>1, <4>2, <4>3
    <3>2. CASE k # m + 1
      <4>1. k \in 2 .. m /\ k \in 0 .. m /\ k - 1 \in 0 .. m
        BY <1>3, <3>2
      <4>2. g[k - 1] = e[k - 1] /\ g[k] = e[k]
        BY <2>1, <4>1
      <4>3. QED
        BY <1>7, <4>1, <4>2 DEF LinesOf
    <3>3. QED
      BY <3>1, <3>2
  <2>4. QED
    BY <1>7, <2>2, <2>3 DEF LinesOf
<1>14. \A a, b : NoNewline(a, b)' <=> NoNewline(a, b)
  BY SameLines
<1>15. LinesOf(m + 1, g, f)'
  BY <1>13, <1>14 DEF LinesOf
<1>16. pc' = "event" => m + 1 > 1 /\ TokenLength(u[m + 1]) = 1
  BY <1>3
<1>17. from' = f
  BY <1>2
<1>18. QED
  BY <1>3, <1>4, <1>10, <1>15, <1>16, <1>17 DEF HeaderLines

\* The text of a token is as long as its offsets are apart.
LEMMA CurrentLength ==
  ASSUME Sound, NEW t, Current(t), Offset(t.start_pos) = NextFrom,
         Offset(t.start_pos) < Offset(t.end_pos)
  PROVE  /\ t \in Tokens
         /\ TokenLength(t) = Offset(t.end_pos) - Offset(t.start_pos)
         /\ TokenLength(t) \in Nat /\ 0 < TokenLength(t)
<1>1. /\ buf.size \in Nat /\ read_off \in Nat /\ RingOf(buf, read_off)
      /\ Needed <= NextFrom
  BY SoundFacts
<1>2. /\ t \in Tokens /\ t.start_pos \in 0 .. buf.size - 1 /\ t.end_pos \in 0 .. buf.size - 1
      /\ t.buffer_size = buf.size
  BY <1>1 DEF Current, Tokens
<1>3. TokenLength(t) = Offset(t.end_pos) - Offset(t.start_pos)
  <2>1. PICK p, q : p = t.start_pos /\ q = t.end_pos
    OBVIOUS
  <2>2. /\ p \in 0 .. buf.size - 1 /\ q \in 0 .. buf.size - 1
        /\ OffsetOf(buf, read_off, p) <= OffsetOf(buf, read_off, q)
    <3>1. OffsetOf(buf, read_off, p) \in Int /\ OffsetOf(buf, read_off, q) \in Int
      BY <1>2, <2>1, SoundFacts DEF Offset
    <3>2. QED
      BY <1>2, <2>1, <3>1 DEF Offset
  <2>3. OffsetOf(buf, read_off, q) - OffsetOf(buf, read_off, p)
          = IF p <= q THEN q - p ELSE (buf.size - p) + q
    BY <1>1, <2>2, OffsetLength
  <2>4. TokenLength(t) = IF p <= q THEN q - p ELSE buf.size - p + q
    BY <1>2, <2>1 DEF TokenLength
  <2>5. QED
    BY <1>1, <2>1, <2>2, <2>3, <2>4 DEF Offset
<1>4. Offset(t.end_pos) \in Int /\ Offset(t.start_pos) \in Int
  BY <1>2, SoundFacts
<1>5. QED
  BY <1>2, <1>3, <1>4

\* parse goes on with the token that the last call kept.
LEMMA UseStartOfLogHeader ==
  ASSUME Lined, UseStartOfLog
  PROVE  HeaderLines'
<1>1. PICK t, n : t = start_of_log /\ n = NextFrom
  OBVIOUS
<1>2. /\ pc = "parse" /\ out_pos(out) = 0 /\ t # NoToken
      /\ BeginEvent(t)
      /\ UNCHANGED <<log, from>>
  BY <1>1 DEF UseStartOfLog, history, input_vars
<1>3. Sound /\ NextEventLine /\ ~out.started /\ out = out_reset /\ out \in Views
  BY <1>2, LinedFacts, ParseFacts
<1>4. /\ Current(t) /\ t.type # TokenEnd /\ t.start_pos = Seam
  BY <1>1, <1>2, <1>3 DEF Sound, TextInv, KeptInv, Seam
<1>5. /\ out' = IF t.type = TokenHeader THEN set_header(out, t) ELSE set_first(out, t)
      /\ pc' = "scan"
  BY <1>2, <1>4 DEF BeginEvent
<1>6. Offset(t.start_pos) = n
  BY <1>1, <1>3, <1>4, SoundFacts
<1>7. n < Offset(t.end_pos) /\ NoNewline(n, Offset(t.end_pos))
  BY <1>1, <1>2, <1>3 DEF NextEventLine
<1>8. /\ t \in Tokens /\ TokenLength(t) = Offset(t.end_pos) - n
      /\ TokenLength(t) \in Nat
  BY <1>1, <1>3, <1>4, <1>6, <1>7, CurrentLength
<1>9. EventTokens' = <<t>>
  BY <1>3, <1>5, <1>8, BeginView
<1>10. n = from /\ n \in Nat
  <2>1. EventTokens = << >>
    BY <1>3, EmptyView DEF EventTokens
  <2>2. QED
    BY <1>1, <1>3, <2>1, SoundFacts DEF NextFrom
<1>11. Offset(t.end_pos) = n + TokenLength(t)
  <2>1. t.end_pos \in 0 .. buf.size - 1
    BY <1>3, <1>4, SoundFacts DEF Current, Tokens
  <2>2. Offset(t.end_pos) \in Int
    BY <1>3, <2>1, SoundFacts
  <2>3. QED
    BY <1>8, <1>10, <2>2
<1>12. NoNewline(n, n + TokenLength(t))
  BY <1>7, <1>11
<1>13. QED
  BY <1>2, <1>3, <1>5, <1>8, <1>9, <1>10, <1>12, HeaderBegins

\* The first token of an event, or the end of the log.
LEMMA FirstTokenHeader ==
  ASSUME Lined, FirstToken
  PROVE  HeaderLines'
<1>1. /\ pc = "token" /\ out_pos(out) = 0
      /\ tok.type # TokenHeader \/ \E c \in FirstChars(tok) : c # Newline
      /\ BeginEvent(tok)
      /\ UNCHANGED <<log, from>>
  BY DEF FirstToken, history, input_vars
<1>2. Sound /\ ~out.started /\ out = out_reset /\ out \in Views
  BY <1>1, LinedFacts, ParseFacts
<1>3. CASE tok.type = TokenHeader
  <2>1. PICK n, e : n = NextFrom /\ e = Offset(tok.end_pos)
    OBVIOUS
  <2>2. tok.type # TokenEnd
    BY <1>3 DEF TokenHeader, TokenEnd
  <2>3. out' = set_header(out, tok) /\ pc' = "scan"
    BY <1>1, <1>3, <2>2 DEF BeginEvent
  <2>4. /\ LineToken(n, e, tok.type) /\ n < e /\ n \in Nat /\ e \in Nat /\ n = from
    BY <1>1, <1>2, <2>1, <2>2, FirstLine
  <2>5. log[n + 1] # Newline
    BY <1>1, <1>2, <1>3, <2>1, <2>2, FirstByte
  <2>6. NoNewline(n + 1, e)
    BY <2>4 DEF LineToken
  <2>7. NoNewline(n, e)
    BY <2>4, <2>5, <2>6 DEF NoNewline
  <2>8. Current(tok) /\ Offset(tok.start_pos) = NextFrom
    BY <1>1, <1>2, <2>2, ScannedText
  <2>9. tok \in Tokens /\ TokenLength(tok) = e - n /\ TokenLength(tok) \in Nat
    BY <1>2, <2>1, <2>4, <2>8, CurrentLength
  <2>10. EventTokens' = <<tok>>
    BY <1>2, <1>3, <2>3, <2>9, BeginView
  <2>11. n + TokenLength(tok) = e
    BY <2>4, <2>9
  <2>12. QED
    BY <1>1, <1>2, <2>3, <2>4, <2>7, <2>9, <2>10, <2>11, HeaderBegins
<1>4. CASE tok.type # TokenHeader
  <2>1. out' = set_end(out, tok) \/ out' = set_first(out, tok)
    BY <1>1, <1>4 DEF BeginEvent
  <2>2. ~out'.has_header
    BY <1>2, <2>1 DEF set_end, set_first, out_reset
  <2>3. QED
    BY <2>2, HeaderNone
<1>5. QED
  BY <1>3, <1>4

\* '\n' before the next event.
LEMMA NextTokenStartHeader ==
  ASSUME Lined, ViewTypeInv, HeaderLines, NextTokenStart
  PROVE  HeaderLines'
<1>1. PICK t : t = NewlineOf(tok)
  OBVIOUS
<1>2. /\ pc = "token" /\ out_pos(out) # 0
      /\ tok.type # TokenEnd
      /\ out' = add_token(out, t)
      /\ pc' = "event"
      /\ UNCHANGED <<log, from>>
  BY <1>1 DEF NextTokenStart, SplitAtNewline, history, input_vars
<1>3. Sound /\ out.started /\ EventTokens # << >>
  BY <1>2, LinedFacts, ParseFacts
<1>4. PICK n \in Int : n = NextFrom
  BY <1>3, SoundFacts
<1>5. Current(t) /\ Offset(t.start_pos) = n /\ Offset(t.end_pos) = n + 1
  BY <1>1, <1>2, <1>3, <1>4, NewlineText, ScannedText
<1>6. t \in Tokens /\ TokenLength(t) = 1
  <2>1. Offset(t.start_pos) = NextFrom /\ Offset(t.start_pos) < Offset(t.end_pos)
    BY <1>4, <1>5
  <2>2. t \in Tokens /\ TokenLength(t) = (n + 1) - n
    BY <1>3, <1>5, <2>1, CurrentLength
  <2>3. QED
    BY <1>4, <2>2
<1>7. NoNewline(n + 1, n + TokenLength(t))
  BY <1>4, <1>6 DEF NoNewline
<1>8. CASE out.has_header
  BY <1>2, <1>3, <1>4, <1>6, <1>7, <1>8, LinedFacts, HeaderMore
<1>9. CASE ~out.has_header
  <2>1. ~out'.has_header
    BY <1>2, <1>3, <1>6, <1>9, AddView, ParseFacts
  <2>2. QED
    BY <2>1, HeaderNone
<1>10. QED
  BY <1>8, <1>9

\* One more token of the event.
LEMMA NextTokenHeader ==
  ASSUME Lined, ViewTypeInv, HeaderLines, NextToken
  PROVE  HeaderLines'
<1>1. /\ pc = "token" /\ out_pos(out) # 0
      /\ tok.type # TokenEnd
      /\ out' = add_token(out, tok)
      /\ pc' = "scan"
      /\ UNCHANGED <<log, from>>
  BY DEF NextToken, history, input_vars
<1>2. Sound /\ out.started /\ EventTokens # << >>
  BY <1>1, LinedFacts, ParseFacts
<1>3. PICK n, e : n = NextFrom /\ e = Offset(tok.end_pos)
  OBVIOUS
<1>4. NoNewline(n + 1, e) /\ n < e /\ n \in Nat /\ e \in Nat
  BY <1>1, <1>3, FirstLine DEF LineToken
<1>5. Current(tok) /\ Offset(tok.start_pos) = NextFrom
  BY <1>1, <1>2, ScannedText
<1>6. tok \in Tokens /\ TokenLength(tok) = e - n /\ TokenLength(tok) \in Nat
      /\ 0 < TokenLength(tok)
  BY <1>2, <1>3, <1>4, <1>5, CurrentLength
<1>7. n + TokenLength(tok) = e
  BY <1>4, <1>6
<1>8. CASE out.has_header
  BY <1>1, <1>2, <1>3, <1>4, <1>6, <1>7, <1>8, LinedFacts, HeaderMore
<1>9. CASE ~out.has_header
  <2>1. ~out'.has_header
    BY <1>1, <1>2, <1>6, <1>9, AddView, ParseFacts
  <2>2. QED
    BY <2>1, HeaderNone
<1>10. QED
  BY <1>8, <1>9

LEMMA ParseHeader ==
  ASSUME Lined, ViewTypeInv, HeaderLines, Parse
  PROVE  HeaderLines'
<1>1. CASE GetNextSymbol
  BY <1>1, HeaderSame DEF GetNextSymbol, parse_vars, history, input_vars
<1>2. CASE FirstTokenNewline
  <2>1. ~out'.has_header
    <3>1. pc \in {"parse", "token"} /\ out' = set_first(out, NewlineOf(tok))
      BY <1>2 DEF FirstTokenNewline
    <3>2. out \in Views
      BY <3>1, LinedFacts, ParseFacts
    <3>3. QED
      BY <3>1, <3>2 DEF set_first, Views
  <2>2. QED
    BY <2>1, HeaderNone
<1>3. CASE NextTokenEnd
  BY <1>3, HeaderSame DEF NextTokenEnd, Finish, history, input_vars
<1>4. CASE NextTokenNewline
  <2>1. pc \in {"parse", "token"} /\ out' = add_token(out, tok) /\ ~out.has_header
    BY <1>4 DEF NextTokenNewline
  <2>2. out \in Views
    BY <2>1, LinedFacts, ParseFacts
  <2>3. ~out'.has_header
    BY <2>1, <2>2 DEF add_token, Views
  <2>4. QED
    BY <2>3, HeaderNone
<1>5. QED
  BY <1>1, <1>2, <1>3, <1>4, UseStartOfLogHeader, FirstTokenHeader, NextTokenStartHeader,
     NextTokenHeader DEF Parse

\* Every step keeps the invariant.
LEMMA NextHeaderLines ==
  /\ LineRules /\ TypeInv /\ TextInv /\ ViewTypeInv /\ LineInv /\ HeaderLines
  /\ [Next]_vars
  => HeaderLines'
<1> SUFFICES ASSUME LineRules, TypeInv, TextInv, ViewTypeInv, LineInv, HeaderLines, [Next]_vars
             PROVE  HeaderLines'
  OBVIOUS
<1>1. CASE ResetAndSetReader \/ ParseNextEvent
  <2>1. out' = out_reset
    BY <1>1 DEF ResetAndSetReader, ParseNextEvent
  <2>2. QED
    BY <2>1, EmptyView, HeaderNone
<1>2. CASE IncreaseCapacity
  <2>1. /\ UNCHANGED <<log, out, from>> /\ pc' # "event"
        /\ intact' = StillIntact \/ intact' = {}
    BY <1>2 DEF IncreaseCapacity
  <2>2. "text" \in intact' => "text" \in intact
    BY <2>1 DEF StillIntact
  <2>3. QED
    BY <2>1, <2>2, HeaderSame
<1>3. CASE Scan
  <2>1. UNCHANGED <<log, out, from, intact>>
    BY <1>3 DEF Scan, ScanResume, ScanPrepared, ScanFresh, ScanOutOfBounds, ScanNewline,
       ScanContinue, ScanMatch, ScanLastText, ScanEnd, ScanUncaught, ScanSkip,
       SkipCharacter, SkipOutOfBounds, SkipEnd, Return, parse_vars, history, input_vars
  <2>2. pc' # "event"
    <3>1. CASE ScanResume \/ ScanPrepared \/ ScanFresh \/ ScanOutOfBounds \/ ScanSkip
      BY <3>1 DEF ScanResume, ScanPrepared, ScanFresh, ScanOutOfBounds, ScanSkip, Return
    <3>2. CASE ScanNewline \/ ScanContinue
      BY <3>2 DEF ScanNewline, ScanContinue, MainLoop, Return
    <3>3. CASE ScanMatch \/ ScanLastText \/ ScanEnd \/ ScanUncaught
      BY <3>3 DEF ScanMatch, ScanLastText, ScanEnd, ScanUncaught, Return
    <3>4. CASE SkipCharacter \/ SkipOutOfBounds \/ SkipEnd
      BY <3>4 DEF SkipCharacter, SkipOutOfBounds, SkipEnd
    <3>5. QED
      BY <1>3, <3>1, <3>2, <3>3, <3>4 DEF Scan
  <2>3. QED
    BY <2>1, <2>2, HeaderSame
<1>4. CASE Parse
  <2>1. CASE "text" \in intact /\ LinesApart
    BY <1>4, <2>1, ParseHeader DEF Lined, Sound
  <2>2. CASE ~("text" \in intact /\ LinesApart)
    <3>1. intact' = intact /\ log' = log
      BY <1>4 DEF Parse, UseStartOfLog, GetNextSymbol, FirstTokenNewline, FirstToken,
         NextTokenEnd, NextTokenNewline, NextTokenStart, NextToken, parse_vars, history,
         input_vars
    <3>2. QED
      BY <2>2, <3>1, SameLines DEF HeaderLines
  <2>3. QED
    BY <2>1, <2>2
<1>5. CASE UNCHANGED vars
  BY <1>5, HeaderSame DEF vars, history
<1>6. QED
  BY <1>1, <1>2, <1>3, <1>4, <1>5 DEF Next

LEMMA NoNewlineJoin ==
  ASSUME NEW f \in Nat, NEW x \in Nat, NEW y \in Nat,
         NoNewline(f, f + x), log[(f + x) + 1] # Newline, NoNewline(f + x + 1, f + y)
  PROVE  NoNewline(f, f + y)
<1>1. SUFFICES ASSUME NEW i \in f + 1 .. f + y PROVE log[i] # Newline
  BY DEF NoNewline
<1>2. \/ i \in f + 1 .. f + x
      \/ i = (f + x) + 1
      \/ i \in (f + x + 1) + 1 .. f + y
  OBVIOUS
<1>3. QED
  BY <1>2 DEF NoNewline

\* The first character of a token of the view.
LEMMA TokenFirstChars ==
  ASSUME Sound, ViewTypeInv, NEW e, Ends(e, EventTokens),
         NEW f \in Nat, f = from,
         NEW k \in 1 .. Len(EventTokens), e[k - 1] < e[k]
  PROVE  Newline \in FirstChars(EventTokens[k]) <=> log[(f + e[k - 1]) + 1] = Newline
<1>1. PICK t, h : t = EventTokens[k] /\ h = TokenLength(t)
  OBVIOUS
<1>2. PICK n \in Nat : n = Len(EventTokens)
  BY ViewTokens
<1>3. k - 1 \in 0 .. n /\ k \in 0 .. n
  BY <1>2
<1>4. PICK a \in Nat, b \in Nat : a = e[k - 1] /\ b = e[k]
  BY <1>2, <1>3 DEF Ends
<1>5. h \in Nat /\ b = a + h /\ a < b
  BY <1>1, <1>4, ViewTokens DEF Ends
<1>6. 1 \in 1 .. h
  BY <1>4, <1>5
<1>7. TokenText(t) = [i \in 1 .. h |-> (f + a) + i - 1]
  BY <1>1, <1>4, ChainLength DEF Sound
<1>8. TokenText(t)[1] = f + a
  <2>1. TokenText(t)[1] = (f + a) + 1 - 1
    BY <1>6, <1>7
  <2>2. QED
    BY <1>4, <2>1
<1>9. t.start_pos \in Nat /\ t.buffer_size \in Nat /\ t.start_pos < t.buffer_size
  BY <1>1, ViewTokens DEF PlacedTokens, Tokens
<1>10. TokenText(t)[1] = TokenByte(t, t.start_pos)
  <2>1. TokenText(t)[1] = TokenByte(t, LET p == t.start_pos + 1 - 1
                                       IN IF p < t.buffer_size THEN p ELSE p - t.buffer_size)
    BY <1>1, <1>6 DEF TokenText
  <2>2. t.start_pos + 1 - 1 = t.start_pos
    BY <1>9
  <2>3. QED
    BY <1>9, <2>1, <2>2
<1>11. FirstChars(t) = {log[(f + a) + 1]}
  <2>1. f + a # Unset
    BY <1>4 DEF Unset
  <2>2. QED
    BY <1>8, <1>10, <2>1 DEF FirstChars, CharsOf
<1>12. QED
  BY <1>1, <1>4, <1>11

\* The newlines of an event with a header are where its tokens say.
LEMMA MultilineFromLines ==
  ASSUME Sound, LinesApart, ViewTypeInv, HeaderLines, pc = "event", out.has_header,
         NEW more, more = \E i \in from + 1 .. from + Len(EventText) - 1 : log[i] = Newline
  PROVE  (is_multiline => more) /\ (more /\ ~done => is_multiline)
<1>1. PICK ts, n, f : ts = EventTokens /\ n = Len(ts) /\ f = from
  OBVIOUS
<1>2. n \in Nat /\ DOMAIN ts = 1 .. n /\ f \in Nat
  BY <1>1, ViewTokens, SoundFacts
<1>3. PICK e : Ends(e, ts)
  BY <1>1, <1>2, ViewTokens, ConcatSplits
<1>4. e \in [0 .. n -> Nat] /\ \A k \in 0 .. n : e[k] <= e[n]
  BY <1>1, <1>3 DEF Ends
<1>5. /\ LinesOf(n, e, f)
      /\ ~done => n > 1 /\ TokenLength(ts[n]) = 1
  <2>1. TokenEnds(ts) = e
    BY <1>1, <1>2, <1>3, TokenEndsAre
  <2>2. QED
    BY <1>1, <2>1 DEF HeaderLines, Sound
<1>6. n > 0 /\ out_pos(out) = n
  <2>1. out.rest \in Seq(Tokens) /\ out.slot0 \in Tokens /\ out.started
    BY DEF Sound, TextInv, ViewInv, out_reset
  <2>2. ts = <<out.slot0>> \o out.rest
    BY <1>1 DEF EventTokens
  <2>3. PICK r \in Seq(Tokens), s \in Tokens : r = out.rest /\ s = out.slot0
    BY <2>1
  <2>4. Len(<<s>> \o r) = Len(r) + 1 /\ Len(r) \in Nat
    OBVIOUS
  <2>5. QED
    BY <1>1, <2>1, <2>2, <2>3, <2>4 DEF out_pos
<1>7. PICK K : K = {k \in 2 .. n : log[(f + e[k - 1]) + 1] = Newline}
  OBVIOUS
<1>8. is_multiline <=> \E k \in K : (\A j \in K : k <= j) /\ k < n
  <2>1. \A k \in 1 .. n : slot(k) = k - 1
    BY DEF slot
  <2>2. {k \in DOMAIN ts : slot(k) > 0 /\ Newline \in FirstChars(ts[k])} = K
    <3>1. ASSUME NEW k \in 2 .. n
          PROVE  Newline \in FirstChars(ts[k]) <=> log[(f + e[k - 1]) + 1] = Newline
      <4>1. e[k - 1] < e[k] /\ k \in 1 .. n
        BY <1>2, <1>5 DEF LinesOf
      <4>2. QED
        BY <1>1, <1>2, <1>3, <4>1, TokenFirstChars
    <3>2. \A k \in 1 .. n : slot(k) > 0 <=> k \in 2 .. n
      BY <1>2, <2>1
    <3>3. QED
      BY <1>2, <1>7, <3>1, <3>2
  <2>3. \A k \in K : slot(k) + 1 = k
    BY <1>2, <1>7, <2>1
  <2>4. is_multiline <=> \E k \in K : (\A j \in K : k <= j) /\ slot(k) + 1 < out_pos(out)
    BY <1>1, <2>2 DEF is_multiline
  <2>5. QED
    BY <1>6, <2>3, <2>4
<1>9. from + Len(EventText) - 1 = (f + e[n]) - 1
  <2>1. Len(EventText) = NextFrom - from
    BY EventTextIsLog DEF Sound
  <2>2. NextFrom = f + e[n]
    <3>1. n \in 1 .. Len(EventTokens) /\ Ends(e, EventTokens) /\ TextInv /\ "text" \in intact
      BY <1>1, <1>2, <1>3, <1>6 DEF Sound
    <3>2. EndOffset(EventTokens[n]) = from + e[n]
      BY <3>1, ChainLength
    <3>3. EventTokens # << >>
      BY <1>1, <1>6
    <3>4. QED
      BY <1>1, <3>2, <3>3 DEF NextFrom
  <2>3. e[n] \in Nat
    BY <1>2, <1>4
  <2>4. QED
    BY <1>1, <1>2, <2>1, <2>2, <2>3
<1>10. more <=> \E i \in f + 1 .. (f + e[n]) - 1 : log[i] = Newline
  BY <1>1, <1>9
<1>11. ASSUME NEW k \in K, k < n
       PROVE  \E i \in f + 1 .. (f + e[n]) - 1 : log[i] = Newline
  <2>1. k - 1 \in 0 .. n /\ k \in 0 .. n /\ k + 1 \in 0 .. n /\ k + 1 \in 2 .. n /\ n \in 0 .. n
        /\ (k + 1) - 1 = k /\ k \in 2 .. n
    BY <1>2, <1>7, <1>11
  <2>2. e[k - 1] < e[k] /\ e[k] < e[k + 1] /\ e[k + 1] <= e[n]
    BY <1>4, <1>5, <2>1 DEF LinesOf
  <2>3. e[k - 1] \in Nat /\ e[k] \in Nat /\ e[k + 1] \in Nat /\ e[n] \in Nat
    BY <1>4, <2>1
  <2>4. (f + e[k - 1]) + 1 \in f + 1 .. (f + e[n]) - 1
    BY <1>2, <2>2, <2>3
  <2>5. QED
    BY <1>7, <2>4
<1>12. ASSUME NEW m \in Nat
       PROVE  m # 0 /\ m <= n =>
                \/ NoNewline(f, f + e[m]) /\ \A j \in K : m < j
                \/ \E k \in K : k <= m /\ \A j \in K : k <= j
  <2> DEFINE Found(l) == \E k \in K : k <= l /\ \A j \in K : k <= j
  <2> DEFINE None(l) == NoNewline(f, f + e[l]) /\ \A j \in K : l < j
  <2> DEFINE S == {l \in Nat : l # 0 /\ l <= n => None(l) \/ Found(l)}
  <2>1. 0 \in S
    OBVIOUS
  <2>2. ASSUME NEW l \in Nat, l \in S PROVE l + 1 \in S
    <3>1. SUFFICES ASSUME l + 1 <= n PROVE None(l + 1) \/ Found(l + 1)
      OBVIOUS
    <3>2. CASE l = 0
      <4>1. NoNewline(f, f + e[1])
        BY <1>5 DEF LinesOf
      <4>2. \A j \in K : 1 < j
        BY <1>2, <1>7
      <4>3. QED
        BY <3>2, <4>1, <4>2
    <3>3. CASE l # 0 /\ Found(l)
      BY <1>2, <1>7, <3>3
    <3>4. CASE l # 0 /\ None(l)
      <4>1. /\ l + 1 \in 2 .. n /\ (l + 1) - 1 = l
            /\ l \in 0 .. n /\ l + 1 \in 0 .. n
        BY <1>2, <3>1, <3>4
      <4>2. CASE l + 1 \in K
        <5>1. \A j \in K : l + 1 <= j
          BY <1>7, <3>4
        <5>2. QED
          BY <4>2, <5>1
      <4>3. CASE l + 1 \notin K
        <5>1. log[(f + e[l]) + 1] # Newline
          BY <1>7, <4>1, <4>3
        <5>2. /\ e[l] < e[l + 1] /\ e[l] \in Nat /\ e[l + 1] \in Nat
              /\ NoNewline(f + e[l] + 1, f + e[l + 1])
          BY <1>4, <1>5, <4>1 DEF LinesOf
        <5>3. NoNewline(f, f + e[l + 1])
          <6>1. PICK x \in Nat, y \in Nat : x = e[l] /\ y = e[l + 1]
            BY <5>2
          <6>2. NoNewline(f, f + x) /\ NoNewline(f + x + 1, f + y)
            BY <3>4, <5>2, <6>1
          <6>3. log[(f + x) + 1] # Newline
            BY <5>1, <6>1
          <6>4. NoNewline(f, f + y)
            BY <1>2, <6>1, <6>2, <6>3, NoNewlineJoin
          <6>5. QED
            BY <6>1, <6>4
        <5>4. \A j \in K : l + 1 < j
          BY <1>7, <3>4, <4>3
        <5>5. QED
          BY <5>3, <5>4
      <4>4. QED
        BY <4>2, <4>3
    <3>5. l \in S /\ l <= n
      BY <2>2, <3>1, <1>2
    <3>6. QED
      BY <3>2, <3>3, <3>4, <3>5
  <2>3. Nat \subseteq S
    <3> HIDE DEF S
    <3>1. QED
      BY <2>1, <2>2, SetInduction
  <2>4. QED
    BY <2>3
<1>13. ASSUME NEW i \in f + 1 .. (f + e[n]) - 1, log[i] = Newline, ~done
       PROVE  \E k \in K : (\A j \in K : k <= j) /\ k < n
  <2>1. n > 1 /\ n - 1 \in Nat /\ n - 1 # 0 /\ n - 1 <= n /\ n - 1 \in 0 .. n /\ n \in 0 .. n
        /\ n \in 1 .. Len(ts)
    BY <1>1, <1>2, <1>5, <1>13
  <2>2. e[n] = e[n - 1] + 1 /\ e[n - 1] \in Nat
    BY <1>3, <1>4, <1>5, <1>13, <2>1 DEF Ends
  <2>3. ~NoNewline(f, f + e[n - 1])
    <3>1. i \in f + 1 .. f + e[n - 1]
      BY <1>2, <2>2
    <3>2. QED
      BY <1>13, <3>1 DEF NoNewline
  <2>4. PICK k \in K : k <= n - 1 /\ \A j \in K : k <= j
    BY <1>12, <2>1, <2>3
  <2>5. k < n
    BY <1>2, <1>7, <2>4
  <2>6. QED
    BY <2>4, <2>5
<1>14. QED
  BY <1>8, <1>10, <1>11, <1>13

\* An event with a header is multiline exactly if it has a character behind a newline,
\* for events of any number of tokens and lines and whatever the buffer did to them; only
\* at the end of the log a last line of one token is not counted.  It is for logs in which
\* no token goes on behind a newline: is_multiline looks at the first characters only.
THEOREM MultilineIsRight ==
  ASSUME LineRules
  PROVE  Spec => [](LinesApart => MultilineIsReference)
<1>1. TypeInv /\ TextInv /\ ViewTypeInv /\ HeaderLines => (LinesApart => MultilineIsReference)
  BY MultilineFromLines DEF MultilineIsReference, Sound
<1>2. TypeInv /\ TextInv /\ LineInv /\ [Next]_vars => LineInv'
  BY NextLineInv
<1>3. /\ TypeInv /\ TextInv /\ ViewTypeInv /\ LineInv /\ HeaderLines
      /\ [Next]_vars
      => HeaderLines'
  BY NextHeaderLines
<1>4. Init => HeaderLines
  BY EmptyView DEF Init, HeaderLines
<1>5. QED
  BY <1>1, <1>2, <1>3, <1>4, InitTypeInv, NextTypeInv, InitTextInv, NextTextInv, InitViewType,
     NextViewType, InitLineInv, PTL DEF Spec
=============================================================================
