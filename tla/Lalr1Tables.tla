---------------------------- MODULE Lalr1Tables ----------------------------
(***************************************************************************)
(* What Lalr1Parser::add_production and generate() compute: productions,   *)
(* LR(0) kernels, first sets, lookaheads, and the action of each state.    *)
(*                                                                         *)
(* A grammar is a record of its terminals and of its productions in the    *)
(* order in which they were added.  An item is <<production, dot,          *)
(* lookahead>>.  An item set is its kernel: the index that the code gives  *)
(* it is only a name.  Worklists become least fixpoints, since the order   *)
(* in which items are found changes nothing but those names.               *)
(***************************************************************************)
EXTENDS Integers, Sequences, FiniteSets, SequencesExt

TokenEnd == "$end"
StartPrime == "$START_PRIME"
NullSymbol == "null"         \* cNullSymbol: the lookahead of LR(0) items

(***************************************************************************)
(* add_production.  The first production also adds the root production.    *)
(* The semantic rule is not a function here but what matters of it: None   *)
(* (nullptr), or the places in the body whose text it reads.               *)
(***************************************************************************)
None == {0}

Production(head, body, rule) == [head |-> head, body |-> body, rule |-> rule]

add_production(prods, p) ==
  LET same == {i \in DOMAIN prods : /\ prods[i].head = p.head
                                    /\ prods[i].body = p.body}
  IN IF same # {}
       THEN [i \in DOMAIN prods |->
               IF i \in same THEN [prods[i] EXCEPT !.rule = p.rule] ELSE prods[i]]
     ELSE IF prods = <<>>
       THEN <<p, Production(StartPrime, <<p.head>>, None)>>
     ELSE Append(prods, p)

m_root_production_id == 2

productions(added) ==
  LET after[i \in 0 .. Len(added)] ==
        IF i = 0 THEN <<>> ELSE add_production(after[i - 1], added[i])
  IN after[Len(added)]

NonTerminals(g) == {g.prods[i].head : i \in DOMAIN g.prods}
Symbols(g) == g.terminals \cup NonTerminals(g)

\* The queue of generate() and of its closures: all that is found from start, when each
\* x that is found leads to step[x].
worklist(step, start) ==
  LET all[s \in SUBSET DOMAIN step] ==
        LET new == s \cup UNION {step[x] : x \in s}
        IN IF new = s THEN s ELSE all[new]
  IN all[start]

-----------------------------------------------------------------------------
(* Items *)

Lookaheads(g) == Symbols(g) \cup {TokenEnd, NullSymbol}
Items(g) == {item \in (DOMAIN g.prods) \X Nat \X Lookaheads(g) :
               item[2] <= Len(g.prods[item[1]].body)}

body_of(g, item) == g.prods[item[1]].body
has_dot_at_end(g, item) == item[2] = Len(body_of(g, item))
next_symbol(g, item) == body_of(g, item)[item[2] + 1]

\* The productions that the closure adds for an item: none when the dot is at
\* the end or before a token.
expanded(g, item) ==
  IF has_dot_at_end(g, item) THEN {}
  ELSE {p \in DOMAIN g.prods : g.prods[p].head = next_symbol(g, item)}

lr0_closure(g, items) ==
  worklist([item \in Items(g) |-> {<<p, 0, NullSymbol>> : p \in expanded(g, item)}], items)

\* The kernel of the next item set; empty when there is none.
go_to(g, kernel, symbol) ==
  {<<item[1], item[2] + 1, item[3]>> :
     item \in {i \in lr0_closure(g, kernel) :
                 ~has_dot_at_end(g, i) /\ next_symbol(g, i) = symbol}}

root_kernel == {<<m_root_production_id, 0, NullSymbol>>}

lr0_kernels(g) ==
  worklist([kernel \in SUBSET Items(g) |-> {go_to(g, kernel, x) : x \in Symbols(g)} \ {{}}],
           {root_kernel})

-----------------------------------------------------------------------------
(* First sets and nullable symbols.  One pass visits the productions in    *)
(* order and changes the sets in place; once something has changed in a    *)
(* pass, `changed || insert(...)` inserts no nullable symbol any more and  *)
(* leaves it to a later pass.                                              *)

\* The places of a body from k on that are reached over nullable symbols.
reached(body, k, nullable) ==
  {i \in k .. Len(body) : \A j \in k .. i - 1 : body[j] \in nullable}

all_nullable(body, k, nullable) ==
  \A i \in k .. Len(body) : body[i] \in nullable

visit_production(st, p) ==
  LET firsts  == st.firsts[p.head] \cup
                 UNION {st.firsts[p.body[i]] : i \in reached(p.body, 1, st.nullable)}
      inserts == ~st.changed /\ all_nullable(p.body, 1, st.nullable)
  IN [ firsts   |-> [st.firsts EXCEPT ![p.head] = firsts],
       nullable |-> IF inserts THEN st.nullable \cup {p.head} ELSE st.nullable,
       changed  |-> \/ st.changed
                    \/ inserts /\ p.head \notin st.nullable
                    \/ firsts # st.firsts[p.head] ]

visit_productions(g, st) ==
  LET after[i \in 0 .. Len(g.prods)] ==
        IF i = 0 THEN [st EXCEPT !.changed = FALSE]
        ELSE visit_production(after[i - 1], g.prods[i])
  IN after[Len(g.prods)]

FirstSets(g) ==
  [firsts : [Symbols(g) -> SUBSET Symbols(g)], nullable : SUBSET Symbols(g), changed : BOOLEAN]

generate_first_sets(g) ==
  LET passes[st \in FirstSets(g)] ==
        LET pass == visit_productions(g, st)
        IN IF pass.changed THEN passes[pass] ELSE pass
  IN passes[[ firsts   |-> [s \in Symbols(g) |-> IF s \in g.terminals THEN {s} ELSE {}],
              nullable |-> {},
              changed  |-> TRUE ]]

\* Every symbol is nullable or begins with some token.
is_productive(g) ==
  LET fs == generate_first_sets(g) IN
  \A s \in Symbols(g) : s \in fs.nullable \/ fs.firsts[s] # {}

-----------------------------------------------------------------------------
(* LR(1) closures and lookaheads.  fs is the result of the first sets.     *)

\* What may follow the symbol after the dot.
lookaheads_after(g, fs, item) ==
  LET body == body_of(g, item)
      k    == item[2] + 2
  IN (UNION {fs.firsts[body[i]] : i \in reached(body, k, fs.nullable)})
     \cup (IF all_nullable(body, k, fs.nullable) THEN {item[3]} ELSE {})

lr1_closure(g, fs, items) ==
  worklist([item \in Items(g) |->
           {<<p, 0, l>> : p \in expanded(g, item), l \in lookaheads_after(g, fs, item)}], items)

(***************************************************************************)
(* generate_lr1_item_sets.  Lookaheads belong to items, not to items of    *)
(* a state, and spontaneous ones to productions.  Maps to sets are         *)
(* relations, sets of pairs.                                               *)
(***************************************************************************)
\* l1_item is in the closure of l0_item, whose lookahead is NullSymbol.
closure_of(g, fs, l0_item) == {<<l0_item, item>> : item \in lr1_closure(g, fs, {l0_item})}

closure_pairs(g, fs, kernels) == UNION {closure_of(g, fs, k) : k \in UNION kernels}

spontaneous_map(pairs) ==
  {<<c[2][1], c[2][3]>> : c \in {d \in pairs : d[2][3] # NullSymbol}}

\* Lookaheads are propagated along the item itself only.
propagate_map_mutant(g, pairs) ==
  {<<c[1], <<c[2][1], c[2][2] + 1, NullSymbol>>>> :
     c \in {d \in pairs : d[1] = d[2] /\ ~has_dot_at_end(g, d[2])}}

propagate_map(g, pairs) ==
  {<<c[1], <<c[2][1], c[2][2] + 1, NullSymbol>>>> :
     c \in {d \in pairs : d[2][3] = NullSymbol /\ ~has_dot_at_end(g, d[2])}}

propagate(g, la, prop) ==
  worklist([l \in Items(g) \X Lookaheads(g) |-> {<<e[2], l[2]>> : e \in {f \in prop : f[1] = l[1]}}],
        la)

lookaheads(g, fs, kernels) ==
  LET pairs == closure_pairs(g, fs, kernels)
      spontaneous == spontaneous_map(pairs)
      start == UNION {{<<k, s[2]>> : s \in {m \in spontaneous : m[1] = k[1]}} :
                      k \in UNION kernels}
      root == {<<k, TokenEnd>> :
                 k \in {i \in UNION kernels : i[1] = m_root_production_id}}
  IN propagate(g, start \cup root, propagate_map(g, pairs))

\* The closure of the LR(1) item set that stands for an LR(0) kernel.
lr1_items(g, fs, la, kernel) ==
  LET lr1_kernel == {<<l[1][1], l[1][2], l[2]>> : l \in {m \in la : m[1] \in kernel}}
  IN lr1_closure(g, fs, lr1_kernel)

-----------------------------------------------------------------------------
(* generate_lalr1_action.  Items are visited by production, so that the    *)
(* acceptance, which is written and overwritten without a check, comes     *)
(* after the first production and before all the others.                   *)

reductions(g, items, x) ==
  {i[1] : i \in {j \in items : /\ has_dot_at_end(g, j)
                               /\ j[1] # m_root_production_id
                               /\ j[3] = x}}

accepts(g, items, x) ==
  /\ x = TokenEnd
  /\ \E i \in items : i[1] = m_root_production_id /\ has_dot_at_end(g, i)

\* The entries for x that are compared with each other: "shift" to an item set
\* (also for the symbols that are no tokens) or "reduce" by a production.
entries(g, kernel, items, x) ==
  {<<"reduce", p>> : p \in IF accepts(g, items, x) THEN reductions(g, items, x) \ {1}
                           ELSE reductions(g, items, x)}
  \cup {<<"shift", go_to(g, kernel, x)>> :
          item \in {i \in items : ~has_dot_at_end(g, i) /\ next_symbol(g, i) = x}}

Error == <<"error">>
Accept == <<"accept">>
Conflict == <<"conflict">>

\* m_actions[x] of an item set; a conflict makes generate() throw.
action(g, kernel, items, x) ==
  LET found == entries(g, kernel, items, x)
  IN IF Cardinality(found) > 1 THEN Conflict
     ELSE IF found # {} THEN CHOOSE e \in found : TRUE
     ELSE IF accepts(g, items, x) THEN Accept
     ELSE Error

\* The tables that generate() leaves behind: the item sets and their actions.
\* m_actions[x] is an error where nothing was written.
generate(g) ==
  LET kernels == lr0_kernels(g)
      fs == generate_first_sets(g)
      la == lookaheads(g, fs, kernels)
  IN [k \in kernels |->
        LET items == lr1_items(g, fs, la, k)
            all   == [x \in Symbols(g) |-> action(g, k, items, x)]
        IN [x \in {y \in Symbols(g) : all[y] # Error} |-> all[x]]]

m_actions(actions, k, x) == IF x \in DOMAIN actions[k] THEN actions[k][x] ELSE Error

has_conflict(actions) ==
  \E k \in DOMAIN actions : \E x \in DOMAIN actions[k] : actions[k][x] = Conflict
=============================================================================
