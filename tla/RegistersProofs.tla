-------------------------- MODULE RegistersProofs --------------------------
(***************************************************************************)
(* The prefix tree keeps the lists of the registers apart, for every       *)
(* number of registers and nodes and every set of positions.               *)
(***************************************************************************)
EXTENDS Registers, SequenceTheorems, TLAPS

Inv == TypeOK /\ TreesIntact /\ WalkOnPath

-----------------------------------------------------------------------------
(* Sequences *)

\* Moving the first element of a list to the end of the one before it.
LEMMA MoveOver ==
  ASSUME NEW s \in Lists, NEW t \in Lists, NEW x \in Int
  PROVE  Append(s, x) \o t = s \o (<<x>> \o t)
  BY DEF Lists

LEMMA ConsType ==
  ASSUME NEW t \in Lists, NEW x \in Int
  PROVE  <<x>> \o t \in Lists
  BY DEF Lists

LEMMA EmptyConcat ==
  ASSUME NEW t \in Lists
  PROVE  << >> \o t = t /\ t \o << >> = t
  BY DEF Lists

-----------------------------------------------------------------------------
(* Trees *)

LEMMA EmptyTree == IsTree(<<Root>>, << << >> >>)
  BY DEF IsTree, Root, cRootId

\* PrefixTree::insert under a node of a tree makes a tree.
LEMMA GrownTree ==
  ASSUME NEW ns \in Seq(Nodes), NEW ps \in Seq(Lists), IsTree(ns, ps),
         NEW p \in 1 .. Len(ns), NEW x \in Int
  PROVE  IsTree(Append(ns, [parent |-> p, position |-> x]), Append(ps, <<x>> \o ps[p]))
  <1> DEFINE n == [parent |-> p, position |-> x]
             l == <<x>> \o ps[p]
             ms == Append(ns, n)
             qs == Append(ps, l)
  <1>1. Len(ns) = Len(ps) /\ Len(ns) \in Nat /\ Len(ns) >= 1
    BY DEF IsTree
  <1>2. n \in Nodes /\ n.parent = p /\ n.position = x
    BY <1>1 DEF Nodes
  <1>3. ps[p] \in Lists /\ l \in Lists
    BY <1>1, ConsType
  <1> HIDE DEF n, l
  <1>4. /\ Len(ms) = Len(ns) + 1 /\ Len(qs) = Len(ps) + 1
        /\ ms[Len(ns) + 1] = n /\ qs[Len(ps) + 1] = l
        /\ \A k \in 1 .. Len(ns) : ms[k] = ns[k] /\ qs[k] = ps[k]
    BY <1>1, <1>2, <1>3
  <1> HIDE DEF ms, qs
  <1>5. qs[cRootId] = << >>
    BY <1>1, <1>4 DEF IsTree, cRootId
  <1>6. ASSUME NEW k \in 2 .. Len(ms)
        PROVE  ms[k].parent \in 1 .. k - 1 /\ qs[k] = <<ms[k].position>> \o qs[ms[k].parent]
    <2>1. CASE k = Len(ns) + 1
      <3>1. ms[k] = n /\ qs[k] = l /\ qs[p] = ps[p]
        BY <1>1, <1>4, <2>1
      <3>2. l = <<x>> \o ps[p]
        BY DEF l
      <3> QED
        BY <1>1, <1>2, <2>1, <3>1, <3>2
    <2>2. CASE k \in 2 .. Len(ns)
      <3>1. ms[k] = ns[k] /\ qs[k] = ps[k]
        BY <1>1, <1>4, <2>2
      <3>2. ns[k].parent \in 1 .. k - 1 /\ ps[k] = <<ns[k].position>> \o ps[ns[k].parent]
        BY <2>2 DEF IsTree
      <3>3. qs[ns[k].parent] = ps[ns[k].parent]
        BY <1>1, <1>4, <2>2, <3>2
      <3> QED
        BY <3>1, <3>2, <3>3
    <2> QED
      BY <1>1, <1>4, <2>1, <2>2
  <1>7. IsTree(ms, qs)
    BY <1>1, <1>4, <1>5, <1>6 DEF IsTree
  <1> QED
    BY <1>7 DEF ms, qs, n, l

\* A walk that has not reached the root has a parent to go to, in the tree.
LEMMA UpOneNode ==
  ASSUME NEW ns \in Seq(Nodes), NEW ps \in Seq(Lists), IsTree(ns, ps),
         NEW k \in 1 .. Len(ns), k # cRootId, NEW s \in Lists
  PROVE  /\ ns[k].parent \in 1 .. Len(ns)
         /\ ns[k].position \in Int
         /\ Append(s, ns[k].position) \o ps[ns[k].parent] = s \o ps[k]
  <1>1. Len(ns) \in Nat /\ Len(ns) = Len(ps) /\ k \in 2 .. Len(ns)
    BY DEF IsTree, cRootId
  <1>2. ns[k].parent \in 1 .. k - 1 /\ ps[k] = <<ns[k].position>> \o ps[ns[k].parent]
    BY <1>1 DEF IsTree
  <1>3. ns[k] \in Nodes
    BY <1>1
  <1>4. ns[k].parent \in 1 .. Len(ns)
    BY <1>1, <1>2
  <1>5. ns[k].position \in Int
    BY <1>3 DEF Nodes
  <1>6. ps[ns[k].parent] \in Lists
    BY <1>1, <1>4
  <1>7. Append(s, ns[k].position) \o ps[ns[k].parent]
          = s \o (<<ns[k].position>> \o ps[ns[k].parent])
    BY <1>6, <1>5, MoveOver
  <1> QED
    BY <1>2, <1>4, <1>5, <1>7

-----------------------------------------------------------------------------
(* The inductive invariant *)

LEMMA InitInv == Init => Inv
  <1> SUFFICES ASSUME Init PROVE Inv
    OBVIOUS
  <1>1. TypeOK
    BY DEF Init, TypeOK, Root, cRootId, Nodes, Lists
  <1>2. TreesIntact
    BY EmptyTree DEF Init, TreesIntact, PointInto
  <1>3. WalkOnPath
    BY DEF Init, WalkOnPath
  <1> QED
    BY <1>1, <1>2, <1>3 DEF Inv

\* The invariant at a step that leaves the token and the read alone.
LEMMA HandlerStep ==
  ASSUME Inv, UNCHANGED <<token, walk, result>>,
         pc # "read", pc' \in {"generate", "scan"},
         nodes' \in Seq(Nodes), path' \in Seq(Lists), registers' \in Seq(Nat),
         num_regs' \in Nat, pc' # "generate" => num_regs' = Len(registers'),
         IsTree(nodes', path'), PointInto(registers', nodes')
  PROVE  Inv'
  <1>1. TypeOK'
    BY DEF Inv, TypeOK, walk
  <1>2. TreesIntact'
    BY DEF Inv, TreesIntact
  <1>3. WalkOnPath'
    BY DEF WalkOnPath
  <1> QED
    BY <1>1, <1>2, <1>3 DEF Inv

LEMMA AddRegisterInv == Inv /\ AddRegister => Inv'
  <1> SUFFICES ASSUME Inv, AddRegister PROVE Inv'
    OBVIOUS
  <1>1. /\ registers \in Seq(Nat) /\ nodes \in Seq(Nodes) /\ path \in Seq(Lists) /\ num_regs \in Nat
        /\ IsTree(nodes, path) /\ PointInto(registers, nodes)
    BY DEF Inv, TypeOK, TreesIntact
  <1>2. UNCHANGED <<nodes, path, num_regs, token, walk, result, pc>> /\ pc = "generate"
    BY DEF AddRegister
  <1>3. registers' \in Seq(Nat)
    BY <1>1 DEF AddRegister, cRootId
  <1>4. IsTree(nodes', path')
    BY <1>1, <1>2
  <1>5. PointInto(registers', nodes')
    BY <1>1, <1>2 DEF AddRegister, cRootId, PointInto, IsTree
  <1> QED
    BY <1>1, <1>2, <1>3, <1>4, <1>5, HandlerStep

LEMMA EndGenerateInv == Inv /\ EndGenerate => Inv'
  <1> SUFFICES ASSUME Inv, EndGenerate PROVE Inv'
    OBVIOUS
  <1>1. /\ registers \in Seq(Nat) /\ nodes \in Seq(Nodes) /\ path \in Seq(Lists)
        /\ IsTree(nodes, path) /\ PointInto(registers, nodes)
    BY DEF Inv, TypeOK, TreesIntact
  <1>2. UNCHANGED <<nodes, path, registers, token, walk, result>>
    BY DEF EndGenerate, handler
  <1>3. pc = "generate" /\ pc' = "scan" /\ num_regs' = Len(registers) /\ Len(registers) \in Nat
    BY <1>1 DEF EndGenerate
  <1>4. IsTree(nodes', path') /\ PointInto(registers', nodes')
    BY <1>1, <1>2
  <1> QED
    BY <1>1, <1>2, <1>3, <1>4, HandlerStep

LEMMA CopyRegisterInv ==
  ASSUME Inv, NEW dest \in DOMAIN registers, NEW source \in DOMAIN registers,
         CopyRegister(dest, source)
  PROVE  Inv'
  <1>1. /\ registers \in Seq(Nat) /\ nodes \in Seq(Nodes) /\ path \in Seq(Lists) /\ num_regs \in Nat
        /\ IsTree(nodes, path) /\ PointInto(registers, nodes)
        /\ pc # "generate" => num_regs = Len(registers)
    BY DEF Inv, TypeOK, TreesIntact
  <1>2. UNCHANGED <<nodes, path, num_regs, token, walk, result, pc>> /\ pc = "scan"
    BY DEF CopyRegister
  <1>3. registers' \in Seq(Nat) /\ Len(registers') = Len(registers)
    BY <1>1 DEF CopyRegister
  <1>4. IsTree(nodes', path')
    BY <1>1, <1>2
  <1>5. PointInto(registers', nodes')
    BY <1>1, <1>2, <1>3 DEF CopyRegister, PointInto
  <1> QED
    BY <1>1, <1>2, <1>3, <1>4, <1>5, HandlerStep

LEMMA AppendPositionInv ==
  ASSUME Inv, NEW r \in DOMAIN registers, NEW position \in Positions,
         AppendPosition(r, position)
  PROVE  Inv'
  <1> DEFINE n == [parent |-> registers[r], position |-> position]
             l == <<position>> \o path[registers[r]]
  <1>1. /\ registers \in Seq(Nat) /\ nodes \in Seq(Nodes) /\ path \in Seq(Lists) /\ num_regs \in Nat
        /\ IsTree(nodes, path) /\ PointInto(registers, nodes)
        /\ pc # "generate" => num_regs = Len(registers)
    BY DEF Inv, TypeOK, TreesIntact
  <1>2. UNCHANGED <<num_regs, token, walk, result, pc>> /\ pc = "scan"
    BY DEF AppendPosition
  <1>3. position \in Int /\ registers[r] \in 1 .. Len(nodes)
    BY <1>1, PositionsAssumption DEF PointInto
  <1>4. n \in Nodes /\ l \in Lists
    <2>1. path[registers[r]] \in Lists
      BY <1>1, <1>3 DEF IsTree
    <2>2. registers[r] \in Nat
      BY <1>1, <1>3
    <2> QED
      BY <1>3, <2>1, <2>2, ConsType DEF Nodes
  <1>5. nodes' = Append(nodes, n) /\ path' = Append(path, l)
    BY DEF AppendPosition, insert
  <1>6. IsTree(nodes', path')
    BY <1>1, <1>3, <1>5, GrownTree
  <1> HIDE DEF n, l
  <1>7. nodes' \in Seq(Nodes) /\ path' \in Seq(Lists) /\ Len(nodes') = Len(nodes) + 1
    BY <1>1, <1>4, <1>5
  <1>8. registers' \in Seq(Nat) /\ Len(registers') = Len(registers)
    BY <1>1 DEF AppendPosition
  <1>9. PointInto(registers', nodes')
    BY <1>1, <1>7, <1>8 DEF AppendPosition, PointInto
  <1> QED
    BY <1>1, <1>2, <1>6, <1>7, <1>8, <1>9, HandlerStep

LEMMA ReleaseRegHandlerInv == Inv /\ ReleaseRegHandler => Inv'
  <1> SUFFICES ASSUME Inv, ReleaseRegHandler PROVE Inv'
    OBVIOUS
  <1>1. /\ registers \in Seq(Nat) /\ nodes \in Seq(Nodes) /\ path \in Seq(Lists) /\ num_regs \in Nat
        /\ IsTree(nodes, path) /\ PointInto(registers, nodes)
    BY DEF Inv, TypeOK, TreesIntact
  <1>2. /\ token' = [nodes |-> nodes, path |-> path, registers |-> registers]
        /\ nodes' = <<Root>> /\ path' = << << >> >>
        /\ UNCHANGED <<num_regs, walk, result, pc>> /\ pc = "scan"
    BY DEF ReleaseRegHandler
  <1>3. registers' \in Seq(Nat) /\ Len(registers') = num_regs
    BY <1>1 DEF ReleaseRegHandler, cRootId
  <1>4. \A r \in 1 .. Len(registers') : registers'[r] = cRootId
    BY <1>1, <1>3 DEF ReleaseRegHandler
  <1>5. TypeOK'
    <2>1. nodes' \in Seq(Nodes) /\ path' \in Seq(Lists)
      BY <1>2 DEF Root, Nodes, Lists
    <2>2. token' \in [nodes : Seq(Nodes), path : Seq(Lists), registers : Seq(Nat)]
      BY <1>1, <1>2
    <2> QED
      BY <1>2, <1>3, <2>1, <2>2 DEF Inv, TypeOK, walk
  <1>6. TreesIntact'
    <2>1. IsTree(nodes', path')
      BY <1>2, EmptyTree
    <2>2. PointInto(registers', nodes')
      BY <1>2, <1>4 DEF PointInto, cRootId
    <2>3. IsTree(token.nodes', token.path') /\ PointInto(token.registers', token.nodes')
      BY <1>1, <1>2
    <2> QED
      BY <2>1, <2>2, <2>3 DEF TreesIntact
  <1>7. WalkOnPath'
    BY <1>2 DEF WalkOnPath
  <1> QED
    BY <1>5, <1>6, <1>7 DEF Inv

\* The invariant at a step of a read, which leaves both trees alone.
LEMMA ReadStep ==
  ASSUME Inv, UNCHANGED <<handler, num_regs, token>>,
         pc # "generate", pc' \in {"scan", "read"},
         reg' \in Nat, node' \in Nat, out' \in Lists, result' \in Lists, WalkOnPath'
  PROVE  Inv'
  <1>1. TypeOK'
    BY DEF Inv, TypeOK, handler
  <1>2. TreesIntact'
    BY DEF Inv, TreesIntact, handler
  <1> QED
    BY <1>1, <1>2 DEF Inv

LEMMA StartReadInv ==
  ASSUME Inv, NEW r \in DOMAIN token.registers, StartRead(r)
  PROVE  Inv'
  <1>1. /\ token.registers \in Seq(Nat) /\ token.nodes \in Seq(Nodes) /\ token.path \in Seq(Lists)
        /\ IsTree(token.nodes, token.path) /\ PointInto(token.registers, token.nodes)
        /\ result \in Lists
    BY DEF Inv, TypeOK, TreesIntact
  <1>2. /\ UNCHANGED <<handler, num_regs, token, result>> /\ pc = "scan" /\ pc' = "read"
        /\ reg' = r /\ node' = token.registers[r] /\ out' = << >>
    BY DEF StartRead
  <1>3. r \in 1 .. Len(token.registers) /\ node' \in 1 .. Len(token.nodes) /\ node' \in Nat
    <2>1. r \in 1 .. Len(token.registers)
      BY <1>1
    <2>2. token.registers[r] \in 1 .. Len(token.nodes)
      BY <1>1, <2>1 DEF PointInto
    <2>3. Len(token.nodes) \in Nat
      BY <1>1
    <2> QED
      BY <1>2, <2>1, <2>2, <2>3
  <1>4. token.path[node'] \in Lists /\ out' \in Lists
    BY <1>1, <1>2, <1>3 DEF IsTree, Lists
  <1>5. out' \o token.path[node'] = token.path[node']
    BY <1>2, <1>4, EmptyConcat
  <1>6. WalkOnPath'
    BY <1>2, <1>3, <1>5 DEF WalkOnPath
  <1> QED
    BY <1>1, <1>2, <1>3, <1>4, <1>6, ReadStep

LEMMA ReadNodeInv == Inv /\ ReadNode => Inv'
  <1> SUFFICES ASSUME Inv, ReadNode PROVE Inv'
    OBVIOUS
  <1>1. /\ token.registers \in Seq(Nat) /\ token.nodes \in Seq(Nodes) /\ token.path \in Seq(Lists)
        /\ IsTree(token.nodes, token.path)
        /\ result \in Lists /\ out \in Lists /\ reg \in Nat
    BY DEF Inv, TypeOK, TreesIntact
  <1>2. /\ UNCHANGED <<handler, num_regs, token, reg, result, pc>> /\ pc = "read" /\ node # cRootId
        /\ out' = Append(out, token.nodes[node].position) /\ node' = token.nodes[node].parent
    BY DEF ReadNode
  <1>3. /\ reg \in 1 .. Len(token.registers) /\ node \in 1 .. Len(token.nodes)
        /\ out \o token.path[node] = token.path[token.registers[reg]]
    BY <1>2 DEF Inv, WalkOnPath
  <1>4. /\ node' \in 1 .. Len(token.nodes)
        /\ token.nodes[node].position \in Int
        /\ out' \o token.path[node'] = out \o token.path[node]
    BY <1>1, <1>2, <1>3, UpOneNode
  <1>5. out' \in Lists
    BY <1>1, <1>2, <1>4 DEF Lists
  <1>6. WalkOnPath'
    BY <1>2, <1>3, <1>4 DEF WalkOnPath
  <1>7. node' \in Nat
    BY <1>1, <1>4
  <1> QED
    BY <1>1, <1>2, <1>5, <1>6, <1>7, ReadStep

LEMMA EndReadInv == Inv /\ EndRead => Inv'
  <1> SUFFICES ASSUME Inv, EndRead PROVE Inv'
    OBVIOUS
  <1>1. /\ UNCHANGED <<handler, num_regs, token>> /\ pc = "read" /\ pc' = "scan"
        /\ reg' = 1 /\ node' = node /\ out' = << >> /\ result' = out
    BY DEF EndRead
  <1>2. WalkOnPath'
    BY <1>1 DEF WalkOnPath
  <1>3. node \in Nat /\ out \in Lists /\ << >> \in Lists
    BY DEF Inv, TypeOK, Lists
  <1> QED
    BY <1>1, <1>2, <1>3, ReadStep

LEMMA NextInv == Inv /\ [Next]_vars => Inv'
  <1> SUFFICES ASSUME Inv, [Next]_vars PROVE Inv'
    OBVIOUS
  <1>1. CASE AddRegister
    BY <1>1, AddRegisterInv
  <1>2. CASE EndGenerate
    BY <1>2, EndGenerateInv
  <1>3. CASE \E dest, source \in DOMAIN registers : CopyRegister(dest, source)
    BY <1>3, CopyRegisterInv
  <1>4. CASE \E r \in DOMAIN registers, position \in Positions : AppendPosition(r, position)
    BY <1>4, AppendPositionInv
  <1>5. CASE ReleaseRegHandler
    BY <1>5, ReleaseRegHandlerInv
  <1>6. CASE \E r \in DOMAIN token.registers : StartRead(r)
    BY <1>6, StartReadInv
  <1>7. CASE ReadNode
    BY <1>7, ReadNodeInv
  <1>8. CASE EndRead
    BY <1>8, EndReadInv
  <1>9. CASE UNCHANGED vars
    BY <1>9 DEF vars, handler, walk, Inv, TypeOK, TreesIntact, WalkOnPath
  <1> QED
    BY <1>1, <1>2, <1>3, <1>4, <1>5, <1>6, <1>7, <1>8, <1>9 DEF Next

LEMMA SpecInv == Spec => []Inv
  BY InitInv, NextInv, PTL DEF Spec

-----------------------------------------------------------------------------
\* The handler's fields keep their types, and the automaton has m_num_regs
\* registers once Dfa::generate is done, also after every release_reg_handler.
THEOREM TypesPreserved == Spec => []TypeOK
  <1>1. Inv => TypeOK
    BY DEF Inv
  <1> QED
    BY <1>1, SpecInv, PTL

\* Neither PrefixTree::insert nor get_reversed_positions meets an index outside
\* its tree, however many registers share nodes and however often a handler is
\* moved to a token.
THEOREM TreesStayIntact == Spec => []TreesIntact
  <1>1. Inv => TreesIntact
    BY DEF Inv
  <1> QED
    BY <1>1, SpecInv, PTL

\* A walk of get_reversed_positions stays on the path of its register.
THEOREM WalksStayOnPath == Spec => []WalkOnPath
  <1>1. Inv => WalkOnPath
    BY DEF Inv
  <1> QED
    BY <1>1, SpecInv, PTL

-----------------------------------------------------------------------------
(* The refinement *)

\* ListsOf is a list of the registers' paths, one for each register.
LEMMA ListsOfElement ==
  ASSUME NEW rs \in Seq(Nat), NEW ps \in Seq(Lists)
  PROVE  /\ DOMAIN ListsOf(rs, ps) = 1 .. Len(rs)
         /\ \A r \in 1 .. Len(rs) : ListsOf(rs, ps)[r] = ps[rs[r]]
  BY DEF ListsOf

LEMMA InitRefines == Init => Promise!Init
  <1> SUFFICES ASSUME Init PROVE Promise!Init
    OBVIOUS
  <1>1. ListsOf(<< >>, << << >> >>) = << >>
    BY DEF ListsOf
  <1> QED
    BY <1>1 DEF Init, Promise!Init

\* AddRegister adds an empty list.
LEMMA AddRegisterRefines == Inv /\ AddRegister => Promise!Add
  <1> SUFFICES ASSUME Inv, AddRegister PROVE Promise!Add
    OBVIOUS
  <1> DEFINE L == ListsOf(registers, path)
             M == ListsOf(registers', path')
  <1>1. registers \in Seq(Nat) /\ path \in Seq(Lists) /\ path[cRootId] = << >>
    BY DEF Inv, TypeOK, TreesIntact, IsTree
  <1>2. registers' = Append(registers, cRootId) /\ UNCHANGED <<path, token, result>>
    BY DEF AddRegister
  <1>3. M = Append(L, << >>)
    BY <1>1, <1>2 DEF ListsOf, cRootId
  <1> QED
    BY <1>2, <1>3 DEF Promise!Add

\* CopyRegister copies a list.
LEMMA CopyRegisterRefines ==
  ASSUME Inv, NEW dest \in DOMAIN registers, NEW source \in DOMAIN registers,
         CopyRegister(dest, source)
  PROVE  Promise!Copy(dest, source)
  <1> DEFINE L == ListsOf(registers, path)
             M == ListsOf(registers', path')
  <1>1. registers \in Seq(Nat) /\ path \in Seq(Lists)
    BY DEF Inv, TypeOK
  <1>2. registers' = [registers EXCEPT ![dest] = registers[source]] /\ UNCHANGED <<path, token, result>>
    BY DEF CopyRegister
  <1>3. M = [L EXCEPT ![dest] = L[source]]
    <2>1. DOMAIN registers = 1 .. Len(registers) /\ Len(registers') = Len(registers)
      BY <1>1, <1>2
    <2>2. M = [k \in 1 .. Len(registers) |-> path[registers'[k]]]
      BY <1>2, <2>1 DEF ListsOf
    <2>3. \A k \in 1 .. Len(registers) :
            registers'[k] = IF k = dest THEN registers[source] ELSE registers[k]
      BY <1>2, <2>1
    <2>4. L[source] = path[registers[source]]
      BY <2>1 DEF ListsOf
    <2>5. [L EXCEPT ![dest] = L[source]]
            = [k \in 1 .. Len(registers) |-> IF k = dest THEN L[source] ELSE path[registers[k]]]
      BY <2>1 DEF ListsOf
    <2> QED
      BY <2>2, <2>3, <2>4, <2>5
  <1> QED
    BY <1>2, <1>3 DEF Promise!Copy

\* AppendPosition puts the position before its register's list, and no other
\* register's list changes, though they may share its old node.
LEMMA AppendPositionRefines ==
  ASSUME Inv, NEW r \in DOMAIN registers, NEW position \in Positions,
         AppendPosition(r, position)
  PROVE  Promise!Insert(r, position)
  <1> DEFINE L == ListsOf(registers, path)
             M == ListsOf(registers', path')
             l == <<position>> \o path[registers[r]]
  <1>1. /\ registers \in Seq(Nat) /\ path \in Seq(Lists) /\ nodes \in Seq(Nodes)
        /\ Len(nodes) = Len(path) /\ PointInto(registers, nodes)
    BY DEF Inv, TypeOK, TreesIntact, IsTree
  <1>2. /\ registers' = [registers EXCEPT ![r] = Len(nodes) + 1]
        /\ path' = Append(path, l)
        /\ UNCHANGED <<token, result>>
    BY DEF AppendPosition
  <1>3. \A k \in 1 .. Len(registers) : registers[k] \in 1 .. Len(path)
    BY <1>1 DEF PointInto
  <1>4. L[r] = path[registers[r]] /\ l = <<position>> \o L[r]
    BY <1>1 DEF ListsOf
  <1> HIDE DEF l
  <1>5. M = [L EXCEPT ![r] = l]
    <2>1. /\ DOMAIN registers = 1 .. Len(registers) /\ Len(registers') = Len(registers)
          /\ path' \in Seq(Lists) /\ path'[Len(path) + 1] = l
          /\ \A k \in 1 .. Len(path) : path'[k] = path[k]
      <3>1. l \in Lists
        BY <1>1, <1>3, PositionsAssumption, ConsType DEF l
      <3> QED
        BY <1>1, <1>2, <3>1
    <2>2. M = [k \in 1 .. Len(registers) |-> path'[registers'[k]]]
      BY <2>1 DEF ListsOf
    <2>3. \A k \in 1 .. Len(registers) :
            path'[registers'[k]] = IF k = r THEN l ELSE path[registers[k]]
      BY <1>1, <1>2, <1>3, <2>1
    <2>4. [L EXCEPT ![r] = l]
            = [k \in 1 .. Len(registers) |-> IF k = r THEN l ELSE path[registers[k]]]
      BY <2>1 DEF ListsOf
    <2> QED
      BY <2>2, <2>3, <2>4
  <1> QED
    BY <1>2, <1>4, <1>5 DEF Promise!Insert

\* The token gets the lists, and the automaton starts with empty ones.
LEMMA ReleaseRegHandlerRefines == Inv /\ ReleaseRegHandler => Promise!Take
  <1> SUFFICES ASSUME Inv, ReleaseRegHandler PROVE Promise!Take
    OBVIOUS
  <1>1. registers \in Seq(Nat) /\ path \in Seq(Lists) /\ num_regs = Len(registers)
    BY DEF Inv, TypeOK, ReleaseRegHandler
  <1>2. /\ token' = [nodes |-> nodes, path |-> path, registers |-> registers]
        /\ path' = << << >> >> /\ registers' = [r \in 1 .. num_regs |-> cRootId]
        /\ UNCHANGED result
    BY DEF ReleaseRegHandler
  <1>3. ListsOf(token.registers', token.path') = ListsOf(registers, path)
    BY <1>2
  <1>4. ListsOf(registers', path') = [r \in DOMAIN ListsOf(registers, path) |-> << >>]
    BY <1>1, <1>2 DEF ListsOf, cRootId
  <1> QED
    BY <1>2, <1>3, <1>4 DEF Promise!Take

\* What a walk returns at the root is the register's list.
LEMMA EndReadRefines == Inv /\ EndRead => \E r \in DOMAIN ListsOf(token.registers, token.path) : Promise!Read(r)
  <1> SUFFICES ASSUME Inv, EndRead
               PROVE  \E r \in DOMAIN ListsOf(token.registers, token.path) : Promise!Read(r)
    OBVIOUS
  <1> DEFINE L == ListsOf(token.registers, token.path)
  <1>1. token.registers \in Seq(Nat) /\ token.path \in Seq(Lists) /\ out \in Lists /\ token.path[cRootId] = << >>
    BY DEF Inv, TypeOK, TreesIntact, IsTree
  <1>2. UNCHANGED <<handler, token>> /\ result' = out /\ node = cRootId /\ pc = "read"
    BY DEF EndRead
  <1>3. reg \in 1 .. Len(token.registers) /\ out \o token.path[node] = token.path[token.registers[reg]]
    BY <1>2 DEF Inv, WalkOnPath
  <1>4. out = token.path[token.registers[reg]]
    BY <1>1, <1>2, <1>3, EmptyConcat
  <1>5. reg \in DOMAIN L /\ L[reg] = out
    BY <1>1, <1>3, <1>4, ListsOfElement
  <1>6. Promise!Read(reg)
    BY <1>2, <1>5 DEF Promise!Read, handler
  <1> QED
    BY <1>5, <1>6

LEMMA NextRefines == Inv /\ [Next]_vars => [Promise!Next]_(Promise!vars)
  <1> SUFFICES ASSUME Inv, [Next]_vars PROVE [Promise!Next]_(Promise!vars)
    OBVIOUS
  <1>0. DOMAIN ListsOf(registers, path) = DOMAIN registers
    BY DEF ListsOf, Inv, TypeOK
  <1>1. CASE AddRegister
    BY <1>1, AddRegisterRefines DEF Promise!Next
  <1>2. CASE EndGenerate
    BY <1>2 DEF EndGenerate, handler, Promise!vars
  <1>3. CASE \E dest, source \in DOMAIN registers : CopyRegister(dest, source)
    BY <1>0, <1>3, CopyRegisterRefines DEF Promise!Next
  <1>4. CASE \E r \in DOMAIN registers, position \in Positions : AppendPosition(r, position)
    BY <1>0, <1>4, AppendPositionRefines DEF Promise!Next
  <1>5. CASE ReleaseRegHandler
    BY <1>5, ReleaseRegHandlerRefines DEF Promise!Next
  <1>6. CASE \E r \in DOMAIN token.registers : StartRead(r)
    BY <1>6 DEF StartRead, handler, Promise!vars
  <1>7. CASE ReadNode
    BY <1>7 DEF ReadNode, handler, Promise!vars
  <1>8. CASE EndRead
    BY <1>8, EndReadRefines DEF Promise!Next
  <1>9. CASE UNCHANGED vars
    BY <1>9 DEF vars, handler, Promise!vars
  <1> QED
    BY <1>1, <1>2, <1>3, <1>4, <1>5, <1>6, <1>7, <1>8, <1>9 DEF Next

\* RegisterHandler implements registers that are lists of their own: a copy and
\* its original do not see each other's later appends, a released handler keeps
\* what it had, and get_reversed_positions returns what was appended.
THEOREM RegistersKeepTheirPromise == Spec => PromiseSpec
  <1>1. Spec => []Inv
    BY SpecInv
  <1> QED
    BY <1>1, InitRefines, NextRefines, PTL DEF Spec, PromiseSpec, Promise!Spec
=============================================================================
