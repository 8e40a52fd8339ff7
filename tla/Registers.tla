----------------------------- MODULE Registers -----------------------------
(***************************************************************************)
(* RegisterHandler and its PrefixTree, as Dfa and Token use them: the      *)
(* automaton adds registers while it is generated, appends to and copies   *)
(* them while it scans, and hands the whole handler to the token; the      *)
(* token reads a register by walking from a node of the tree to its root.  *)
(*                                                                         *)
(* Registers share the nodes of the tree: a copy copies the index of a     *)
(* node.  Indices count from 1, as sequences do.  path is a history        *)
(* variable: path[k] is what was appended to get to node k, latest first.  *)
(***************************************************************************)
EXTENDS Integers, Sequences

CONSTANTS
  Positions,      \* the positions in the input, and -1 for a negated tag
  MaxRegisters,   \* bounds of the model
  MaxNodes

ASSUME PositionsAssumption == Positions \subseteq Int
ASSUME BoundsAssumption == MaxRegisters \in Nat /\ MaxNodes \in Nat

VARIABLES
  nodes,      \* m_prefix_tree.m_nodes: a parent and a position each
  path,
  registers,  \* m_registers: a node each
  num_regs,   \* Dfa::m_num_regs
  token,      \* the handler that the last token took
  reg,        \* the register being read, ...
  node,       \* ... where the loop of get_reversed_positions is, ...
  out,        \* ... and its reversed_positions
  result,     \* what it returned last
  pc          \* "generate", "scan" or "read"

handler == <<nodes, path, registers>>
walk == <<reg, node, out>>
vars == <<handler, num_regs, token, walk, result, pc>>

cRootId == 1
Root == [parent |-> 0, position |-> -1]

\* Dfa::generate ...
AddRegister ==
  /\ pc = "generate"
  /\ Len(registers) < MaxRegisters
  /\ registers' = Append(registers, cRootId)
  /\ UNCHANGED <<nodes, path, num_regs, token, walk, result, pc>>

\* m_num_regs is not set.
EndGenerate_mutant ==
  /\ pc = "generate"
  /\ pc' = "scan"
  /\ UNCHANGED <<handler, num_regs, token, walk, result>>

\* ... up to its last statement.
EndGenerate ==
  /\ pc = "generate"
  /\ num_regs' = Len(registers)
  /\ pc' = "scan"
  /\ UNCHANGED <<handler, token, walk, result>>

CopyRegister(dest, source) ==
  /\ pc = "scan"
  /\ registers' = [registers EXCEPT ![dest] = registers[source]]
  /\ UNCHANGED <<nodes, path, num_regs, token, walk, result, pc>>

\* The new node is its own parent.
insert_mutant(parent_node_id, position) ==
  Append(nodes, [parent |-> Len(nodes) + 1, position |-> position])

\* PrefixTree::insert
insert(parent_node_id, position) ==
  Append(nodes, [parent |-> parent_node_id, position |-> position])

\* The position of the register's node is changed when it has one.
AppendPosition_mutant(r, position) ==
  /\ pc = "scan"
  /\ Len(nodes) < MaxNodes
  /\ IF registers[r] = cRootId
       THEN /\ nodes' = insert(registers[r], position)
            /\ path' = Append(path, <<position>>)
            /\ registers' = [registers EXCEPT ![r] = Len(nodes')]
       ELSE /\ nodes' = [nodes EXCEPT ![registers[r]].position = position]
            /\ UNCHANGED <<path, registers>>
  /\ UNCHANGED <<num_regs, token, walk, result, pc>>

AppendPosition(r, position) ==
  /\ pc = "scan"
  /\ Len(nodes) < MaxNodes
  /\ nodes' = insert(registers[r], position)
  /\ path' = Append(path, <<position>> \o path[registers[r]])
  /\ registers' = [registers EXCEPT ![r] = Len(nodes) + 1]
  /\ UNCHANGED <<num_regs, token, walk, result, pc>>

\* The token's registers go on in the automaton.
ReleaseRegHandler_mutant ==
  /\ pc = "scan"
  /\ token' = [nodes |-> nodes, path |-> path, registers |-> registers]
  /\ UNCHANGED <<handler, num_regs, walk, result, pc>>

\* Dfa::release_reg_handler
ReleaseRegHandler ==
  /\ pc = "scan"
  /\ token' = [nodes |-> nodes, path |-> path, registers |-> registers]
  /\ nodes' = <<Root>>
  /\ path' = << << >> >>
  /\ registers' = [r \in 1 .. num_regs |-> cRootId]
  /\ UNCHANGED <<num_regs, walk, result, pc>>

\* Token::get_reversed_reg_positions and the loop it calls.
StartRead(r) ==
  /\ pc = "scan"
  /\ reg' = r
  /\ node' = token.registers[r]
  /\ out' = << >>
  /\ pc' = "read"
  /\ UNCHANGED <<handler, num_regs, token, result>>

\* A negated position is skipped without going up to the parent.
ReadNode_mutant ==
  /\ pc = "read" /\ node # cRootId
  /\ IF token.nodes[node].position < 0
       THEN UNCHANGED <<out, node>>
       ELSE /\ out' = Append(out, token.nodes[node].position)
            /\ node' = token.nodes[node].parent
  /\ UNCHANGED <<handler, num_regs, token, reg, result, pc>>

ReadNode ==
  /\ pc = "read" /\ node # cRootId
  /\ out' = Append(out, token.nodes[node].position)
  /\ node' = token.nodes[node].parent
  /\ UNCHANGED <<handler, num_regs, token, reg, result, pc>>

EndRead ==
  /\ pc = "read" /\ node = cRootId
  /\ result' = out
  /\ reg' = 1 /\ out' = << >> /\ UNCHANGED node    \* no longer in scope
  /\ pc' = "scan"
  /\ UNCHANGED <<handler, num_regs, token>>

Init ==
  /\ nodes = <<Root>>
  /\ path = << << >> >>
  /\ registers = << >>
  /\ num_regs = 0
  /\ token = [nodes |-> <<Root>>, path |-> << << >> >>, registers |-> << >>]
  /\ reg = 1
  /\ node = cRootId
  /\ out = << >>
  /\ result = << >>
  /\ pc = "generate"

Next ==
  \/ AddRegister
  \/ EndGenerate
  \/ \E dest, source \in DOMAIN registers : CopyRegister(dest, source)
  \/ \E r \in DOMAIN registers, position \in Positions : AppendPosition(r, position)
  \/ ReleaseRegHandler
  \/ \E r \in DOMAIN token.registers : StartRead(r)
  \/ ReadNode
  \/ EndRead

Spec == Init /\ [][Next]_vars

\* The loop of get_reversed_positions runs on.
LiveSpec == Spec /\ WF_vars(ReadNode \/ EndRead)

-----------------------------------------------------------------------------
(* Properties *)

Nodes == [parent : Nat, position : Int]
Lists == Seq(Int)

\* Types; m_num_regs is the number of the registers once they are all added.
TypeOK ==
  /\ nodes \in Seq(Nodes)
  /\ path \in Seq(Lists)
  /\ registers \in Seq(Nat)
  /\ num_regs \in Nat
  /\ token \in [nodes : Seq(Nodes), path : Seq(Lists), registers : Seq(Nat)]
  /\ reg \in Nat /\ node \in Nat /\ out \in Lists
  /\ result \in Lists
  /\ pc \in {"generate", "scan", "read"}
  /\ pc # "generate" => num_regs = Len(registers)

\* Every node but the root is a step of its parent's path, and older than it.
IsTree(ns, ps) ==
  /\ Len(ns) = Len(ps) /\ Len(ns) >= 1
  /\ ps[cRootId] = << >>
  /\ \A k \in 2 .. Len(ns) : /\ ns[k].parent \in 1 .. k - 1
                             /\ ps[k] = <<ns[k].position>> \o ps[ns[k].parent]

PointInto(rs, ns) == \A r \in 1 .. Len(rs) : rs[r] \in 1 .. Len(ns)

\* The nodes form a tree with the paths that were appended, and no register of
\* the automaton or of the token points out of its tree: neither
\* PrefixTree::insert nor get_reversed_positions throws out_of_range.
TreesIntact ==
  /\ IsTree(nodes, path) /\ PointInto(registers, nodes)
  /\ IsTree(token.nodes, token.path) /\ PointInto(token.registers, token.nodes)

\* What was collected, followed by what is still above, is what was appended.
WalkOnPath ==
  pc = "read" =>
    /\ reg \in 1 .. Len(token.registers)
    /\ node \in 1 .. Len(token.nodes)
    /\ out \o token.path[node] = token.path[token.registers[reg]]

\* The registers behave as lists of their own, whatever nodes they share.
ListsOf(rs, ps) == [r \in 1 .. Len(rs) |-> ps[rs[r]]]

Promise == INSTANCE RegisterLists WITH
  lists <- ListsOf(registers, path),
  taken <- ListsOf(token.registers, token.path)

PromiseSpec == Promise!Spec

\* Every walk to the root ends.
ReadsEnd == (pc = "read") ~> (pc = "scan")
=============================================================================
