--------------------------- MODULE RegisterLists ---------------------------
(***************************************************************************)
(* What the registers of an automaton promise: each is a list of positions *)
(* of its own, the latest first.  A token takes the lists with it, and     *)
(* reading one of them returns it.                                         *)
(***************************************************************************)
EXTENDS Integers, Sequences

CONSTANT Positions    \* what may be appended

VARIABLES
  lists,    \* the registers of the automaton
  taken,    \* the registers of the token
  result    \* what was read last

vars == <<lists, taken, result>>

Init ==
  /\ lists = << >>
  /\ taken = << >>
  /\ result = << >>

Add == lists' = Append(lists, << >>) /\ UNCHANGED <<taken, result>>

Copy(dest, source) ==
  lists' = [lists EXCEPT ![dest] = lists[source]] /\ UNCHANGED <<taken, result>>

Insert(r, position) ==
  lists' = [lists EXCEPT ![r] = <<position>> \o lists[r]] /\ UNCHANGED <<taken, result>>

Take ==
  /\ taken' = lists
  /\ lists' = [r \in DOMAIN lists |-> << >>]
  /\ UNCHANGED result

Read(r) == result' = taken[r] /\ UNCHANGED <<lists, taken>>

Next ==
  \/ Add
  \/ \E dest, source \in DOMAIN lists : Copy(dest, source)
  \/ \E r \in DOMAIN lists, position \in Positions : Insert(r, position)
  \/ Take
  \/ \E r \in DOMAIN taken : Read(r)

Spec == Init /\ [][Next]_vars
=============================================================================
