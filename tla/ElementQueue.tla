---------------------------- MODULE ElementQueue ----------------------------
(***************************************************************************)
(* What the NAT's linked list promises its two users, without locks, nodes  *)
(* or pointers: an element is inserted behind those that are there, once;   *)
(* the first one is taken out, and only then is its node given back.        *)
(* MappingTable and BanTable use the list in these two steps.               *)
(***************************************************************************)
EXTENDS Naturals, Sequences

CONSTANT Element

VARIABLES
  items,     \* the elements in the list, oldest insertion first
  removed    \* those that were taken out

vars == <<items, removed>>

Init == items = << >> /\ removed = {}

Insert(e) ==
  /\ e \notin removed
  /\ \A i \in 1..Len(items) : items[i] # e
  /\ items' = Append(items, e)
  /\ UNCHANGED removed

Remove ==
  /\ items # << >>
  /\ items' = Tail(items)
  /\ removed' = removed \cup {Head(items)}

Next == Remove \/ \E e \in Element : Insert(e)

Spec == Init /\ [][Next]_vars
=============================================================================
