------------------------------ MODULE SlotRing ------------------------------
(***************************************************************************)
(* What a table of thread slots promises: it holds as many of its keys as  *)
(* it has slots, and a key that comes in when it is full replaces a single *)
(* one: the least recently inserted (the "circular buffer" of              *)
(* fxt_writer.hpp:106) for the first Horizon insertions, then any.         *)
(***************************************************************************)
EXTENDS Naturals, SequencesExt

CONSTANTS Key, Capacity, Horizon

VARIABLES
  order,      \* the keys of the table, least recently inserted first
  insertions  \* how many there have been, counted up to Horizon

Init == order = <<>> /\ insertions = 0

\* What the next insertion may leave of the keys.
Kept ==
  IF Len(order) < Capacity THEN {order}
  ELSE IF insertions < Horizon THEN {Tail(order)}
  ELSE {RemoveAt(order, i) : i \in DOMAIN order}

Insert(k) ==
  /\ k \notin Range(order)
  /\ \E kept \in Kept : order' = Append(kept, k)
  /\ insertions' = IF insertions < Horizon THEN insertions + 1 ELSE Horizon

Next == \E k \in Key : Insert(k)

Spec == Init /\ [][Next]_<<order, insertions>>
=============================================================================
