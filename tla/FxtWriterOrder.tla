--------------------------- MODULE FxtWriterOrder ---------------------------
(***************************************************************************)
(* FxtWriter with the order in which the threads of its table were         *)
(* registered, to compare the table with SlotRing.                         *)
(***************************************************************************)
EXTENDS FxtWriter, SequencesExt

VARIABLES
  order,      \* the keys of thread_table, least recently inserted first
  insertions  \* how many there have been, counted up to CounterModulus

orderVars == <<writer, held, order, insertions>>

Registered == DOMAIN writer'.thread_table \ DOMAIN writer.thread_table

\* s without what is not in S.
Within(s, S) == FlattenSeq([i \in DOMAIN s |-> IF s[i] \in S THEN <<s[i]>> ELSE <<>>])

\* Threads that were evicted leave the order, a new one is its last.
RecordOrder ==
  /\ order' = Within(order, DOMAIN writer'.thread_table) \o SetToSeq(Registered)
  /\ insertions' = IF Registered # {} /\ insertions < CounterModulus
                   THEN insertions + 1 ELSE insertions

OrderInit == Init /\ order = <<>> /\ insertions = 0

OrderNext == Next /\ RecordOrder

OrderSpec == OrderInit /\ [][OrderNext]_orderVars

Ring == INSTANCE SlotRing
  WITH Key <- Threads, Capacity <- MaxThreadSlots, Horizon <- CounterModulus

\* The thread table is a full ring of MaxThreadSlots entries until the 8-bit
\* counter wraps; from then on a new thread may take the slot of any other, but
\* still of one only.  (fxt_writer.hpp:106, ensure_thread)
ThreadSlotsAreARing == Ring!Spec
=============================================================================
