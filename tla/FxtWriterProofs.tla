--------------------------- MODULE FxtWriterProofs ---------------------------
(***************************************************************************)
(* Proofs about FxtWriter, for every value of its constants.               *)
(*                                                                         *)
(* Each operation is an operator on writers, so each is shown to keep      *)
(* WriterInv, the inductive invariant, and to be a step of Evolves: what   *)
(* can become of the references a reader has already been given.  The      *)
(* operations that call others follow by composition.  The last part shows *)
(* that the thread table implements SlotRing.                              *)
(***************************************************************************)
EXTENDS FxtWriterOrder, FiniteSetTheorems, TLAPS

FaithfulIn(w) ==
  /\ "thread" \notin w.misread
  /\ ~w.string_id_warning_issued => "name" \notin w.misread

\* The inductive invariant.  The density of the ids is what makes the id that
\* eviction reclaims be 1.
WriterInv(w) ==
  /\ WriterType(w)
  /\ IdsDenseIn(w)
  /\ StringsMatchReaderIn(w)
  /\ ThreadsMatchReaderIn(w)
  /\ FaithfulIn(w)

Exhausted(w) == w.string_id_warning_issued

\* From w to v, no reference above 1 has changed its meaning, and none at all
\* if v is not exhausted.
Evolves(w, v) ==
  /\ Exhausted(w) => Exhausted(v)
  /\ \A id \in DOMAIN w.reader_strings :
       /\ id \in DOMAIN v.reader_strings
       /\ id # 1 \/ ~Exhausted(v) => v.reader_strings[id] = w.reader_strings[id]

SameThreads(w, v) ==
  /\ v.thread_table = w.thread_table
  /\ v.reader_threads = w.reader_threads
  /\ v.next_thread_slot = w.next_thread_slot

\* The threads of v are those of w, but for one that may have been given a slot.
RegistersOne(w, v) ==
  \/ SameThreads(w, v)
  \/ \E t \in Threads \ DOMAIN w.thread_table : SameThreads(AssignSlot(w, t), v)

-----------------------------------------------------------------------------
(* Strings *)

\* When all ids are in use, the victim is the string that holds id 1.
LEMMA VictimHoldsOne ==
  ASSUME NEW w, WriterInv(w), w.next_string_id > MaxStringId
  PROVE  /\ Victim(w.string_table) \in DOMAIN w.string_table
         /\ w.string_table[Victim(w.string_table)] = 1
<1> DEFINE table == w.string_table
<1>1. w.next_string_id = MaxStringId + 1 /\ table \in [DOMAIN table -> 1..MaxStringId]
  BY LimitsAssumption DEF WriterInv, WriterType
<1>2. 1 \in Range(table)
  BY <1>1, LimitsAssumption DEF WriterInv, IdsDenseIn
<1>3. PICK u \in DOMAIN table : table[u] = 1
  BY <1>2 DEF Range
<1>4. \A s \in DOMAIN table : table[u] <= table[s]
  BY <1>1, <1>3
<1>5. /\ Victim(table) \in DOMAIN table
      /\ \A s \in DOMAIN table : table[Victim(table)] <= table[s]
  BY <1>3, <1>4 DEF Victim
<1>6. table[Victim(table)] <= 1 /\ table[Victim(table)] \in 1..MaxStringId
  BY <1>1, <1>3, <1>5
<1> QED
  BY <1>5, <1>6, LimitsAssumption

\* A fresh id keeps the invariant and changes no reference.
LEMMA AllocateStringOK ==
  ASSUME NEW w, WriterInv(w), NEW s \in Strings \ {EmptyString},
         s \notin DOMAIN w.string_table, w.next_string_id <= MaxStringId
  PROVE  /\ WriterInv(AllocateString(w, s))
         /\ Evolves(w, AllocateString(w, s))
         /\ SameThreads(w, AllocateString(w, s))
         /\ s \in DOMAIN AllocateString(w, s).string_table
<1> DEFINE v  == AllocateString(w, s)
           id == w.next_string_id
<1>1. WriterType(w) /\ IdsDenseIn(w) /\ id \in 1..MaxStringId
  BY LimitsAssumption DEF WriterInv, WriterType
<1>2. v = [w EXCEPT !.string_table   = Bind(w.string_table, s, id),
                    !.next_string_id = id + 1,
                    !.reader_strings = Bind(w.reader_strings, id, Effective[s])]
  BY <1>1 DEF AllocateString, EmitStringRecord, WriterType
<1>3. /\ v.string_table = Bind(w.string_table, s, id)
      /\ v.next_string_id = id + 1
      /\ v.reader_strings = Bind(w.reader_strings, id, Effective[s])
      /\ v.string_id_warning_issued = w.string_id_warning_issued
      /\ v.thread_table = w.thread_table
      /\ v.reader_threads = w.reader_threads
      /\ v.next_thread_slot = w.next_thread_slot
      /\ v.misread = w.misread
  BY <1>1, <1>2 DEF WriterType
<1> HIDE DEF v
<1>4. WriterType(v)
  <2>1. v.string_table \in [DOMAIN v.string_table -> 1..MaxStringId]
    BY <1>1, <1>3 DEF Bind, WriterType
  <2>2. v.reader_strings \in [DOMAIN v.reader_strings -> Strings]
    BY <1>1, <1>3, NamesAssumption DEF Bind, WriterType
  <2>3. DOMAIN v.string_table \subseteq Strings \ {EmptyString}
    BY <1>1, <1>3 DEF Bind, WriterType
  <2>4. v.next_string_id \in 1..(MaxStringId + 1)
    BY <1>1, <1>3, LimitsAssumption
  <2> QED
    BY <1>1, <1>2, <1>3, <2>1, <2>2, <2>3, <2>4 DEF WriterType
<1>5. IdsDenseIn(v)
  <2>1. \A u \in DOMAIN w.string_table : w.string_table[u] \in 1..(id - 1)
    BY <1>1 DEF IdsDenseIn, Range
  <2>2. \A u \in DOMAIN w.string_table : v.string_table[u] = w.string_table[u]
    BY <1>3 DEF Bind
  <2>3. v.string_table[s] = id /\ DOMAIN v.string_table = DOMAIN w.string_table \cup {s}
    BY <1>3 DEF Bind
  <2>4. IsInjective(v.string_table)
    BY <1>1, <2>1, <2>2, <2>3 DEF IdsDenseIn, IsInjective
  <2>5. Range(v.string_table) = Range(w.string_table) \cup {id}
    BY <2>2, <2>3 DEF Range
  <2>6. 1..id = 1..(id - 1) \cup {id}
    BY <1>1, LimitsAssumption
  <2>7. (id + 1) - 1 = id /\ (id = MaxStringId + 1 => FALSE)
    BY <1>1, LimitsAssumption
  <2>8. DOMAIN v.reader_strings = DOMAIN w.reader_strings \cup {id}
    BY <1>3 DEF Bind
  <2> QED
    BY <1>1, <1>3, <2>4, <2>5, <2>6, <2>7, <2>8 DEF IdsDenseIn
<1>6. \A i \in DOMAIN w.reader_strings :
        i \in DOMAIN v.reader_strings /\ v.reader_strings[i] = w.reader_strings[i]
  <2>1. id \notin DOMAIN w.reader_strings
    BY <1>1, LimitsAssumption DEF IdsDenseIn
  <2> QED
    BY <1>3, <2>1 DEF Bind
<1>7. StringsMatchReaderIn(v)
  <2> SUFFICES ASSUME NEW u \in DOMAIN v.string_table
               PROVE  Decodes(v, u, v.string_table[u])
    BY DEF StringsMatchReaderIn
  <2>1. CASE u = s
    <3>1. v.string_table[u] = id /\ id # 0
      BY <1>1, <1>3, <2>1 DEF Bind
    <3>2. id \in DOMAIN v.reader_strings /\ v.reader_strings[id] = Effective[s]
      BY <1>3 DEF Bind
    <3> QED
      BY <2>1, <3>1, <3>2 DEF Decodes
  <2>2. CASE u # s
    <3>1. u \in DOMAIN w.string_table /\ v.string_table[u] = w.string_table[u]
      BY <1>3, <2>2 DEF Bind
    <3>2. Decodes(w, u, w.string_table[u])
      BY <3>1 DEF WriterInv, StringsMatchReaderIn
    <3> QED
      BY <1>6, <3>1, <3>2 DEF Decodes
  <2> QED
    BY <2>1, <2>2
<1>8. Evolves(w, v) /\ SameThreads(w, v) /\ s \in DOMAIN v.string_table
  BY <1>3, <1>6 DEF Bind, Evolves, SameThreads, Exhausted
<1>9. ThreadsMatchReaderIn(v) /\ FaithfulIn(v)
  BY <1>3 DEF WriterInv, ThreadsMatchReaderIn, FaithfulIn
<1> QED
  BY <1>4, <1>5, <1>7, <1>8, <1>9 DEF WriterInv, v

\* Reclaiming the victim's id keeps the invariant and changes only what 1 means.
LEMMA EvictForStringOK ==
  ASSUME NEW w, WriterInv(w), NEW s \in Strings \ {EmptyString},
         s \notin DOMAIN w.string_table, w.next_string_id > MaxStringId
  PROVE  /\ WriterInv(EvictForString(w, s))
         /\ Evolves(w, EvictForString(w, s))
         /\ SameThreads(w, EvictForString(w, s))
         /\ s \in DOMAIN EvictForString(w, s).string_table
<1> DEFINE v      == EvictForString(w, s)
           victim == Victim(w.string_table)
           rest   == DOMAIN w.string_table \ {victim}
<1>1. WriterType(w) /\ IdsDenseIn(w) /\ w.next_string_id = MaxStringId + 1
  BY LimitsAssumption DEF WriterInv, WriterType
<1>2. victim \in DOMAIN w.string_table /\ w.string_table[victim] = 1
  BY VictimHoldsOne
<1>3. v = [w EXCEPT !.string_table = Bind(Restrict(w.string_table, rest), s, 1),
                    !.string_id_warning_issued = TRUE,
                    !.reader_strings = Bind(w.reader_strings, 1, Effective[s])]
  BY <1>1, <1>2 DEF EvictForString, EmitStringRecord, WriterType
<1>4. /\ v.string_table = Bind(Restrict(w.string_table, rest), s, 1)
      /\ v.string_id_warning_issued = TRUE
      /\ v.next_string_id = w.next_string_id
      /\ v.reader_strings = Bind(w.reader_strings, 1, Effective[s])
      /\ v.thread_table = w.thread_table
      /\ v.reader_threads = w.reader_threads
      /\ v.next_thread_slot = w.next_thread_slot
      /\ v.misread = w.misread
  BY <1>1, <1>3 DEF WriterType
<1> HIDE DEF v, victim
<1>5. /\ DOMAIN v.string_table = rest \cup {s}
      /\ v.string_table[s] = 1
      /\ \A u \in rest : u # s /\ v.string_table[u] = w.string_table[u]
  BY <1>4 DEF Bind, Restrict
<1>6. \A u \in rest : w.string_table[u] \in 2..MaxStringId
  BY <1>1, <1>2 DEF WriterType, IdsDenseIn, IsInjective
<1>7. 1 \in DOMAIN w.reader_strings
  BY <1>1, LimitsAssumption DEF IdsDenseIn
<1>8. /\ DOMAIN v.reader_strings = DOMAIN w.reader_strings
      /\ v.reader_strings[1] = Effective[s]
      /\ \A i \in DOMAIN w.reader_strings :
           i # 1 => v.reader_strings[i] = w.reader_strings[i]
  BY <1>4, <1>7 DEF Bind
<1>9. WriterType(v)
  <2>1. v.string_table \in [DOMAIN v.string_table -> 1..MaxStringId]
    BY <1>1, <1>4, LimitsAssumption DEF WriterType, Bind, Restrict
  <2>2. v.reader_strings \in [DOMAIN v.reader_strings -> Strings]
    BY <1>1, <1>4, NamesAssumption DEF WriterType, Bind
  <2>3. DOMAIN v.string_table \subseteq Strings \ {EmptyString}
    BY <1>1, <1>5 DEF WriterType
  <2> QED
    BY <1>1, <1>3, <1>4, <2>1, <2>2, <2>3 DEF WriterType
<1>10. IdsDenseIn(v)
  <2>1. IsInjective(v.string_table)
    BY <1>1, <1>5, <1>6 DEF IdsDenseIn, IsInjective
  <2>2. Range(v.string_table) = Range(w.string_table)
    BY <1>2, <1>5 DEF Range
  <2> QED
    BY <1>1, <1>4, <1>8, <2>1, <2>2 DEF IdsDenseIn
<1>11. StringsMatchReaderIn(v)
  <2> SUFFICES ASSUME NEW u \in DOMAIN v.string_table
               PROVE  Decodes(v, u, v.string_table[u])
    BY DEF StringsMatchReaderIn
  <2>1. CASE u = s
    BY <1>5, <1>7, <1>8, <2>1 DEF Decodes
  <2>2. CASE u \in rest
    <3>1. Decodes(w, u, w.string_table[u])
      BY <2>2 DEF WriterInv, StringsMatchReaderIn
    <3> QED
      BY <1>5, <1>6, <1>8, <2>2, <3>1 DEF Decodes
  <2> QED
    BY <1>5, <2>1, <2>2
<1>12. Evolves(w, v) /\ SameThreads(w, v) /\ s \in DOMAIN v.string_table
  BY <1>4, <1>5, <1>8 DEF Evolves, SameThreads, Exhausted
<1>13. ThreadsMatchReaderIn(v) /\ FaithfulIn(v)
  BY <1>4 DEF WriterInv, ThreadsMatchReaderIn, FaithfulIn
<1> QED
  BY <1>9, <1>10, <1>11, <1>12, <1>13 DEF WriterInv, v

\* intern_string keeps the invariant, changes no reference that Evolves
\* protects, and returns an id that the reader resolves to the string.
LEMMA InternStringOK ==
  ASSUME NEW w, WriterInv(w), NEW s \in Strings
  PROVE  /\ WriterInv(InternString(w, s))
         /\ Evolves(w, InternString(w, s))
         /\ SameThreads(w, InternString(w, s))
         /\ StringId(InternString(w, s), s) \in 0..MaxStringId
         /\ Decodes(InternString(w, s), s, StringId(InternString(w, s), s))
<1> DEFINE v == InternString(w, s)
<1>1. /\ WriterInv(v) /\ Evolves(w, v) /\ SameThreads(w, v)
      /\ s = EmptyString \/ s \in DOMAIN v.string_table
  <2>1. CASE s = EmptyString \/ s \in DOMAIN w.string_table
    BY <2>1 DEF InternString, Evolves, SameThreads, Exhausted
  <2>2. CASE /\ s # EmptyString /\ s \notin DOMAIN w.string_table
             /\ w.next_string_id <= MaxStringId
    BY <2>2, AllocateStringOK DEF InternString
  <2>3. CASE /\ s # EmptyString /\ s \notin DOMAIN w.string_table
             /\ w.next_string_id > MaxStringId
    <3>1. ~(w.next_string_id <= MaxStringId)
      BY <2>3, LimitsAssumption DEF WriterInv, WriterType
    <3> QED
      BY <2>3, <3>1, EvictForStringOK DEF InternString
  <2>4. w.next_string_id <= MaxStringId \/ w.next_string_id > MaxStringId
    BY LimitsAssumption DEF WriterInv, WriterType
  <2> QED
    BY <2>1, <2>2, <2>3, <2>4
<1> HIDE DEF v
<1>2. CASE s = EmptyString
  BY <1>1, <1>2, LimitsAssumption DEF StringId, Decodes, v
<1>3. CASE s # EmptyString
  <2>1. s \in DOMAIN v.string_table /\ StringId(v, s) = v.string_table[s]
    BY <1>1, <1>3 DEF StringId
  <2>2. v.string_table[s] \in 1..MaxStringId
    BY <1>1, <2>1 DEF WriterInv, WriterType
  <2>3. Decodes(v, s, v.string_table[s])
    BY <1>1, <2>1 DEF WriterInv, StringsMatchReaderIn
  <2> QED
    BY <1>1, <2>1, <2>2, <2>3, LimitsAssumption DEF v
<1> QED
  BY <1>2, <1>3

-----------------------------------------------------------------------------
(* How the state may evolve *)

LEMMA EvolvesTransitive ==
  ASSUME NEW u, NEW v, NEW w, Evolves(u, v), Evolves(v, w)
  PROVE  Evolves(u, w)
BY DEF Evolves

\* A reference the reader resolves keeps its meaning, unless it is 1 and the
\* ids are exhausted.
LEMMA DecodesStays ==
  ASSUME NEW v, NEW w, Evolves(v, w), NEW s, NEW id, Decodes(v, s, id),
         id # 1 \/ ~Exhausted(w)
  PROVE  Decodes(w, s, id)
BY DEF Evolves, Decodes

-----------------------------------------------------------------------------
(* Records *)

\* A record whose names resolve, or that is written after exhaustion, spoils
\* nothing.
LEMMA EmitNamesOK ==
  ASSUME NEW w, WriterInv(w), NEW names,
         Exhausted(w) \/ \A n \in names : Decodes(w, n[1], n[2])
  PROVE  /\ WriterInv(EmitNames(w, names))
         /\ Evolves(w, EmitNames(w, names))
         /\ SameThreads(w, EmitNames(w, names))
<1>1. CASE EmitNames(w, names) = w
  BY <1>1 DEF Evolves, SameThreads
<1>2. CASE Exhausted(w) /\ EmitNames(w, names) = [w EXCEPT !.misread = @ \cup {"name"}]
  <2> DEFINE v == EmitNames(w, names)
  <2>1. /\ v = [w EXCEPT !.misread = w.misread \cup {"name"}]
        /\ WriterType(w)
    BY <1>2 DEF WriterInv, WriterType
  <2>2. /\ v.string_table = w.string_table
        /\ v.next_string_id = w.next_string_id
        /\ v.string_id_warning_issued = w.string_id_warning_issued
        /\ v.thread_table = w.thread_table
        /\ v.reader_strings = w.reader_strings
        /\ v.reader_threads = w.reader_threads
        /\ v.next_thread_slot = w.next_thread_slot
        /\ v.misread = w.misread \cup {"name"}
    BY <2>1 DEF WriterType
  <2>3. WriterType(v)
    BY <2>1, <2>2 DEF WriterType
  <2> HIDE DEF v
  <2>4. IdsDenseIn(v) /\ ThreadsMatchReaderIn(v)
    BY <2>2 DEF WriterInv, IdsDenseIn, ThreadsMatchReaderIn
  <2>5. StringsMatchReaderIn(v)
    BY <2>2 DEF WriterInv, StringsMatchReaderIn, Decodes
  <2>6. FaithfulIn(v)
    BY <1>2, <2>2 DEF WriterInv, FaithfulIn, Exhausted
  <2> QED
    BY <2>2, <2>3, <2>4, <2>5, <2>6 DEF WriterInv, Evolves, SameThreads, Exhausted, v
<1> QED
  BY <1>1, <1>2 DEF EmitNames

\* write_process_name.
LEMMA WriteProcessNameOK ==
  ASSUME NEW w, WriterInv(w), NEW name \in Strings
  PROVE  /\ WriterInv(WriteProcessName(w, name))
         /\ Evolves(w, WriteProcessName(w, name))
         /\ SameThreads(w, WriteProcessName(w, name))
<1> DEFINE w1    == InternString(w, name)
           names == {<<name, StringId(w1, name)>>}
<1>1. /\ WriterInv(w1) /\ Evolves(w, w1) /\ SameThreads(w, w1)
      /\ Decodes(w1, name, StringId(w1, name))
  BY InternStringOK
<1>2. WriteProcessName(w, name) = EmitNames(w1, names)
  BY DEF WriteProcessName
<1> HIDE DEF w1
<1>3. \A n \in names : Decodes(w1, n[1], n[2])
  BY <1>1
<1> HIDE DEF names
<1>4. WriterInv(EmitNames(w1, names)) /\ Evolves(w1, EmitNames(w1, names))
      /\ SameThreads(w1, EmitNames(w1, names))
  BY <1>1, <1>3, EmitNamesOK
<1> QED
  BY <1>1, <1>2, <1>4, EvolvesTransitive DEF SameThreads

\* Two names interned one after the other: the first may lose its id to the
\* second, but only once the ids are exhausted.
LEMMA TwoNamesOK ==
  ASSUME NEW w, WriterInv(w), NEW s \in Strings, NEW u \in Strings
  PROVE  LET w1 == InternString(w, s)
             w2 == InternString(w1, u)
         IN  /\ WriterInv(w2) /\ Evolves(w, w2) /\ SameThreads(w, w2)
             /\ \/ Exhausted(w2)
                \/ \A n \in {<<s, StringId(w1, s)>>, <<u, StringId(w2, u)>>} :
                     Decodes(w2, n[1], n[2])
<1> DEFINE w1 == InternString(w, s)
           w2 == InternString(w1, u)
<1>1. /\ WriterInv(w1) /\ Evolves(w, w1) /\ SameThreads(w, w1)
      /\ Decodes(w1, s, StringId(w1, s))
  BY InternStringOK
<1> HIDE DEF w1
<1>2. /\ WriterInv(w2) /\ Evolves(w1, w2) /\ SameThreads(w1, w2)
      /\ Decodes(w2, u, StringId(w2, u))
  BY <1>1, InternStringOK
<1> HIDE DEF w2
<1>3. ~Exhausted(w2) => Decodes(w2, s, StringId(w1, s))
  BY <1>1, <1>2, DecodesStays
<1>4. Evolves(w, w2) /\ SameThreads(w, w2)
  BY <1>1, <1>2, EvolvesTransitive DEF SameThreads
<1>5. Exhausted(w2) \/ \A n \in {<<s, StringId(w1, s)>>, <<u, StringId(w2, u)>>} :
                         Decodes(w2, n[1], n[2])
  BY <1>2, <1>3
<1> QED
  BY <1>2, <1>4, <1>5 DEF w1, w2

\* write_thread_name.
LEMMA WriteThreadNameOK ==
  ASSUME NEW w, WriterInv(w), NEW name \in Strings
  PROVE  /\ WriterInv(WriteThreadName(w, name))
         /\ Evolves(w, WriteThreadName(w, name))
         /\ SameThreads(w, WriteThreadName(w, name))
<1> DEFINE w1    == InternString(w, name)
           w2    == InternString(w1, ProcessLabel)
           names == {<<name, StringId(w1, name)>>,
                     <<ProcessLabel, StringId(w2, ProcessLabel)>>}
<1>1. /\ WriterInv(w2) /\ Evolves(w, w2) /\ SameThreads(w, w2)
      /\ Exhausted(w2) \/ \A n \in names : Decodes(w2, n[1], n[2])
  BY TwoNamesOK, NamesAssumption
<1>2. WriteThreadName(w, name) = EmitNames(w2, names)
  BY DEF WriteThreadName
<1> HIDE DEF w2, names
<1>3. /\ WriterInv(EmitNames(w2, names)) /\ Evolves(w2, EmitNames(w2, names))
      /\ SameThreads(w2, EmitNames(w2, names))
  BY <1>1, EmitNamesOK
<1> QED
  BY <1>1, <1>2, <1>3, EvolvesTransitive DEF SameThreads

-----------------------------------------------------------------------------
(* Threads *)

\* The new thread takes its slot from whoever had it, and from nobody else.
LEMMA AssignSlotTable ==
  ASSUME NEW w, WriterInv(w), NEW t \in Threads, t \notin DOMAIN w.thread_table
  PROVE  LET v    == AssignSlot(w, t)
             slot == NextSlot(w)
             rest == {u \in DOMAIN w.thread_table : w.thread_table[u] # slot}
         IN  /\ slot \in 1..MaxThreadSlots
             /\ v.next_thread_slot = (w.next_thread_slot + 1) % CounterModulus
             /\ DOMAIN v.thread_table = rest \cup {t}
             /\ v.thread_table[t] = slot
             /\ \A u \in rest : v.thread_table[u] = w.thread_table[u]
<1> DEFINE v    == AssignSlot(w, t)
           slot == NextSlot(w)
           kept == EraseOccupant(w.thread_table, slot)
           rest == {u \in DOMAIN w.thread_table : w.thread_table[u] # slot}
<1>1. WriterType(w) /\ ThreadsMatchReaderIn(w)
  BY DEF WriterInv
<1>2. /\ v.thread_table = Bind(kept, t, slot)
      /\ v.next_thread_slot = (w.next_thread_slot + 1) % CounterModulus
  BY <1>1 DEF AssignSlot, WriterType
<1>3. slot \in 1..MaxThreadSlots
  BY <1>1, LimitsAssumption DEF NextSlot, WriterType
<1> HIDE DEF v, slot
<1>4. DOMAIN kept = rest /\ \A u \in rest : kept[u] = w.thread_table[u]
  <2>1. \A u, x \in Occupants(w.thread_table, slot) : u = x
    BY <1>1 DEF ThreadsMatchReaderIn, Occupants
  <2>2. CASE Occupants(w.thread_table, slot) = {}
    BY <2>2 DEF EraseOccupant, Occupants
  <2>3. CASE Occupants(w.thread_table, slot) # {}
    <3> DEFINE out == CHOOSE u \in Occupants(w.thread_table, slot) : TRUE
    <3>1. out \in Occupants(w.thread_table, slot)
      BY <2>3
    <3>2. kept = Restrict(w.thread_table, DOMAIN w.thread_table \ {out})
      BY <2>3 DEF EraseOccupant
    <3> HIDE DEF out
    <3>3. rest = DOMAIN w.thread_table \ {out}
      BY <2>1, <3>1 DEF Occupants
    <3> QED
      BY <3>2, <3>3 DEF Restrict
  <2> QED
    BY <2>2, <2>3
<1> HIDE DEF kept
<1>5. /\ DOMAIN v.thread_table = rest \cup {t} /\ v.thread_table[t] = slot
      /\ \A u \in rest : v.thread_table[u] = w.thread_table[u]
  BY <1>2, <1>4 DEF Bind
<1> QED
  BY <1>2, <1>3, <1>5 DEF v, slot

\* Taking a slot keeps the invariant: whoever held it loses it, and nobody else
\* is affected, wherever the counter stands.
LEMMA AssignSlotOK ==
  ASSUME NEW w, WriterInv(w), NEW t \in Threads, t \notin DOMAIN w.thread_table
  PROVE  /\ WriterInv(AssignSlot(w, t))
         /\ Evolves(w, AssignSlot(w, t))
         /\ t \in DOMAIN AssignSlot(w, t).thread_table
<1> DEFINE v    == AssignSlot(w, t)
           slot == NextSlot(w)
           rest == {u \in DOMAIN w.thread_table : w.thread_table[u] # slot}
<1>1. WriterType(w) /\ ThreadsMatchReaderIn(w)
  BY DEF WriterInv
<1>2. v = [w EXCEPT !.next_thread_slot = (w.next_thread_slot + 1) % CounterModulus,
                    !.thread_table     = Bind(EraseOccupant(w.thread_table, slot), t, slot),
                    !.reader_threads   = Bind(w.reader_threads, slot, t)]
  BY <1>1 DEF AssignSlot, WriterType
<1>3. /\ v.thread_table = Bind(EraseOccupant(w.thread_table, slot), t, slot)
      /\ v.reader_threads = Bind(w.reader_threads, slot, t)
      /\ v.next_thread_slot = (w.next_thread_slot + 1) % CounterModulus
      /\ v.string_table = w.string_table
      /\ v.next_string_id = w.next_string_id
      /\ v.string_id_warning_issued = w.string_id_warning_issued
      /\ v.reader_strings = w.reader_strings
      /\ v.misread = w.misread
  BY <1>1, <1>2 DEF WriterType
<1>4. v.next_thread_slot \in 0..(CounterModulus - 1)
  BY <1>1, <1>3, LimitsAssumption DEF WriterType
<1>5. /\ slot \in 1..MaxThreadSlots /\ DOMAIN v.thread_table = rest \cup {t}
      /\ v.thread_table[t] = slot
      /\ \A u \in rest : v.thread_table[u] = w.thread_table[u]
  BY AssignSlotTable
<1> HIDE DEF v, slot
<1>6. v.thread_table \in [DOMAIN v.thread_table -> 1..MaxThreadSlots]
  <2>1. \A u \in DOMAIN w.thread_table : w.thread_table[u] \in 1..MaxThreadSlots
    BY <1>1 DEF WriterType
  <2>2. \A u \in DOMAIN v.thread_table : v.thread_table[u] \in 1..MaxThreadSlots
    BY <1>5, <2>1
  <2>3. v.thread_table = [u \in DOMAIN v.thread_table |-> v.thread_table[u]]
    BY <1>3, Zenon DEF Bind
  <2> QED
    BY <2>2, <2>3
<1>7. v.reader_threads \in [DOMAIN v.reader_threads -> Threads]
  BY <1>1, <1>3 DEF WriterType, Bind
<1>8. WriterType(v)
  <2>1. DOMAIN v.thread_table \subseteq Threads
    BY <1>1, <1>5 DEF WriterType
  <2> QED
    BY <1>1, <1>2, <1>3, <1>4, <1>6, <1>7, <2>1 DEF WriterType
<1>9. ThreadsMatchReaderIn(v)
  <2>1. /\ DOMAIN v.reader_threads = DOMAIN w.reader_threads \cup {slot}
        /\ v.reader_threads[slot] = t
        /\ \A k \in DOMAIN w.reader_threads \ {slot} : v.reader_threads[k] = w.reader_threads[k]
    BY <1>3 DEF Bind
  <2> QED
    BY <1>1, <1>5, <2>1 DEF ThreadsMatchReaderIn
<1>10. IdsDenseIn(v) /\ FaithfulIn(v)
  BY <1>3 DEF WriterInv, IdsDenseIn, FaithfulIn
<1>11. StringsMatchReaderIn(v)
  BY <1>3 DEF WriterInv, StringsMatchReaderIn, Decodes
<1>12. Evolves(w, v) /\ t \in DOMAIN v.thread_table
  BY <1>3, <1>5 DEF Evolves, Exhausted
<1> QED
  BY <1>8, <1>9, <1>10, <1>11, <1>12 DEF WriterInv, v

LEMMA NameProcessOnceOK ==
  ASSUME NEW w, WriterInv(w), NEW t \in Threads
  PROVE  /\ WriterInv(NameProcessOnce(w, t))
         /\ Evolves(w, NameProcessOnce(w, t))
         /\ SameThreads(w, NameProcessOnce(w, t))
<1>1. CASE t.pid \in w.named_processes
  BY <1>1 DEF NameProcessOnce, Evolves, SameThreads
<1>2. CASE t.pid \notin w.named_processes
  <2> DEFINE v == [w EXCEPT !.named_processes = w.named_processes \cup {t.pid}]
  <2>1. WriterType(w) /\ t.pid \in Pids
    BY DEF WriterInv, Pids
  <2>2. /\ v.string_table = w.string_table
        /\ v.next_string_id = w.next_string_id
        /\ v.string_id_warning_issued = w.string_id_warning_issued
        /\ v.thread_table = w.thread_table
        /\ v.reader_strings = w.reader_strings
        /\ v.reader_threads = w.reader_threads
        /\ v.next_thread_slot = w.next_thread_slot
        /\ v.misread = w.misread
    BY <2>1 DEF WriterType
  <2>3. WriterType(v)
    BY <2>1, <2>2 DEF WriterType
  <2>4. NameProcessOnce(w, t) = WriteProcessName(v, PidName[t.pid])
    BY <1>2 DEF NameProcessOnce
  <2> HIDE DEF v
  <2>5. IdsDenseIn(v) /\ ThreadsMatchReaderIn(v) /\ FaithfulIn(v)
    BY <2>2 DEF WriterInv, IdsDenseIn, ThreadsMatchReaderIn, FaithfulIn
  <2>6. StringsMatchReaderIn(v)
    BY <2>2 DEF WriterInv, StringsMatchReaderIn, Decodes
  <2>7. WriterInv(v) /\ Evolves(w, v) /\ SameThreads(w, v)
    BY <2>2, <2>3, <2>5, <2>6 DEF WriterInv, Evolves, SameThreads, Exhausted
  <2>8. PidName[t.pid] \in Strings
    BY <2>1, NamesAssumption
  <2>9. /\ WriterInv(WriteProcessName(v, PidName[t.pid]))
        /\ Evolves(v, WriteProcessName(v, PidName[t.pid]))
        /\ SameThreads(v, WriteProcessName(v, PidName[t.pid]))
    BY <2>7, <2>8, WriteProcessNameOK
  <2> QED
    BY <2>4, <2>7, <2>9, EvolvesTransitive DEF SameThreads
<1> QED
  BY <1>1, <1>2

\* ensure_thread gives the thread a slot that the reader resolves to it.
LEMMA EnsureThreadOK ==
  ASSUME NEW w, WriterInv(w), NEW t \in Threads
  PROVE  /\ WriterInv(EnsureThread(w, t))
         /\ Evolves(w, EnsureThread(w, t))
         /\ t \in DOMAIN EnsureThread(w, t).thread_table
         /\ RegistersOne(w, EnsureThread(w, t))
<1>1. CASE t \in DOMAIN w.thread_table
  BY <1>1 DEF EnsureThread, Evolves, RegistersOne, SameThreads
<1>2. CASE t \notin DOMAIN w.thread_table
  <2> DEFINE w1   == AssignSlot(w, t)
             w2   == NameProcessOnce(w1, t)
             name == TidName[t.tid]
             w3   == WriteThreadName(w2, name)
  <2>1. WriterInv(w1) /\ Evolves(w, w1) /\ t \in DOMAIN w1.thread_table
    BY <1>2, AssignSlotOK
  <2>2. EnsureThread(w, t) = w3
    BY <1>2 DEF EnsureThread
  <2> HIDE DEF w1
  <2>3. WriterInv(w2) /\ Evolves(w1, w2) /\ SameThreads(w1, w2)
    BY <2>1, NameProcessOnceOK
  <2>4. name \in Strings
    BY NamesAssumption DEF Tids
  <2> HIDE DEF w2, name
  <2>5. WriterInv(w3) /\ Evolves(w2, w3) /\ SameThreads(w2, w3)
    BY <2>3, <2>4, WriteThreadNameOK
  <2> HIDE DEF w3
  <2>6. Evolves(w, w3)
    BY <2>1, <2>3, <2>5, EvolvesTransitive
  <2>7. SameThreads(w1, w3)
    BY <2>3, <2>5 DEF SameThreads
  <2>8. RegistersOne(w, w3)
    BY <1>2, <2>7 DEF RegistersOne, w1
  <2> QED
    BY <2>1, <2>2, <2>5, <2>6, <2>7, <2>8 DEF SameThreads
<1> QED
  BY <1>1, <1>2

-----------------------------------------------------------------------------
(* Events *)

\* An event whose slot is its thread's own, and whose names resolve unless the
\* ids are exhausted, spoils nothing.
LEMMA EmitEventRecordOK ==
  ASSUME NEW w, WriterInv(w), NEW t \in DOMAIN w.thread_table,
         NEW c, NEW n,
         Exhausted(w) \/ (Decodes(w, c[1], c[2]) /\ Decodes(w, n[1], n[2]))
  PROVE  LET v == EmitEventRecord(w, t, w.thread_table[t], c, n)
         IN  WriterInv(v) /\ Evolves(w, v) /\ SameThreads(w, v)
<1>1. EmitThreadRef(w, t, w.thread_table[t]) = w
  BY DEF WriterInv, ThreadsMatchReaderIn, EmitThreadRef
<1>2. Exhausted(w) \/ \A x \in {c, n} : Decodes(w, x[1], x[2])
  OBVIOUS
<1> QED
  BY <1>1, <1>2, EmitNamesOK DEF EmitEventRecord

\* emit_event.
LEMMA EmitEventOK ==
  ASSUME NEW w, WriterInv(w), NEW t \in Threads,
         NEW category \in Strings, NEW name \in Strings
  PROVE  /\ WriterInv(EmitEvent(w, t, category, name))
         /\ Evolves(w, EmitEvent(w, t, category, name))
         /\ RegistersOne(w, EmitEvent(w, t, category, name))
<1> DEFINE w1 == EnsureThread(w, t)
           w2 == InternString(w1, category)
           w3 == InternString(w2, name)
           c  == <<category, StringId(w2, category)>>
           n  == <<name, StringId(w3, name)>>
<1>1. /\ WriterInv(w1) /\ Evolves(w, w1) /\ RegistersOne(w, w1)
      /\ t \in DOMAIN w1.thread_table
  BY EnsureThreadOK
<1>2. EmitEvent(w, t, category, name)
        = EmitEventRecord(w3, t, w1.thread_table[t], c, n)
  BY DEF EmitEvent
<1> HIDE DEF w1
<1>3. /\ WriterInv(w3) /\ Evolves(w1, w3) /\ SameThreads(w1, w3)
      /\ Exhausted(w3) \/ \A x \in {c, n} : Decodes(w3, x[1], x[2])
  BY <1>1, TwoNamesOK
<1>4. Exhausted(w3) \/ (Decodes(w3, c[1], c[2]) /\ Decodes(w3, n[1], n[2]))
  BY <1>3
<1> HIDE DEF w3, c, n
<1>5. t \in DOMAIN w3.thread_table /\ w1.thread_table[t] = w3.thread_table[t]
  BY <1>1, <1>3 DEF SameThreads
<1>6. /\ WriterInv(EmitEventRecord(w3, t, w3.thread_table[t], c, n))
      /\ Evolves(w3, EmitEventRecord(w3, t, w3.thread_table[t], c, n))
      /\ SameThreads(w3, EmitEventRecord(w3, t, w3.thread_table[t], c, n))
  BY <1>3, <1>4, <1>5, EmitEventRecordOK
<1>7. RegistersOne(w, EmitEventRecord(w3, t, w3.thread_table[t], c, n))
  BY <1>1, <1>3, <1>5, <1>6 DEF RegistersOne, SameThreads
<1> QED
  BY <1>1, <1>2, <1>3, <1>5, <1>6, <1>7, EvolvesTransitive

-----------------------------------------------------------------------------
(* The specification *)

HeldType == held \in SUBSET (Strings \X (0..MaxStringId))

HeldResolve ==
  \A h \in held : h[2] # 1 \/ ~Exhausted(writer) => Decodes(writer, h[1], h[2])

IInv == WriterInv(writer) /\ HeldType /\ HeldResolve

\* The invariant holds of a new writer.
LEMMA NewWriterOK == WriterInv(NewWriter)
<1>1. WriterType(NewWriter)
  BY LimitsAssumption DEF WriterType, NewWriter
<1>2. IdsDenseIn(NewWriter)
  BY LimitsAssumption DEF IdsDenseIn, NewWriter, IsInjective, Range
<1>3. /\ StringsMatchReaderIn(NewWriter) /\ ThreadsMatchReaderIn(NewWriter)
      /\ FaithfulIn(NewWriter)
  BY DEF StringsMatchReaderIn, ThreadsMatchReaderIn, FaithfulIn, NewWriter
<1> QED
  BY <1>1, <1>2, <1>3 DEF WriterInv

LEMMA InitIInv == Init => IInv
BY NewWriterOK DEF Init, IInv, HeldType, HeldResolve

\* Every operation keeps the writer's part of the invariant; of the ids callers
\* keep, intern_string alone adds one, and it resolves.
LEMMA StepEvolves ==
  ASSUME IInv, [Next]_vars
  PROVE  /\ WriterInv(writer') /\ Evolves(writer, writer')
         /\ HeldType'
         /\ \A h \in held' : h \in held \/ Decodes(writer', h[1], h[2])
<1> USE DEF HeldType
<1>1. ASSUME NEW s \in CallerStrings, CallInternString(s)
      PROVE  /\ WriterInv(writer') /\ Evolves(writer, writer') /\ HeldType'
             /\ \A h \in held' : h \in held \/ Decodes(writer', h[1], h[2])
  <2>1. writer' = InternString(writer, s) /\ s \in Strings
    BY <1>1, NamesAssumption DEF CallInternString
  <2>2. /\ WriterInv(writer') /\ Evolves(writer, writer')
        /\ StringId(writer', s) \in 0..MaxStringId
        /\ Decodes(writer', s, StringId(writer', s))
    BY <2>1, InternStringOK DEF IInv
  <2>3. held' \subseteq held \cup {<<s, StringId(writer', s)>>}
    BY <1>1 DEF CallInternString
  <2>4. \A h \in held' : h \in held \/ Decodes(writer', h[1], h[2])
    BY <2>2, <2>3
  <2>5. HeldType'
    BY <2>1, <2>2, <2>3 DEF IInv
  <2> QED
    BY <2>2, <2>4, <2>5
<1>2. ASSUME NEW t \in Threads, CallEnsureThread(t)
      PROVE  WriterInv(writer') /\ Evolves(writer, writer') /\ held' = held
  BY <1>2, EnsureThreadOK DEF CallEnsureThread, IInv
<1>3. ASSUME NEW t \in Threads, NEW c \in CallerStrings, NEW n \in CallerStrings,
             WriteDuration(t, c, n)
      PROVE  WriterInv(writer') /\ Evolves(writer, writer') /\ held' = held
  BY <1>3, EmitEventOK, NamesAssumption DEF WriteDuration, IInv
<1>4. ASSUME NEW t \in Threads, NEW c \in held, NEW n \in held,
             WriteEventById(t, c, n)
      PROVE  WriterInv(writer') /\ Evolves(writer, writer') /\ held' = held
  <2>1. \/ Exhausted(writer)
        \/ Decodes(writer, c[1], c[2]) /\ Decodes(writer, n[1], n[2])
    BY DEF IInv, HeldResolve
  <2>2. /\ t \in DOMAIN writer.thread_table
        /\ writer' = EmitEventRecord(writer, t, writer.thread_table[t], c, n)
        /\ held' = held
    BY <1>4 DEF WriteEventById
  <2> QED
    BY <2>1, <2>2, EmitEventRecordOK DEF IInv
<1>5. ASSUME NEW n \in CallerStrings, CallWriteProcessName(n)
      PROVE  WriterInv(writer') /\ Evolves(writer, writer') /\ held' = held
  BY <1>5, WriteProcessNameOK, NamesAssumption DEF CallWriteProcessName, IInv
<1>6. ASSUME NEW n \in CallerStrings, CallWriteThreadName(n)
      PROVE  WriterInv(writer') /\ Evolves(writer, writer') /\ held' = held
  BY <1>6, WriteThreadNameOK, NamesAssumption DEF CallWriteThreadName, IInv
<1>7. CASE UNCHANGED vars
  BY <1>7 DEF vars, IInv, Evolves
<1> QED
  BY <1>1, <1>2, <1>3, <1>4, <1>5, <1>6, <1>7 DEF Next, IInv

\* No step registers more than one thread.
LEMMA StepRegistersOne ==
  ASSUME IInv, [Next]_vars
  PROVE  RegistersOne(writer, writer')
<1>1. WriterInv(writer)
  BY DEF IInv
<1>2. ASSUME NEW s \in CallerStrings, CallInternString(s)
      PROVE  SameThreads(writer, writer')
  BY <1>1, <1>2, InternStringOK, NamesAssumption DEF CallInternString
<1>3. ASSUME NEW t \in Threads, CallEnsureThread(t)
      PROVE  RegistersOne(writer, writer')
  BY <1>1, <1>3, EnsureThreadOK DEF CallEnsureThread
<1>4. ASSUME NEW t \in Threads, NEW c \in CallerStrings, NEW n \in CallerStrings,
             WriteDuration(t, c, n)
      PROVE  RegistersOne(writer, writer')
  BY <1>1, <1>4, EmitEventOK, NamesAssumption DEF WriteDuration
<1>5. ASSUME NEW t \in Threads, NEW c \in held, NEW n \in held,
             WriteEventById(t, c, n)
      PROVE  SameThreads(writer, writer')
  <2>1. \/ Exhausted(writer)
        \/ Decodes(writer, c[1], c[2]) /\ Decodes(writer, n[1], n[2])
    BY DEF IInv, HeldResolve
  <2>2. /\ t \in DOMAIN writer.thread_table
        /\ writer' = EmitEventRecord(writer, t, writer.thread_table[t], c, n)
    BY <1>5 DEF WriteEventById
  <2> QED
    BY <1>1, <2>1, <2>2, EmitEventRecordOK
<1>6. ASSUME NEW n \in CallerStrings, CallWriteProcessName(n)
      PROVE  SameThreads(writer, writer')
  BY <1>1, <1>6, WriteProcessNameOK, NamesAssumption DEF CallWriteProcessName
<1>7. ASSUME NEW n \in CallerStrings, CallWriteThreadName(n)
      PROVE  SameThreads(writer, writer')
  BY <1>1, <1>7, WriteThreadNameOK, NamesAssumption DEF CallWriteThreadName
<1>8. CASE UNCHANGED vars
  BY <1>8 DEF vars, SameThreads, RegistersOne
<1> QED
  BY <1>2, <1>3, <1>4, <1>5, <1>6, <1>7, <1>8 DEF Next, RegistersOne

LEMMA StepIInv == IInv /\ [Next]_vars => IInv'
<1> SUFFICES ASSUME IInv, [Next]_vars PROVE IInv'
  OBVIOUS
<1>1. /\ WriterInv(writer') /\ Evolves(writer, writer') /\ HeldType'
      /\ \A h \in held' : h \in held \/ Decodes(writer', h[1], h[2])
  BY StepEvolves
<1>2. ASSUME NEW h \in held', h[2] # 1 \/ ~Exhausted(writer')
      PROVE  Decodes(writer', h[1], h[2])
  <2>1. CASE h \in held
    <3>1. h[2] # 1 \/ ~Exhausted(writer)
      BY <1>1, <1>2 DEF Evolves
    <3>2. Decodes(writer, h[1], h[2])
      BY <2>1, <3>1 DEF IInv, HeldResolve
    <3> QED
      BY <1>1, <1>2, <3>2, DecodesStays
  <2> QED
    BY <1>1, <2>1
<1>3. HeldResolve'
  BY <1>2 DEF HeldResolve, Exhausted
<1> QED
  BY <1>1, <1>3 DEF IInv

LEMMA IInvHolds == Spec => []IInv
BY InitIInv, StepIInv, PTL DEF Spec

\* Every reachable writer is well typed: ids and slots stay in their ranges.
THEOREM TypeCorrect == Spec => []TypeOK
<1>1. IInv => TypeOK
  BY DEF IInv, WriterInv, HeldType, TypeOK
<1> QED
  BY <1>1, IInvHolds, PTL

\* The ids in use are exactly 1 up to the counter, each held by one string.
THEOREM DenseIds == Spec => []IdsDense
<1>1. IInv => IdsDense
  BY DEF IInv, WriterInv, IdsDense
<1> QED
  BY <1>1, IInvHolds, PTL

\* What the tables hold is what the reader resolves, for ever.
THEOREM ReaderAgrees == Spec => []TablesMatchReader
<1>1. IInv => TablesMatchReader
  BY DEF IInv, WriterInv, TablesMatchReader
<1> QED
  BY <1>1, IInvHolds, PTL

\* No record is ever read as another thread's, for any number of slots and any
\* modulus of the slot counter.
THEOREM ThreadsNeverConfused == Spec => []ThreadsFaithful
<1>1. IInv => ThreadsFaithful
  BY DEF IInv, WriterInv, FaithfulIn, ThreadsFaithful
<1> QED
  BY <1>1, IInvHolds, PTL

\* Before exhaustion every name is read as it was meant, and every kept id too.
THEOREM NamesFaithful == Spec => []FaithfulUntilExhausted
<1>1. IInv => FaithfulUntilExhausted
  BY DEF IInv, WriterInv, FaithfulIn, HeldResolve, FaithfulUntilExhausted, Exhausted
<1> QED
  BY <1>1, IInvHolds, PTL

\* After it, the ids above 1 that callers kept still are.
THEOREM KeptIdsAboveOne == Spec => []HeldAboveOneStayValid
<1>1. IInv => HeldAboveOneStayValid
  BY DEF IInv, HeldResolve, HeldAboveOneStayValid
<1> QED
  BY <1>1, IInvHolds, PTL

\* A step never changes what an id above 1 stands for.
THEOREM OnlyOneRecycled == Spec => OnlyIdOneIsRecycled
<1>1. IInv /\ [Next]_vars =>
        [\A id \in DOMAIN writer.reader_strings \ {1} :
           writer'.reader_strings[id] = writer.reader_strings[id]]_vars
  BY StepEvolves DEF Evolves
<1> QED
  BY <1>1, IInvHolds, PTL DEF Spec, OnlyIdOneIsRecycled
-----------------------------------------------------------------------------
(* The order of registration: sequences of threads *)

FT == INSTANCE FoldTheorems WITH Op <- LAMBDA a, b : a

LEMMA FlattenOneMore ==
  ASSUME NEW T, NEW parts \in Seq(Seq(T)), NEW part \in Seq(T)
  PROVE  /\ FlattenSeq(Append(parts, part)) = FlattenSeq(parts) \o part
         /\ FlattenSeq(parts) \in Seq(T)
BY FT!FlattenAppend, FT!FlattenType DEF FT!FlattenSeq, FlattenSeq

LEMMA WithinAppend ==
  ASSUME NEW T, NEW S, NEW s \in Seq(T), NEW e \in T
  PROVE  Within(Append(s, e), S) = IF e \in S THEN Append(Within(s, S), e) ELSE Within(s, S)
<1> DEFINE Part(x) == IF x \in S THEN <<x>> ELSE <<>>
           parts == [i \in DOMAIN s |-> Part(s[i])]
           longer == Append(s, e)
<1>1. \A x \in T : Part(x) \in Seq(T)
  <2>1. ASSUME NEW x \in T PROVE <<x>> \in Seq(T) /\ <<>> \in Seq(T)
    OBVIOUS
  <2> QED
    BY <2>1
<1>2. /\ Within(longer, S) = FlattenSeq([i \in DOMAIN longer |-> Part(longer[i])])
      /\ Within(s, S) = FlattenSeq(parts)
  BY DEF Within
<1>3. Part(e) = IF e \in S THEN <<e>> ELSE <<>>
  OBVIOUS
<1> HIDE DEF Part
<1>4. parts \in Seq(Seq(T))
  <2>1. parts \in [1..Len(s) -> Seq(T)]
    BY <1>1
  <2> QED
    BY <2>1
<1>5. [i \in DOMAIN longer |-> Part(longer[i])] = Append(parts, Part(e))
  OBVIOUS
<1> HIDE DEF parts, longer
<1>6. Within(longer, S) = Within(s, S) \o Part(e) /\ Within(s, S) \in Seq(T)
  BY <1>1, <1>2, <1>4, <1>5, FlattenOneMore
<1> QED
  BY <1>3, <1>6 DEF longer

LEMMA WithinEmpty == ASSUME NEW S PROVE Within(<<>>, S) = <<>>
<1>1. [i \in DOMAIN <<>> |-> IF <<>>[i] \in S THEN <<<<>>[i]>> ELSE <<>>] = <<>>
  OBVIOUS
<1> QED
  BY <1>1, FT!FlattenEmpty DEF Within, FT!FlattenSeq, FlattenSeq

\* Nothing leaves a sequence all of whose elements stay.
LEMMA WithinAll ==
  ASSUME NEW T, NEW S
  PROVE  \A s \in Seq(T) : (\A i \in DOMAIN s : s[i] \in S) => Within(s, S) = s
<1> DEFINE Good == {s \in Seq(T) : (\A i \in DOMAIN s : s[i] \in S) => Within(s, S) = s}
<1>1. <<>> \in Good
  BY WithinEmpty
<1>2. ASSUME NEW s \in Seq(T), NEW e \in T, s \in Good PROVE Append(s, e) \in Good
  <2> DEFINE longer == Append(s, e)
  <2>1. /\ longer \in Seq(T) /\ DOMAIN s \subseteq DOMAIN longer
        /\ \A i \in DOMAIN s : longer[i] = s[i]
        /\ Len(s) + 1 \in DOMAIN longer /\ longer[Len(s) + 1] = e
    OBVIOUS
  <2> SUFFICES ASSUME \A i \in DOMAIN longer : longer[i] \in S
               PROVE  Within(longer, S) = longer
    BY <2>1
  <2>2. Within(s, S) = s /\ e \in S
    BY <1>2, <2>1
  <2> QED
    BY <2>2, WithinAppend
<1> HIDE DEF Good
<1>3. \A s \in Seq(T) : s \in Good
  BY <1>1, <1>2, FT!AppendInduction
<1> QED
  BY <1>3 DEF Good

Without(s, i) == [j \in 1..(Len(s) - 1) |-> IF j < i THEN s[j] ELSE s[j + 1]]

\* Or all but the i-th.
LEMMA WithinAllButOne ==
  ASSUME NEW T, NEW S
  PROVE  \A s \in Seq(T) : \A i \in DOMAIN s :
           (\A j \in DOMAIN s : s[j] \in S <=> j # i) => Within(s, S) = Without(s, i)
<1> DEFINE Good == {s \in Seq(T) : \A i \in DOMAIN s :
             (\A j \in DOMAIN s : s[j] \in S <=> j # i) => Within(s, S) = Without(s, i)}
<1>1. <<>> \in Good
  OBVIOUS
<1>2. ASSUME NEW s \in Seq(T), NEW e \in T, s \in Good PROVE Append(s, e) \in Good
  <2> DEFINE longer == Append(s, e)
  <2>1. /\ longer \in Seq(T) /\ DOMAIN longer = DOMAIN s \cup {Len(s) + 1}
        /\ \A i \in DOMAIN s : longer[i] = s[i] /\ i # Len(s) + 1
        /\ longer[Len(s) + 1] = e
    OBVIOUS
  <2> SUFFICES ASSUME NEW i \in DOMAIN longer,
                      \A j \in DOMAIN longer : longer[j] \in S <=> j # i
               PROVE  Within(longer, S) = Without(longer, i)
    BY <2>1
  <2>2. CASE i \in DOMAIN s
    <3>1. Within(s, S) = Without(s, i) /\ e \in S
      BY <1>2, <2>1, <2>2
    <3>2. Append(Without(s, i), e) = Without(longer, i)
      BY <2>2 DEF Without
    <3> HIDE DEF longer
    <3> QED
      BY <3>1, <3>2, WithinAppend DEF longer
  <2>3. CASE i = Len(s) + 1
    <3>1. (\A j \in DOMAIN s : s[j] \in S) /\ e \notin S
      BY <2>1, <2>3
    <3>2. Within(s, S) = s
      BY <3>1, WithinAll
    <3>3. Without(longer, i) = s
      BY <2>3 DEF Without
    <3> HIDE DEF longer
    <3> QED
      BY <3>1, <3>2, <3>3, WithinAppend DEF longer
  <2> QED
    BY <2>1, <2>2, <2>3
<1> HIDE DEF Good
<1>3. \A s \in Seq(T) : s \in Good
  BY <1>1, <1>2, FT!AppendInduction
<1> QED
  BY <1>3 DEF Good

LEMMA SameElements ==
  ASSUME NEW T, NEW a \in Seq(T), NEW b \in Seq(T), Len(a) = Len(b),
         \A j \in 1..Len(a) : a[j] = b[j]
  PROVE  a = b
OBVIOUS

LEMMA WithoutIs ==
  ASSUME NEW T, NEW s \in Seq(T), NEW i \in DOMAIN s
  PROVE  /\ Without(s, i) \in Seq(T) /\ Len(Without(s, i)) = Len(s) - 1
         /\ Without(s, i) = SubSeq(s, 1, i - 1) \o SubSeq(s, i + 1, Len(s))
         /\ i = 1 => Without(s, i) = Tail(s)
<1>1. Without(s, i) \in Seq(T) /\ Len(Without(s, i)) = Len(s) - 1
  BY DEF Without
<1>2. Without(s, i) = SubSeq(s, 1, i - 1) \o SubSeq(s, i + 1, Len(s))
  <2> DEFINE a == SubSeq(s, 1, i - 1)
             b == SubSeq(s, i + 1, Len(s))
  <2>1. /\ a \in Seq(T) /\ Len(a) = i - 1 /\ \A j \in 1..(i - 1) : a[j] = s[j]
    OBVIOUS
  <2>2. /\ b \in Seq(T) /\ Len(b) = Len(s) - i
        /\ \A j \in 1..(Len(s) - i) : b[j] = s[j + i]
    OBVIOUS
  <2> HIDE DEF a, b
  <2>3. /\ a \o b \in Seq(T) /\ Len(a \o b) = Len(s) - 1
        /\ \A j \in 1..(Len(s) - 1) :
             (a \o b)[j] = IF j < i THEN s[j] ELSE s[j + 1]
    BY <2>1, <2>2
  <2>4. PICK c : c = a \o b
    OBVIOUS
  <2>5. \A j \in 1..(Len(s) - 1) : Without(s, i)[j] = c[j]
    BY <2>3, <2>4 DEF Without
  <2>6. Without(s, i) = c
    BY <1>1, <2>3, <2>4, <2>5, SameElements
  <2> QED
    BY <2>4, <2>6 DEF a, b
<1>3. i = 1 => Without(s, i) = Tail(s)
  <2> SUFFICES ASSUME i = 1 PROVE Without(s, i) = Tail(s)
    OBVIOUS
  <2>1. /\ Tail(s) \in Seq(T) /\ Len(Tail(s)) = Len(s) - 1
        /\ \A j \in 1..(Len(s) - 1) : Tail(s)[j] = s[j + 1]
    OBVIOUS
  <2>2. \A j \in 1..(Len(s) - 1) : Without(s, i)[j] = s[j + 1]
    BY DEF Without
  <2>3. PICK c : c = Tail(s)
    OBVIOUS
  <2> QED
    BY <1>1, <2>1, <2>2, <2>3, SameElements
<1> QED
  BY <1>1, <1>2, <1>3

LEMMA SequencesOfOne ==
  ASSUME NEW t
  PROVE  SetToSeq({}) = <<>> /\ SetToSeq({t}) = <<t>>
<1>1. SetToSeq({}) = <<>>
  <2>1. Cardinality({}) = 0
    BY FS_EmptySet
  <2> QED
    BY <2>1 DEF SetToSeq, IsInjective
<1>2. SetToSeq({t}) = <<t>>
  <2>1. Cardinality({t}) = 1
    BY FS_Singleton
  <2>2. <<t>> \in [1..1 -> {t}] /\ IsInjective(<<t>>)
    BY DEF IsInjective
  <2>3. SetToSeq({t}) \in [1..1 -> {t}]
    BY <2>1, <2>2 DEF SetToSeq
  <2> QED
    BY <2>3
<1> QED
  BY <1>1, <1>2

-----------------------------------------------------------------------------
(* The slot after another *)

NextOf(slot) == IF slot = MaxThreadSlots THEN 1 ELSE slot + 1

LEMMA Division ==
  ASSUME NEW n \in Nat, NEW s \in Nat \ {0}
  PROVE  n = s * (n \div s) + (n % s) /\ n % s \in 0..(s - 1) /\ n \div s \in Nat
OBVIOUS

LEMMA ModOfNext ==
  ASSUME NEW n \in Nat, NEW s \in Nat \ {0}
  PROVE  (n + 1) % s = IF n % s = s - 1 THEN 0 ELSE (n % s) + 1
<1> DEFINE q == n \div s
           r == n % s
           p == (n + 1) \div s
           u == (n + 1) % s
<1>1. n = s * q + r /\ r \in 0..(s - 1) /\ q \in Nat
  BY Division
<1>2. n + 1 = s * p + u /\ u \in 0..(s - 1) /\ p \in Nat
  <2>1. n + 1 \in Nat
    OBVIOUS
  <2> QED
    BY <2>1, Division
<1> HIDE DEF q, r, p, u
<1>3. s * (p - q) = r + 1 - u /\ p - q \in Int
  BY <1>1, <1>2
<1>4. p - q < 2
  <2>1. \A k \in Int : k >= 2 => s * k >= s * 2
    OBVIOUS
  <2> QED
    BY <1>1, <1>2, <1>3, <2>1
<1>5. p - q > -1
  <2>1. \A k \in Int : k <= -1 => s * k <= -s
    OBVIOUS
  <2> QED
    BY <1>1, <1>2, <1>3, <2>1
<1>6. p - q \in {0, 1} /\ s * 0 = 0 /\ s * 1 = s
  BY <1>3, <1>4, <1>5
<1>7. u = IF r = s - 1 THEN 0 ELSE r + 1
  BY <1>1, <1>2, <1>3, <1>6
<1> QED
  BY <1>7 DEF u, r

LEMMA NextSlotMoves ==
  ASSUME NEW v, NEW w, w.next_thread_slot \in Nat,
         v.next_thread_slot = w.next_thread_slot + 1
  PROVE  NextSlot(v) = NextOf(NextSlot(w))
<1>1. /\ MaxThreadSlots \in Nat \ {0}
      /\ w.next_thread_slot % MaxThreadSlots \in 0..(MaxThreadSlots - 1)
  BY LimitsAssumption, Division
<1>2. (w.next_thread_slot + 1) % MaxThreadSlots
        = IF w.next_thread_slot % MaxThreadSlots = MaxThreadSlots - 1 THEN 0
          ELSE (w.next_thread_slot % MaxThreadSlots) + 1
  BY <1>1, ModOfNext
<1> QED
  BY <1>1, <1>2 DEF NextSlot, NextOf

-----------------------------------------------------------------------------
(* The ring *)

\* The slot counter takes at least as many values as there are slots: 256 and 255
\* (fxt_writer.hpp:121, 122).
CountsSlots == MaxThreadSlots <= CounterModulus

\* o holds the threads of w's table, each once.
Lists(w, o) ==
  /\ o \in Seq(Threads) /\ Len(o) <= MaxThreadSlots
  /\ \A i \in DOMAIN o : o[i] \in DOMAIN w.thread_table
  /\ \A t \in DOMAIN w.thread_table : \E i \in DOMAIN o : o[i] = t
  /\ \A i, j \in DOMAIN o : o[i] = o[j] => i = j

\* Slots are taken in turn as long as there are any.
Filling(w, o, n) ==
  Len(o) < MaxThreadSlots =>
    /\ n = Len(o) /\ n < CounterModulus
    /\ \A i \in DOMAIN o : w.thread_table[o[i]] = i

\* Then none is free.
Full(w, o) ==
  Len(o) = MaxThreadSlots =>
    \A slot \in 1..MaxThreadSlots : \E i \in DOMAIN o : w.thread_table[o[i]] = slot

\* Until the counter wraps the next slot is that of the first, and each thread has
\* the slot after that of the thread before it.
InTurn(w, o, n) ==
  n < CounterModulus =>
    /\ w.next_thread_slot = n
    /\ Len(o) = MaxThreadSlots =>
         /\ w.thread_table[o[1]] = NextSlot(w)
         /\ NextOf(w.thread_table[o[MaxThreadSlots]]) = NextSlot(w)
         /\ \A i \in 1..(MaxThreadSlots - 1) :
              w.thread_table[o[i + 1]] = NextOf(w.thread_table[o[i]])

RingInv(w, o, n) ==
  /\ n \in 0..CounterModulus
  /\ Lists(w, o) /\ Filling(w, o, n) /\ Full(w, o) /\ InTurn(w, o, n)

OneMore(n) == IF n < CounterModulus THEN n + 1 ELSE n

\* v is w with t, which has taken slot; o is now p.
Registered1(w, v, t, slot) ==
  /\ v.next_thread_slot = (w.next_thread_slot + 1) % CounterModulus
  /\ DOMAIN v.thread_table = {u \in DOMAIN w.thread_table : w.thread_table[u] # slot} \cup {t}
  /\ v.thread_table[t] = slot
  /\ \A u \in DOMAIN w.thread_table : w.thread_table[u] # slot =>
       v.thread_table[u] = w.thread_table[u]

LEMMA CounterMoves ==
  ASSUME NEW n \in Nat, n < CounterModulus
  PROVE  n + 1 < CounterModulus => (n + 1) % CounterModulus = n + 1
BY LimitsAssumption

\* While there are free slots.
LEMMA RegisterFree ==
  ASSUME CountsSlots, NEW w, WriterInv(w), NEW o, NEW n, RingInv(w, o, n),
         NEW t \in Threads, t \notin DOMAIN w.thread_table,
         NEW v, Registered1(w, v, t, NextSlot(w)), Len(o) < MaxThreadSlots
  PROVE  /\ Within(o, DOMAIN v.thread_table) = o
         /\ RingInv(v, Append(o, t), OneMore(n))
<1> DEFINE s == MaxThreadSlots
           p == Append(o, t)
<1>1. /\ s \in Nat \ {0} /\ CounterModulus \in Nat /\ s <= CounterModulus
      /\ o \in Seq(Threads) /\ Len(o) \in Nat /\ DOMAIN o = 1..Len(o)
  BY LimitsAssumption DEF CountsSlots, RingInv, Lists
<1>2. /\ n = Len(o) /\ n < CounterModulus /\ w.next_thread_slot = n
      /\ \A i \in DOMAIN o : w.thread_table[o[i]] = i
  BY DEF RingInv, Filling, InTurn
<1>3. NextSlot(w) = n + 1
  BY <1>1, <1>2 DEF NextSlot
<1>4. \A u \in DOMAIN w.thread_table : w.thread_table[u] # n + 1
  BY <1>1, <1>2 DEF RingInv, Lists
<1>5. /\ DOMAIN v.thread_table = DOMAIN w.thread_table \cup {t} /\ v.thread_table[t] = n + 1
      /\ \A u \in DOMAIN w.thread_table : v.thread_table[u] = w.thread_table[u]
      /\ v.next_thread_slot = (n + 1) % CounterModulus
  BY <1>2, <1>3, <1>4 DEF Registered1
<1>6. Within(o, DOMAIN v.thread_table) = o
  BY <1>1, <1>5, WithinAll DEF RingInv, Lists
<1>7. /\ p \in Seq(Threads) /\ Len(p) = n + 1 /\ DOMAIN p = 1..(n + 1) /\ p[n + 1] = t
      /\ \A i \in 1..n : p[i] = o[i]
  BY <1>1, <1>2
<1> HIDE DEF p
<1>8. Lists(v, p)
  BY <1>1, <1>2, <1>5, <1>7, SMTT(40) DEF RingInv, Lists
<1>9. \A i \in 1..(n + 1) : v.thread_table[p[i]] = i
  BY <1>1, <1>2, <1>5, <1>7 DEF RingInv, Lists
<1>10. OneMore(n) = n + 1 /\ n + 1 \in 0..CounterModulus
  BY <1>1, <1>2 DEF OneMore
<1>11. Filling(v, p, n + 1) /\ Full(v, p)
  BY <1>1, <1>2, <1>7, <1>9 DEF Filling, Full
<1>12. InTurn(v, p, n + 1)
  <2> SUFFICES ASSUME n + 1 < CounterModulus PROVE InTurn(v, p, n + 1)
    BY DEF InTurn
  <2>1. v.next_thread_slot = n + 1
    BY <1>1, <1>2, <1>5, CounterMoves
  <2>2. CASE Len(p) = s
    <3>1. (n + 1) % s = 0
      BY <1>1, <1>2, <1>7, <2>2
    <3>2. NextSlot(v) = 1
      BY <2>1, <3>1 DEF NextSlot
    <3> QED
      BY <1>1, <1>2, <1>7, <1>9, <2>1, <2>2, <3>2 DEF InTurn, NextOf
  <2> QED
    BY <2>1, <2>2 DEF InTurn
<1> QED
  BY <1>6, <1>8, <1>10, <1>11, <1>12 DEF RingInv, p

\* When there are none.
LEMMA RegisterFull ==
  ASSUME CountsSlots, NEW w, WriterInv(w), NEW o, NEW n, RingInv(w, o, n),
         NEW t \in Threads, t \notin DOMAIN w.thread_table,
         NEW v, Registered1(w, v, t, NextSlot(w)), Len(o) = MaxThreadSlots
  PROVE  \E i \in DOMAIN o :
           /\ n < CounterModulus => i = 1
           /\ Within(o, DOMAIN v.thread_table) = Without(o, i)
           /\ RingInv(v, Append(Without(o, i), t), OneMore(n))
<1> DEFINE s == MaxThreadSlots
           slot == NextSlot(w)
<1>1. /\ s \in Nat \ {0} /\ CounterModulus \in Nat /\ s <= CounterModulus
      /\ o \in Seq(Threads) /\ Len(o) = s /\ DOMAIN o = 1..s /\ n \in 0..CounterModulus
  BY LimitsAssumption DEF CountsSlots, RingInv, Lists
<1>2. slot \in 1..s
  <2>1. w.next_thread_slot \in Nat
    BY LimitsAssumption DEF WriterInv, WriterType
  <2>2. w.next_thread_slot % s \in 0..(s - 1)
    BY <1>1, <2>1, Division
  <2> QED
    BY <1>1, <2>2 DEF NextSlot
<1> HIDE DEF slot
<1>3. PICK i \in 1..s : w.thread_table[o[i]] = slot
  BY <1>1, <1>2 DEF RingInv, Full
<1>4. \A j \in 1..s : w.thread_table[o[j]] = slot => j = i
  <2>1. \A u, x \in DOMAIN w.thread_table : w.thread_table[u] = w.thread_table[x] => u = x
    BY DEF WriterInv, ThreadsMatchReaderIn
  <2> QED
    BY <1>1, <1>3, <2>1 DEF RingInv, Lists
<1>5. n < CounterModulus => i = 1
  BY <1>1, <1>4 DEF RingInv, InTurn, slot
<1> DEFINE rest == Without(o, i)
           p == Append(rest, t)
<1>6. /\ DOMAIN v.thread_table = (DOMAIN w.thread_table \ {o[i]}) \cup {t}
      /\ v.thread_table[t] = slot
      /\ \A u \in DOMAIN w.thread_table \ {o[i]} : v.thread_table[u] = w.thread_table[u]
      /\ v.next_thread_slot = (w.next_thread_slot + 1) % CounterModulus
  <2>1. \A u \in DOMAIN w.thread_table : w.thread_table[u] = slot <=> u = o[i]
    BY <1>1, <1>3, <1>4 DEF RingInv, Lists
  <2> QED
    BY <2>1 DEF Registered1, slot
<1>7. Within(o, DOMAIN v.thread_table) = rest
  <2>1. \A j \in DOMAIN o : o[j] \in DOMAIN v.thread_table <=> j # i
    BY <1>1, <1>3, <1>6 DEF RingInv, Lists
  <2> QED
    BY <1>1, <2>1, WithinAllButOne
<1>8. /\ rest \in Seq(Threads) /\ Len(rest) = s - 1
      /\ \A j \in 1..(s - 1) : rest[j] = IF j < i THEN o[j] ELSE o[j + 1]
  <2>1. rest \in Seq(Threads) /\ Len(rest) = s - 1
    BY <1>1, WithoutIs
  <2> QED
    BY <1>1, <2>1 DEF Without
<1> HIDE DEF rest
<1>9. /\ p \in Seq(Threads) /\ Len(p) = s /\ DOMAIN p = 1..s /\ p[s] = t
      /\ \A j \in 1..(s - 1) : p[j] = IF j < i THEN o[j] ELSE o[j + 1]
  BY <1>1, <1>8
<1> HIDE DEF p
\* Where the j-th that is left was.
<1>10. PICK at \in [1..(s - 1) -> 1..s] :
         /\ \A j \in 1..(s - 1) : at[j] # i /\ p[j] = o[at[j]]
         /\ \A j, k \in 1..(s - 1) : at[j] = at[k] => j = k
         /\ \A m \in 1..s : m # i => \E j \in 1..(s - 1) : at[j] = m
         /\ i = 1 => \A j \in 1..(s - 1) : at[j] = j + 1
  <2> DEFINE f == [j \in 1..(s - 1) |-> IF j < i THEN j ELSE j + 1]
  <2>1. /\ f \in [1..(s - 1) -> 1..s]
        /\ \A j \in 1..(s - 1) : f[j] # i
        /\ \A j, k \in 1..(s - 1) : f[j] = f[k] => j = k
        /\ i = 1 => \A j \in 1..(s - 1) : f[j] = j + 1
    BY <1>1
  <2>2. \A j \in 1..(s - 1) : p[j] = o[f[j]]
    BY <1>9
  <2>3. ASSUME NEW m \in 1..s, m # i PROVE \E j \in 1..(s - 1) : f[j] = m
    <3>1. CASE m < i
      <4>1. m \in 1..(s - 1) /\ f[m] = m
        BY <1>1, <3>1
      <4> QED
        BY <4>1
    <3>2. CASE m > i
      <4>1. m - 1 \in 1..(s - 1) /\ f[m - 1] = m
        BY <1>1, <3>2
      <4> QED
        BY <4>1
    <3> QED
      BY <2>3, <3>1, <3>2
  <2> HIDE DEF f
  <2> QED
    BY <2>1, <2>2, <2>3
<1>11. \A j \in 1..(s - 1) : /\ p[j] \in DOMAIN w.thread_table \ {o[i]}
                              /\ v.thread_table[p[j]] = w.thread_table[o[at[j]]]
  <2> SUFFICES ASSUME NEW j \in 1..(s - 1)
               PROVE  /\ p[j] \in DOMAIN w.thread_table \ {o[i]}
                      /\ v.thread_table[p[j]] = w.thread_table[o[at[j]]]
    OBVIOUS
  <2>1. at[j] \in 1..s /\ at[j] # i /\ p[j] = o[at[j]]
    BY <1>10
  <2>2. p[j] \in DOMAIN w.thread_table /\ p[j] # o[i]
    BY <1>1, <1>3, <2>1 DEF RingInv, Lists
  <2> QED
    BY <1>6, <2>1, <2>2
<1>12. Lists(v, p)
  <2>1. /\ \A j \in 1..(s - 1) : p[j] \in DOMAIN v.thread_table /\ p[j] # t
        /\ t \in DOMAIN v.thread_table
    BY <1>6, <1>11
  <2>2. ASSUME NEW u \in DOMAIN v.thread_table, u # t
        PROVE  \E j \in 1..(s - 1) : p[j] = u
    <3>1. PICK k \in 1..s : o[k] = u
      BY <1>1, <1>6, <2>2 DEF RingInv, Lists
    <3>2. k # i
      BY <1>6, <2>2, <3>1
    <3> QED
      BY <1>10, <3>1, <3>2
  <2>3. \A j, k \in 1..(s - 1) : p[j] = p[k] => j = k
    <3> SUFFICES ASSUME NEW j \in 1..(s - 1), NEW k \in 1..(s - 1), p[j] = p[k] PROVE j = k
      OBVIOUS
    <3>1. at[j] \in 1..s /\ at[k] \in 1..s /\ o[at[j]] = o[at[k]]
      BY <1>10
    <3>2. at[j] = at[k]
      BY <1>1, <3>1 DEF RingInv, Lists
    <3> QED
      BY <1>10, <3>2
  <2>4. 1..s = 1..(s - 1) \cup {s}
    BY <1>1
  <2>5. \A j \in 1..s : p[j] \in DOMAIN v.thread_table
    BY <1>9, <2>1, <2>4
  <2>6. \A u \in DOMAIN v.thread_table : \E j \in 1..s : p[j] = u
    BY <1>1, <1>9, <2>2, <2>4
  <2>7. \A j, k \in 1..s : p[j] = p[k] => j = k
    BY <1>9, <2>1, <2>3, <2>4
  <2>8. p \in Seq(Threads) /\ Len(p) <= MaxThreadSlots /\ DOMAIN p = 1..s
    BY <1>1, <1>9
  <2> HIDE DEF s
  <2> QED
    BY <2>5, <2>6, <2>7, <2>8, Zenon DEF Lists
<1>13. Filling(v, p, OneMore(n)) /\ OneMore(n) \in 0..CounterModulus
  BY <1>1, <1>9 DEF Filling, OneMore
<1>14. Full(v, p)
  <2> SUFFICES ASSUME NEW k \in 1..s PROVE \E j \in 1..s : v.thread_table[p[j]] = k
    BY <1>1, <1>9 DEF Full
  <2>1. CASE k = slot
    BY <1>1, <1>6, <1>9, <2>1
  <2>2. CASE k # slot
    <3>1. PICK m \in 1..s : w.thread_table[o[m]] = k
      BY <1>1 DEF RingInv, Full
    <3>2. o[m] \in DOMAIN v.thread_table /\ v.thread_table[o[m]] = k
      BY <1>1, <1>3, <1>6, <2>2, <3>1 DEF RingInv, Lists
    <3> QED
      BY <1>9, <1>12, <3>1, <3>2 DEF Lists
  <2> QED
    BY <2>1, <2>2
<1>15. InTurn(v, p, OneMore(n))
  <2> SUFFICES ASSUME n + 1 < CounterModulus PROVE InTurn(v, p, n + 1)
    BY <1>1 DEF OneMore, InTurn
  <2>1. n < CounterModulus /\ n \in Nat /\ w.next_thread_slot = n /\ i = 1
    BY <1>1, <1>5 DEF RingInv, InTurn
  <2>2. v.next_thread_slot = n + 1
    BY <1>6, <2>1, CounterMoves
  <2>3. NextSlot(v) = NextOf(slot)
    BY <2>1, <2>2, NextSlotMoves DEF slot
  <2>4. /\ w.thread_table[o[1]] = slot /\ NextOf(w.thread_table[o[s]]) = slot
        /\ \A j \in 1..(s - 1) : w.thread_table[o[j + 1]] = NextOf(w.thread_table[o[j]])
    BY <1>1, <2>1 DEF RingInv, InTurn, slot
  <2>5. \A j \in 1..(s - 1) : v.thread_table[p[j]] = w.thread_table[o[j + 1]]
    BY <1>1, <1>10, <1>11, <2>1
  <2>6. v.thread_table[p[s]] = slot
    BY <1>6, <1>9
  <2>7. v.thread_table[p[1]] = NextSlot(v)
    <3>1. CASE s = 1
      BY <1>2, <2>3, <2>6, <3>1 DEF NextOf
    <3>2. CASE s > 1
      BY <1>1, <2>3, <2>4, <2>5, <3>2
    <3> QED
      BY <1>1, <3>1, <3>2
  <2>8. \A j \in 1..(s - 1) : v.thread_table[p[j + 1]] = NextOf(v.thread_table[p[j]])
    <3> SUFFICES ASSUME NEW j \in 1..(s - 1)
                 PROVE  v.thread_table[p[j + 1]] = NextOf(v.thread_table[p[j]])
      OBVIOUS
    <3>1. CASE j + 1 = s
      BY <1>1, <2>4, <2>5, <2>6, <3>1
    <3>2. CASE j + 1 < s
      <4>1. j + 1 \in 1..(s - 1)
        BY <1>1, <3>2
      <4> QED
        BY <2>4, <2>5, <4>1
    <3> QED
      BY <1>1, <3>1, <3>2
  <2> QED
    BY <2>2, <2>3, <2>6, <2>7, <2>8 DEF InTurn
<1>16. RingInv(v, p, OneMore(n))
  BY <1>12, <1>13, <1>14, <1>15 DEF RingInv
<1> QED
  BY <1>1, <1>3, <1>5, <1>7, <1>16 DEF p, rest

RingIInv == RingInv(writer, order, insertions)

LEMMA InitRing == OrderInit => RingIInv /\ Ring!Init
<1> SUFFICES ASSUME OrderInit PROVE RingIInv /\ Ring!Init
  OBVIOUS
<1>1. order = <<>> /\ insertions = 0 /\ 0 < CounterModulus /\ 0 < MaxThreadSlots
  BY LimitsAssumption DEF OrderInit
<1>2. DOMAIN writer.thread_table = {} /\ writer.next_thread_slot = 0
  BY DEF OrderInit, Init, NewWriter
<1> QED
  BY <1>1, <1>2, LimitsAssumption
     DEF RingIInv, RingInv, Lists, Filling, Full, InTurn, Ring!Init

\* A step that registers t inserts it in the ring.
LEMMA RegisterInserts ==
  ASSUME CountsSlots, IInv, RingIInv, RecordOrder,
         NEW t \in Threads \ DOMAIN writer.thread_table,
         SameThreads(AssignSlot(writer, t), writer')
  PROVE  RingIInv' /\ Ring!Insert(t)
<1> DEFINE kept == Within(order, DOMAIN writer'.thread_table)
<1>1. WriterInv(writer) /\ RingInv(writer, order, insertions)
  BY DEF IInv, RingIInv
<1>2. Registered1(writer, writer', t, NextSlot(writer))
  BY <1>1, AssignSlotTable DEF SameThreads, Registered1
<1>3. Registered = {t}
  BY <1>2 DEF Registered, Registered1
<1>4. order' = kept \o <<t>> /\ insertions' = OneMore(insertions)
  BY <1>3, SequencesOfOne DEF RecordOrder, OneMore
<1>5. /\ order \in Seq(Threads) /\ Len(order) \in Nat /\ Len(order) <= MaxThreadSlots
      /\ MaxThreadSlots \in Nat /\ CounterModulus \in Nat /\ insertions \in 0..CounterModulus
  BY <1>1, LimitsAssumption DEF RingInv, Lists
<1>6. /\ t \notin Ring!Range(order)
      /\ insertions' = IF insertions < CounterModulus THEN insertions + 1 ELSE CounterModulus
  BY <1>1, <1>4, <1>5 DEF Ring!Range, RingInv, Lists, OneMore
<1>7. CASE Len(order) < MaxThreadSlots
  <2>1. kept = order /\ RingInv(writer', Append(order, t), OneMore(insertions))
    BY <1>1, <1>2, <1>7, RegisterFree
  <2>2. order' = Append(order, t)
    BY <1>4, <1>5, <2>1
  <2>3. order \in Ring!Kept
    BY <1>7 DEF Ring!Kept
  <2> QED
    BY <1>4, <1>6, <2>1, <2>2, <2>3 DEF RingIInv, Ring!Insert
<1>8. CASE Len(order) = MaxThreadSlots
  <2>1. PICK i \in DOMAIN order :
          /\ insertions < CounterModulus => i = 1
          /\ kept = Without(order, i)
          /\ RingInv(writer', Append(Without(order, i), t), OneMore(insertions))
    BY <1>1, <1>2, <1>8, RegisterFull
  <2>2. /\ kept \in Seq(Threads)
        /\ kept = Ring!RemoveAt(order, i)
        /\ insertions < CounterModulus => kept = Tail(order)
    <3>1. /\ Without(order, i) \in Seq(Threads)
          /\ Without(order, i) = SubSeq(order, 1, i - 1) \o SubSeq(order, i + 1, Len(order))
          /\ i = 1 => Without(order, i) = Tail(order)
      BY <1>5, WithoutIs, Zenon
    <3> HIDE DEF kept
    <3> QED
      BY <2>1, <3>1, Zenon DEF Ring!RemoveAt
  <2> HIDE DEF kept
  <2>3. order' = Append(kept, t)
    BY <1>4, <2>2
  <2>4. kept \in Ring!Kept
    BY <1>5, <1>8, <2>1, <2>2 DEF Ring!Kept
  <2> QED
    BY <1>4, <1>6, <2>1, <2>3, <2>4 DEF RingIInv, Ring!Insert
<1> QED
  BY <1>5, <1>7, <1>8

LEMMA StepRing ==
  ASSUME CountsSlots
  PROVE  IInv /\ RingIInv /\ [OrderNext]_orderVars
           => RingIInv' /\ [Ring!Next]_<<order, insertions>>
<1> SUFFICES ASSUME IInv, RingIInv, [OrderNext]_orderVars
             PROVE  RingIInv' /\ [Ring!Next]_<<order, insertions>>
  OBVIOUS
<1>1. CASE UNCHANGED orderVars
  BY <1>1 DEF orderVars, RingIInv
<1>2. CASE OrderNext
  <2>1. RecordOrder /\ RegistersOne(writer, writer')
    BY <1>2, StepRegistersOne DEF OrderNext
  <2>2. CASE SameThreads(writer, writer')
    <3>1. RingInv(writer, order, insertions) /\ order \in Seq(Threads)
          /\ \A i \in DOMAIN order : order[i] \in DOMAIN writer'.thread_table
      BY <2>2 DEF RingIInv, RingInv, Lists, SameThreads
    <3>2. Registered = {}
      BY <2>2 DEF Registered, SameThreads
    <3>3. order' = order /\ insertions' = insertions
      <4>1. Within(order, DOMAIN writer'.thread_table) = order
        BY <3>1, WithinAll
      <4>2. order' = order \o <<>> /\ insertions' = insertions
        BY <2>1, <3>2, <4>1, SequencesOfOne DEF RecordOrder
      <4> QED
        BY <3>1, <4>2
    <3>4. RingIInv'
      BY <2>2, <3>1, <3>3
         DEF RingIInv, RingInv, Lists, Filling, Full, InTurn, NextSlot, SameThreads
    <3> QED
      BY <3>3, <3>4
  <2>3. CASE \E t \in Threads \ DOMAIN writer.thread_table :
               SameThreads(AssignSlot(writer, t), writer')
    BY <2>1, <2>3, RegisterInserts DEF Ring!Next
  <2> QED
    BY <2>1, <2>2, <2>3 DEF RegistersOne
<1> QED
  BY <1>1, <1>2

\* The thread table is a ring: a new thread takes the place of one thread only, of
\* the least recently registered as long as the counter has not wrapped.  The
\* counter has to count the slots at least (fxt_writer.hpp:106, ensure_thread).
THEOREM SlotsAreARing == ASSUME CountsSlots PROVE OrderSpec => ThreadSlotsAreARing
<1>1. OrderInit => IInv
  BY InitIInv DEF OrderInit
<1>2. IInv /\ [OrderNext]_orderVars => IInv'
  BY StepIInv DEF OrderNext, orderVars, vars
<1>3. IInv /\ RingIInv /\ [OrderNext]_orderVars
        => RingIInv' /\ [Ring!Next]_<<order, insertions>>
  BY StepRing
<1> QED
  BY <1>1, <1>2, <1>3, InitRing, PTL DEF OrderSpec, ThreadSlotsAreARing, Ring!Spec
=============================================================================
