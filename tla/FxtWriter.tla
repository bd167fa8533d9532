------------------------------ MODULE FxtWriter ------------------------------
(***************************************************************************)
(* FxtWriter (lib/fxt_writer.cpp): string interning, thread slots and the  *)
(* records that refer to them.  Every record of an FXT stream names its    *)
(* strings and its thread by small references, so the writer is correct    *)
(* when the reader of the stream resolves each reference to what the       *)
(* writer meant.  The reader is part of the state (reader_strings and      *)
(* reader_threads: what it has decoded so far), as is the set of mistakes  *)
(* it has made.                                                            *)
(*                                                                         *)
(* The writer is one record.  Each operation is an operator from a writer  *)
(* to a writer, so that an operation that calls others is their            *)
(* composition, and so that TracePipeline can call them too.               *)
(***************************************************************************)
EXTENDS Naturals, FiniteSets, Functions

CONSTANTS
  Strings,         \* the strings that can be interned
  CallerStrings,   \* those that callers pass in, the others are made here
  EmptyString,     \* "", which has the reserved reference 0
  Effective,       \* Effective[s]: s as emit_string_record stores it
  Threads,         \* the threads of the trace: records [pid, tid]
  PidName,         \* PidName[p]: "[pid=p]"
  TidName,         \* TidName[t]: "[tid=t]"
  ProcessLabel,    \* "process", the name of a thread object's argument
  MaxStringId,     \* max_string_id_, 32767 in the code
  MaxThreadSlots,  \* max_thread_slots_, 255 in the code
  CounterModulus,  \* next_thread_slot_ wraps here, 256 in the code
  MaxHeld          \* how many interned ids callers keep (bound of the model)

Pids == {t.pid : t \in Threads}
Tids == {t.tid : t \in Threads}

ASSUME LimitsAssumption ==
  /\ MaxStringId \in Nat \ {0}
  /\ MaxThreadSlots \in Nat \ {0}
  /\ CounterModulus \in Nat \ {0}
  /\ MaxHeld \in Nat

ASSUME NamesAssumption ==
  /\ EmptyString \in Strings
  /\ CallerStrings \subseteq Strings
  /\ Effective \in [Strings -> Strings]
  /\ Effective[EmptyString] = EmptyString
  /\ PidName \in [Pids -> Strings]
  /\ TidName \in [Tids -> Strings]
  /\ ProcessLabel \in Strings

ASSUME ThreadsAssumption == \A t \in Threads : t = [pid |-> t.pid, tid |-> t.tid]

VARIABLES
  writer,  \* the FxtWriter and the reader of its output
  held     \* pairs <<s, id>>: intern_string(s) returned id and a caller kept it

vars == <<writer, held>>

Bind(f, k, v) == [x \in DOMAIN f \cup {k} |-> IF x = k THEN v ELSE f[x]]

NewWriter ==
  [ string_table             |-> <<>>,
    next_string_id           |-> 1,
    string_id_warning_issued |-> FALSE,
    thread_table             |-> <<>>,
    named_processes          |-> {},
    next_thread_slot         |-> 0,
    reader_strings           |-> <<>>,
    reader_threads           |-> <<>>,
    misread                  |-> {} ]

-----------------------------------------------------------------------------
(* Strings *)

\* Mutants: the largest id; any entry of the unordered map.
VictimLargest(table) ==
  CHOOSE v \in DOMAIN table : \A s \in DOMAIN table : table[v] >= table[s]
VictimAny(table) == CHOOSE v \in DOMAIN table : TRUE

\* The string with the smallest id, which the loop over the table finds.
Victim(table) ==
  CHOOSE v \in DOMAIN table : \A s \in DOMAIN table : table[v] <= table[s]

\* emit_string_record: the reader replaces what the id stood for.
EmitStringRecord(w, id, s) ==
  [w EXCEPT !.reader_strings = Bind(@, id, Effective[s])]

AllocateString(w, s) ==
  EmitStringRecord(
    [w EXCEPT !.string_table   = Bind(@, s, w.next_string_id),
              !.next_string_id = @ + 1],
    w.next_string_id, s)

\* Mutants: the victim stays in the table; the flag is not set; the counter
\* wraps to 1 at the first eviction.
EvictKeepsVictim(w, s) ==
  LET id == w.string_table[Victim(w.string_table)]
  IN  EmitStringRecord(
        [w EXCEPT !.string_table = Bind(@, s, id),
                  !.string_id_warning_issued = TRUE],
        id, s)
EvictSilently(w, s) ==
  LET victim == Victim(w.string_table)
      id     == w.string_table[victim]
  IN  EmitStringRecord(
        [w EXCEPT !.string_table = Bind(Restrict(@, DOMAIN @ \ {victim}), s, id)],
        id, s)
EvictAndWrapCounter(w, s) ==
  LET victim == Victim(w.string_table)
      id     == w.string_table[victim]
  IN  EmitStringRecord(
        [w EXCEPT !.string_table = Bind(Restrict(@, DOMAIN @ \ {victim}), s, id),
                  !.string_id_warning_issued = TRUE,
                  !.next_string_id = 1],
        id, s)

EvictForString(w, s) ==
  LET victim == Victim(w.string_table)
      id     == w.string_table[victim]
  IN  EmitStringRecord(
        [w EXCEPT !.string_table = Bind(Restrict(@, DOMAIN @ \ {victim}), s, id),
                  !.string_id_warning_issued = TRUE],
        id, s)

\* Mutant: one id too many before eviction.
InternOnePastLimit(w, s) ==
  IF s = EmptyString \/ s \in DOMAIN w.string_table THEN w
  ELSE IF w.next_string_id <= MaxStringId + 1 THEN AllocateString(w, s)
  ELSE EvictForString(w, s)

InternString(w, s) ==
  IF s = EmptyString \/ s \in DOMAIN w.string_table THEN w
  ELSE IF w.next_string_id <= MaxStringId THEN AllocateString(w, s)
  ELSE EvictForString(w, s)

\* The id that intern_string(s) has just returned.
StringId(w, s) == IF s = EmptyString THEN 0 ELSE w.string_table[s]

\* The reader resolves reference id to the string s.
Decodes(w, s, id) ==
  IF id = 0 THEN s = EmptyString
  ELSE id \in DOMAIN w.reader_strings /\ w.reader_strings[id] = Effective[s]

-----------------------------------------------------------------------------
(* Records that hold references.  names is a set of <<s, id>>: the record   *)
(* means s and holds id.                                                    *)

EmitNames(w, names) ==
  IF \A n \in names : Decodes(w, n[1], n[2]) THEN w
  ELSE [w EXCEPT !.misread = @ \cup {"name"}]

EmitThreadRef(w, t, slot) ==
  IF slot \in DOMAIN w.reader_threads /\ w.reader_threads[slot] = t THEN w
  ELSE [w EXCEPT !.misread = @ \cup {"thread"}]

EmitEventRecord(w, t, slot, category, name) ==
  EmitNames(EmitThreadRef(w, t, slot), {category, name})

WriteProcessName(w, name) ==
  LET w1 == InternString(w, name)
  IN  EmitNames(w1, {<<name, StringId(w1, name)>>})

\* name's id is taken before "process" is interned.
WriteThreadName(w, name) ==
  LET w1 == InternString(w, name)
      w2 == InternString(w1, ProcessLabel)
  IN  EmitNames(w2, {<<name, StringId(w1, name)>>,
                     <<ProcessLabel, StringId(w2, ProcessLabel)>>})

-----------------------------------------------------------------------------
(* Thread slots *)

NextSlot(w) == (w.next_thread_slot % MaxThreadSlots) + 1

Occupants(table, slot) == {u \in DOMAIN table : table[u] = slot}

\* Mutant: the old mapping of the slot stays.
KeepOccupant(table, slot) == table

\* The loop of ensure_thread erases the first occupant it meets, then stops.
EraseOccupant(table, slot) ==
  IF Occupants(table, slot) = {} THEN table
  ELSE Restrict(table, DOMAIN table \ {CHOOSE u \in Occupants(table, slot) : TRUE})

AssignSlot(w, t) ==
  [w EXCEPT !.next_thread_slot = (@ + 1) % CounterModulus,
            !.thread_table     = Bind(EraseOccupant(@, NextSlot(w)), t, NextSlot(w)),
            !.reader_threads   = Bind(@, NextSlot(w), t)]

NameProcessOnce(w, t) ==
  IF t.pid \in w.named_processes THEN w
  ELSE WriteProcessName([w EXCEPT !.named_processes = @ \cup {t.pid}],
                        PidName[t.pid])

EnsureThread(w, t) ==
  IF t \in DOMAIN w.thread_table THEN w
  ELSE WriteThreadName(NameProcessOnce(AssignSlot(w, t), t), TidName[t.tid])

\* emit_event, behind write_duration_begin and write_duration_end.
EmitEvent(w, t, category, name) ==
  LET w1 == EnsureThread(w, t)
      w2 == InternString(w1, category)
      w3 == InternString(w2, name)
  IN  EmitEventRecord(w3, t, w1.thread_table[t],
                      <<category, StringId(w2, category)>>,
                      <<name, StringId(w3, name)>>)

-----------------------------------------------------------------------------
(* The public operations, as actions *)

Init == writer = NewWriter /\ held = {}

\* The caller may keep the id, as StackReconstructor does, and use it later.
CallInternString(s) ==
  /\ writer' = InternString(writer, s)
  /\ \/ held' = held
     \/ /\ Cardinality(held) < MaxHeld
        /\ held' = held \cup {<<s, StringId(writer', s)>>}

CallEnsureThread(t) ==
  /\ writer' = EnsureThread(writer, t)
  /\ UNCHANGED held

WriteDuration(t, category, name) ==
  /\ writer' = EmitEvent(writer, t, category, name)
  /\ UNCHANGED held

\* The ids are ones the caller kept; the slot is one it has just been given
\* (write_pending calls ensure_thread on the line before).
WriteEventById(t, category, name) ==
  /\ t \in DOMAIN writer.thread_table
  /\ writer' = EmitEventRecord(writer, t, writer.thread_table[t], category, name)
  /\ UNCHANGED held

CallWriteProcessName(name) ==
  /\ writer' = WriteProcessName(writer, name)
  /\ UNCHANGED held

CallWriteThreadName(name) ==
  /\ writer' = WriteThreadName(writer, name)
  /\ UNCHANGED held

Next ==
  \/ \E s \in CallerStrings : CallInternString(s)
  \/ \E t \in Threads : CallEnsureThread(t)
  \/ \E t \in Threads, c, n \in CallerStrings : WriteDuration(t, c, n)
  \/ \E t \in Threads, c, n \in held : WriteEventById(t, c, n)
  \/ \E n \in CallerStrings : CallWriteProcessName(n)
  \/ \E n \in CallerStrings : CallWriteThreadName(n)

Spec == Init /\ [][Next]_vars

-----------------------------------------------------------------------------
(* What holds of any writer that these operations have produced *)

WriterType(w) ==
  /\ w \in
       [ string_table             : [DOMAIN w.string_table -> 1..MaxStringId],
         next_string_id           : 1..(MaxStringId + 1),
         string_id_warning_issued : BOOLEAN,
         thread_table             : [DOMAIN w.thread_table -> 1..MaxThreadSlots],
         named_processes          : SUBSET Pids,
         next_thread_slot         : 0..(CounterModulus - 1),
         reader_strings           : [DOMAIN w.reader_strings -> Strings],
         reader_threads           : [DOMAIN w.reader_threads -> Threads],
         misread                  : SUBSET {"name", "thread"} ]
  /\ DOMAIN w.string_table \subseteq Strings \ {EmptyString}
  /\ DOMAIN w.thread_table \subseteq Threads

IdsDenseIn(w) ==
  /\ IsInjective(w.string_table)
  /\ Range(w.string_table) = 1..(w.next_string_id - 1)
  /\ DOMAIN w.reader_strings = 1..(w.next_string_id - 1)
  /\ w.string_id_warning_issued => w.next_string_id = MaxStringId + 1

StringsMatchReaderIn(w) ==
  \A s \in DOMAIN w.string_table : Decodes(w, s, w.string_table[s])

ThreadsMatchReaderIn(w) ==
  \A t \in DOMAIN w.thread_table :
    /\ w.thread_table[t] \in DOMAIN w.reader_threads
    /\ w.reader_threads[w.thread_table[t]] = t

-----------------------------------------------------------------------------
(* Properties *)

\* Types: 15-bit string ids, 8-bit slots, tables that are partial functions.
TypeOK ==
  /\ WriterType(writer)
  /\ held \in SUBSET (Strings \X (0..MaxStringId))

\* Ids are handed out without gaps or repetition, so the writer really uses
\* all MaxStringId of them before it evicts, and id 1 is always taken then.
\* (fxt_writer.cpp: intern_string)
IdsDense == IdsDenseIn(writer)

\* A string or thread the writer's tables hold is what the reader resolves its
\* reference to, whatever was evicted, re-interned or wrapped before.
\* (fxt_writer.cpp: intern_string, ensure_thread)
TablesMatchReader == StringsMatchReaderIn(writer) /\ ThreadsMatchReaderIn(writer)

\* No record is ever attributed to another thread, however many threads compete
\* for the slots and however often the counter wraps.  (emit_event, ensure_thread)
ThreadsFaithful == "thread" \notin writer.misread

\* Until the id space is exhausted, which the writer reports with its warning,
\* every record names what its caller meant and every id a caller kept is good.
\* (intern_string, emit_event, write_event_by_id, write_thread_name)
FaithfulUntilExhausted ==
  ~writer.string_id_warning_issued =>
    /\ "name" \notin writer.misread
    /\ \A h \in held : Decodes(writer, h[1], h[2])

\* Exhaustion can only spoil id 1: an id above 1 that a caller kept names its
\* string for ever, since eviction takes the smallest id.  (intern_string)
HeldAboveOneStayValid == \A h \in held : h[2] # 1 => Decodes(writer, h[1], h[2])

\* A string record never rebinds an id above 1.  (intern_string)
OnlyIdOneIsRecycled ==
  [][\A id \in DOMAIN writer.reader_strings \ {1} :
        writer'.reader_strings[id] = writer.reader_strings[id]]_vars
=============================================================================
