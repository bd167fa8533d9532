-------------------------- MODULE TracePipelineProofs --------------------------
(***************************************************************************)
(* Proofs about TracePipeline, from those about the reconstructor and the  *)
(* writer: what holds of each of them alone still holds when the filter    *)
(* cuts the input and the cache stands between them.                       *)
(***************************************************************************)
EXTENDS TracePipeline, StackReconstructorProofs

WP == INSTANCE FxtWriterProofs WITH
  CallerStrings <- {}, held <- {}, MaxHeld <- 0, order <- <<>>, insertions <- 0
OF == INSTANCE FoldTheorems WITH Op <- WriteOne

-----------------------------------------------------------------------------
(* The operators of FxtWriter that the proofs about it are about *)

LEMMA WPAssumptions == WP!LimitsAssumption /\ WP!NamesAssumption /\ WP!ThreadsAssumption
BY WriterAssumption
   DEF WP!LimitsAssumption, WP!NamesAssumption, WP!ThreadsAssumption, WP!Pids, WP!Tids,
       W!LimitsAssumption, W!NamesAssumption, W!ThreadsAssumption, W!Pids, W!Tids

LEMMA SameBind == \A f, k, v : W!Bind(f, k, v) = WP!Bind(f, k, v)
BY DEF W!Bind, WP!Bind

LEMMA SameInternString == \A w, s : W!InternString(w, s) = WP!InternString(w, s)
<1>1. \A w, id, s : W!EmitStringRecord(w, id, s) = WP!EmitStringRecord(w, id, s)
  BY SameBind DEF W!EmitStringRecord, WP!EmitStringRecord
<1>2. \A w, s : W!AllocateString(w, s) = WP!AllocateString(w, s)
  BY <1>1, SameBind DEF W!AllocateString, WP!AllocateString
<1>3. \A table : W!Victim(table) = WP!Victim(table)
  BY DEF W!Victim, WP!Victim
<1>4. \A w, s : W!EvictForString(w, s) = WP!EvictForString(w, s)
  BY <1>1, <1>3, SameBind DEF W!EvictForString, WP!EvictForString, W!Restrict, WP!Restrict
<1> QED
  BY <1>2, <1>4 DEF W!InternString, WP!InternString

LEMMA SameStringId == \A w, s : W!StringId(w, s) = WP!StringId(w, s)
BY DEF W!StringId, WP!StringId

LEMMA SameDecodes == \A w, s, id : W!Decodes(w, s, id) <=> WP!Decodes(w, s, id)
BY DEF W!Decodes, WP!Decodes

LEMMA SameEmitNames == \A w, names : W!EmitNames(w, names) = WP!EmitNames(w, names)
BY SameDecodes DEF W!EmitNames, WP!EmitNames

LEMMA SameEmitEventRecord ==
  \A w, t, slot, c, n : W!EmitEventRecord(w, t, slot, c, n) = WP!EmitEventRecord(w, t, slot, c, n)
<1>1. \A w, t, slot : W!EmitThreadRef(w, t, slot) = WP!EmitThreadRef(w, t, slot)
  BY DEF W!EmitThreadRef, WP!EmitThreadRef
<1> QED
  BY <1>1, SameEmitNames DEF W!EmitEventRecord, WP!EmitEventRecord

LEMMA SameEnsureThread == \A w, t : W!EnsureThread(w, t) = WP!EnsureThread(w, t)
<1>1. \A w, n : W!WriteProcessName(w, n) = WP!WriteProcessName(w, n)
  BY SameInternString, SameStringId, SameEmitNames DEF W!WriteProcessName, WP!WriteProcessName
<1>2. \A w, n : W!WriteThreadName(w, n) = WP!WriteThreadName(w, n)
  BY SameInternString, SameStringId, SameEmitNames DEF W!WriteThreadName, WP!WriteThreadName
<1>3. \A w, t : W!NameProcessOnce(w, t) = WP!NameProcessOnce(w, t)
  BY <1>1 DEF W!NameProcessOnce, WP!NameProcessOnce
<1>4. \A table, slot : W!EraseOccupant(table, slot) = WP!EraseOccupant(table, slot)
  BY DEF W!EraseOccupant, WP!EraseOccupant, W!Occupants, WP!Occupants, W!Restrict, WP!Restrict
<1>5. \A w, t : W!AssignSlot(w, t) = WP!AssignSlot(w, t)
  BY <1>4, SameBind DEF W!AssignSlot, WP!AssignSlot, W!NextSlot, WP!NextSlot
<1> QED
  BY <1>2, <1>3, <1>5 DEF W!EnsureThread, WP!EnsureThread

-----------------------------------------------------------------------------
(* The output: the writer with the cache of its string ids *)

\* What is written of an event: its thread and its symbol.
ThreadEvent == [thread : Threads, symbol : Frames]

OutputShape(out) == out = [writer |-> out.writer, cache |-> out.cache]

\* Every id that is kept, of a symbol or of the category, names its string in w.
Resolved(w, cache) ==
  /\ WP!Decodes(w, Category, category_id)
  /\ \A s \in DOMAIN cache : WP!Decodes(w, Shorten(s), cache[s])

OutputGood(out) ==
  /\ OutputShape(out)
  /\ WP!WriterInv(out.writer)
  /\ DOMAIN out.cache \subseteq Frames
  /\ WP!Exhausted(out.writer) \/ Resolved(out.writer, out.cache)

\* As long as the ids are not exhausted, what is kept stays good.
LEMMA ResolvedStays ==
  ASSUME NEW v, NEW w, NEW cache, WP!Evolves(v, w),
         WP!Exhausted(v) \/ Resolved(v, cache)
  PROVE  WP!Exhausted(w) \/ Resolved(w, cache)
<1> SUFFICES ASSUME ~WP!Exhausted(w) PROVE Resolved(w, cache)
  OBVIOUS
<1>1. ~WP!Exhausted(v)
  BY DEF WP!Evolves
<1>2. \A s, id : WP!Decodes(v, s, id) => WP!Decodes(w, s, id)
  BY WP!DecodesStays, WPAssumptions
<1> QED
  BY <1>1, <1>2 DEF Resolved

LEMMA InternSymbolGood ==
  ASSUME NEW out, OutputGood(out), NEW symbol \in Frames
  PROVE  /\ OutputGood(InternSymbol(out, symbol))
         /\ symbol \in DOMAIN InternSymbol(out, symbol).cache
<1>1. CASE symbol \in DOMAIN out.cache
  BY <1>1 DEF InternSymbol
<1>2. CASE symbol \notin DOMAIN out.cache
  <2> DEFINE name == Shorten(symbol)
             w == WP!InternString(out.writer, name)
             id == WP!StringId(w, name)
             cache == WP!Bind(out.cache, symbol, id)
             named == [writer |-> w, cache |-> cache]
  <2>1. InternSymbol(out, symbol) = named
    BY <1>2, SameInternString, SameStringId, SameBind DEF InternSymbol
  <2>2. name \in Strings
    BY NamesAreStrings
  <2> HIDE DEF name
  <2>3. WP!WriterInv(w) /\ WP!Evolves(out.writer, w) /\ WP!Decodes(w, name, id)
    BY <2>2, WP!InternStringOK, WPAssumptions DEF OutputGood
  <2> HIDE DEF w, id
  <2>4. /\ DOMAIN cache = DOMAIN out.cache \cup {symbol} /\ cache[symbol] = id
        /\ \A s \in DOMAIN out.cache : cache[s] = out.cache[s]
    BY <1>2 DEF WP!Bind
  <2>5. WP!Exhausted(w) \/ Resolved(w, out.cache)
    BY <2>3, ResolvedStays DEF OutputGood
  <2> HIDE DEF cache
  <2>6. WP!Exhausted(w) \/ Resolved(w, cache)
    BY <2>3, <2>4, <2>5 DEF Resolved, name
  <2>7. DOMAIN cache \subseteq Frames
    BY <2>4 DEF OutputGood
  <2> QED
    BY <2>1, <2>3, <2>4, <2>6, <2>7 DEF OutputGood, OutputShape
<1> QED
  BY <1>1, <1>2

\* One event, and whatever is interned on the way.
LEMMA WriteOneGood ==
  ASSUME NEW out, OutputGood(out), NEW e \in ThreadEvent
  PROVE  OutputGood(WriteOne(out, e))
<1> DEFINE named == InternSymbol(out, e.symbol)
           w == WP!EnsureThread(named.writer, e.thread)
           c == <<Category, category_id>>
           n == <<Shorten(e.symbol), named.cache[e.symbol]>>
           v == WP!EmitEventRecord(w, e.thread, w.thread_table[e.thread], c, n)
<1>1. e.symbol \in Frames /\ e.thread \in Threads
  BY DEF ThreadEvent
<1>2. OutputGood(named) /\ e.symbol \in DOMAIN named.cache
  BY <1>1, InternSymbolGood
<1>3. WriteOne(out, e) = [named EXCEPT !.writer = v]
  BY SameEnsureThread, SameEmitEventRecord DEF WriteOne
<1> HIDE DEF named
<1>4. /\ WP!WriterInv(w) /\ WP!Evolves(named.writer, w)
      /\ e.thread \in DOMAIN w.thread_table
  BY <1>1, <1>2, WP!EnsureThreadOK, WPAssumptions DEF OutputGood
<1> HIDE DEF w
<1>5. WP!Exhausted(w) \/ Resolved(w, named.cache)
  BY <1>2, <1>4, ResolvedStays DEF OutputGood
<1>6. WP!Exhausted(w) \/ (WP!Decodes(w, c[1], c[2]) /\ WP!Decodes(w, n[1], n[2]))
  BY <1>2, <1>5 DEF Resolved
<1> HIDE DEF c, n
<1>7. WP!WriterInv(v) /\ WP!Evolves(w, v)
  BY <1>4, <1>6, WP!EmitEventRecordOK, WPAssumptions
<1> HIDE DEF v
<1>8. WP!Exhausted(v) \/ Resolved(v, named.cache)
  BY <1>5, <1>7, ResolvedStays
<1>9. [named EXCEPT !.writer = v] = [writer |-> v, cache |-> named.cache]
  BY <1>2 DEF OutputGood, OutputShape
<1> QED
  BY <1>2, <1>3, <1>7, <1>8, <1>9 DEF OutputGood, OutputShape

LEMMA WriteAllIsFold ==
  ASSUME NEW out, NEW written
  PROVE  WriteAll(out, written) = OF!Fold(out, written)
BY DEF WriteAll, OF!Fold, OF!FoldLeft, FoldLeft, OF!MapThenFoldSet, MapThenFoldSet,
       OF!Max, Max

LEMMA WriteAllGood ==
  ASSUME NEW out, OutputGood(out), NEW written \in Seq(ThreadEvent)
  PROVE  OutputGood(WriteAll(out, written))
<1> DEFINE S == {s \in Seq(ThreadEvent) : OutputGood(OF!Fold(out, s))}
<1>1. <<>> \in S
  BY OF!FoldEmpty
<1>2. ASSUME NEW s \in Seq(ThreadEvent), NEW e \in ThreadEvent, s \in S
      PROVE  Append(s, e) \in S
  <2>1. OF!Fold(out, Append(s, e)) = WriteOne(OF!Fold(out, s), e)
    BY OF!FoldAppend
  <2>2. OutputGood(OF!Fold(out, s))
    BY <1>2
  <2>3. Append(s, e) \in Seq(ThreadEvent)
    OBVIOUS
  <2> QED
    BY <2>1, <2>2, <2>3, WriteOneGood
<1> HIDE DEF S
<1>3. \A s \in Seq(ThreadEvent) : s \in S
  BY <1>1, <1>2, OF!AppendInduction
<1> QED
  BY <1>3, WriteAllIsFold DEF S

LEMMA SeqOfRange ==
  ASSUME NEW T, NEW n \in Nat, NEW f \in [1..n -> T]
  PROVE  f \in Seq(T)
OBVIOUS

LEMMA OfThreadType ==
  ASSUME NEW t \in Threads, NEW written \in Seq(OutEvent)
  PROVE  OfThread(t, written) \in Seq(ThreadEvent)
<1> DEFINE n == Len(written)
<1>1. n \in Nat /\ DOMAIN written = 1..n /\ \A i \in 1..n : written[i] \in OutEvent
  OBVIOUS
<1>2. \A e \in OutEvent : [thread |-> t, symbol |-> e.symbol] \in ThreadEvent
  BY DEF OutEvent, ThreadEvent
<1> HIDE DEF n
<1>3. OfThread(t, written) \in [1..n -> ThreadEvent]
  BY <1>1, <1>2 DEF OfThread
<1> QED
  BY <1>1, <1>3, SeqOfRange

LEMMA FinishedInOrderType ==
  ASSUME IInv, NEW order \in SetToSeqs(Threads)
  PROVE  FinishedInOrder(order) \in Seq(ThreadEvent)
<1> DEFINE part == [i \in DOMAIN order |->
                      OfThread(order[i], FinishThread(threads[order[i]]).out)]
<1> DEFINE n == Cardinality(Threads)
<1>1. n \in Nat /\ order \in [1..n -> Threads]
  BY ThreadsAreFinite, FS_CardinalityType DEF SetToSeqs
<1>2. ASSUME NEW t \in Threads PROVE OfThread(t, FinishThread(threads[t]).out) \in Seq(ThreadEvent)
  <2>1. Good(viewer[t], threads[t])
    BY DEF IInv, ThreadsTracked
  <2>2. Good(viewer[t], FinishThread(threads[t]))
    BY <2>1, FinishThreadKeeps, KeepsFields
  <2>3. FinishThread(threads[t]).out \in Seq(OutEvent)
    BY <2>2, GoodFields, ThreadInfoFields
  <2> QED
    BY <2>3, OfThreadType
<1> HIDE DEF n
<1>3. part \in Seq(Seq(ThreadEvent))
  <2>1. part \in [1..n -> Seq(ThreadEvent)]
    BY <1>1, <1>2
  <2> QED
    BY <1>1, <2>1, SeqOfRange
<1>4. FlattenSeq(part) \in Seq(ThreadEvent)
  BY <1>3, OF!FlattenType DEF OF!FlattenSeq, FlattenSeq
<1> QED
  BY <1>4 DEF FinishedInOrder

-----------------------------------------------------------------------------
(* The inductive invariant *)

NewOutput == [writer |-> W!InternString(W!NewWriter, Category), cache |-> <<>>]

\* While the start symbol is awaited for the first time, no thread has done anything.
Untouched == \A t \in Threads : threads[t] = NewThreadInfo

NothingBeforeStart ==
  F!StartSymbolMissing =>
    /\ filter_state = "Waiting"
    /\ Output = NewOutput
    /\ ~finished => Untouched

PipelineInv == IInv /\ OutputGood(Output) /\ NothingBeforeStart

\* A new writer with the category interned.
LEMMA NewOutputGood ==
  ASSUME writer = W!InternString(W!NewWriter, Category),
         category_id = W!StringId(writer, Category), symbol_id_cache = <<>>
  PROVE  OutputGood(Output) /\ Output = NewOutput
<1>1. W!NewWriter = WP!NewWriter
  BY DEF W!NewWriter, WP!NewWriter
<1>2. WP!WriterInv(WP!NewWriter)
  BY WP!NewWriterOK, WPAssumptions
<1>3. Category \in Strings
  BY NamesAreStrings
<1>4. writer = WP!InternString(WP!NewWriter, Category) /\ category_id = WP!StringId(writer, Category)
  BY <1>1, SameInternString, SameStringId
<1>5. WP!WriterInv(writer) /\ WP!Decodes(writer, Category, category_id)
  BY <1>2, <1>3, <1>4, WP!InternStringOK, WPAssumptions
<1>6. DOMAIN symbol_id_cache = {}
  OBVIOUS
<1>7. Resolved(writer, symbol_id_cache)
  BY <1>5, <1>6 DEF Resolved
<1>8. Output.writer = writer /\ Output.cache = symbol_id_cache
  BY DEF Output
<1>9. OutputShape(Output)
  BY DEF Output, OutputShape
<1> QED
  BY <1>5, <1>6, <1>7, <1>8, <1>9 DEF OutputGood, Output, NewOutput

LEMMA InitPipelineInv == PipelineInit => PipelineInv
<1> SUFFICES ASSUME PipelineInit PROVE PipelineInv
  OBVIOUS
<1>1. Init /\ IInv
  BY InitIInv DEF PipelineInit
<1>2. OutputGood(Output) /\ Output = NewOutput
  BY NewOutputGood DEF PipelineInit
<1>3. Untouched
  BY <1>1 DEF Init, Untouched
<1>4. F!StartSymbolMissing => filter_state = "Waiting"
  BY DEF PipelineInit, F!FilterInit, F!StartSymbolMissing
<1> QED
  BY <1>1, <1>2, <1>3, <1>4 DEF PipelineInv, NothingBeforeStart

\* An event that the filter drops moves the clock, nothing else.
LEMMA DropKeeps ==
  ASSUME IInv, NEW e, NEW time_ns \in Times, Drop(e, time_ns)
  PROVE  IInv' /\ Output' = Output /\ threads' = threads /\ finished' = finished
<1>1. /\ NextEvent(time_ns) /\ threads' = threads /\ viewer' = viewer
      /\ base_time' = base_time /\ base_time_set' = base_time_set
      /\ finished' = finished /\ writer' = writer /\ symbol_id_cache' = symbol_id_cache
  BY DEF Drop, outputVars
<1>2. Types /\ time_ns \in Time
  BY TimesType DEF IInv
<1>3. clock' = Max({clock, time_ns}) /\ clock \in Time /\ clock \in Int /\ time_ns \in Int
  BY <1>1, <1>2, TimeIsInt DEF NextEvent, Types
<1>4. clock' \in Time /\ (clock' = clock \/ clock' = time_ns)
  <2>1. clock' = clock \/ clock' = time_ns
    BY <1>3, MaxOfTwo
  <2> QED
    BY <1>2, <1>3, <2>1
<1>5. Types'
  <2>1. events' \in 0..MaxEvents
    BY <1>1, <1>2, TimeAssumption DEF NextEvent, Types
  <2>2. in_order' \in BOOLEAN /\ early' \in BOOLEAN
    BY <1>1, <1>2 DEF NextEvent, Types
  <2> QED
    BY <1>1, <1>2, <1>4, <2>1, <2>2 DEF Types
<1>6. ThreadsTracked'
  BY <1>1 DEF IInv, ThreadsTracked
<1>7. ThreadsTimely'
  <2> SUFFICES ASSUME in_order' PROVE ThreadsTimely'
    BY DEF ThreadsTimely
  <2>1. in_order
    BY <1>1 DEF NextEvent
  <2>2. time_ns >= clock /\ clock' = time_ns
    BY <1>1, ClockInOrder
  <2>3. base_time_set => base_time <= clock
    BY <2>1 DEF IInv, ThreadsTimely
  <2>4. \A t \in Threads : Timely(viewer[t], threads[t])
    BY <2>1 DEF IInv, ThreadsTimely
  <2>5. \A t \in Threads : threads[t].last_event_time \in Int
    BY <1>2, ThreadInfoFields, TimeIsInt DEF Types
  <2>6. base_time \in Int
    BY <1>2, TimeIsInt DEF Types
  <2>7. /\ \A a \in Int : a <= clock => a <= time_ns
        /\ \A a \in Int : a <= clock - base_time => a <= time_ns - base_time
    BY <1>3, <2>2, <2>6
  <2>8. base_time_set => base_time <= time_ns
    BY <2>3, <2>6, <2>7
  <2>9. ASSUME NEW t \in Threads, base_time_set
        PROVE  threads[t].last_event_time <= time_ns - base_time
    <3> DEFINE last == threads[t].last_event_time
    <3>1. last \in Int /\ last <= clock - base_time
      BY <2>1, <2>5, <2>9, Zenon DEF IInv, ThreadsTimely
    <3> HIDE DEF last
    <3>2. last <= time_ns - base_time
      BY <2>7, <3>1
    <3> QED
      BY <3>2 DEF last
  <2>10. \A t \in Threads : Timely(viewer'[t], threads'[t])
    BY <1>1, <2>4, Zenon
  <2>11. base_time_set' => base_time' <= clock'
    BY <1>1, <2>2, <2>8
  <2>12. \A t \in Threads : base_time_set' => threads'[t].last_event_time <= clock' - base_time'
    BY <1>1, <2>2, <2>9
  <2> QED
    BY <2>10, <2>11, <2>12, Zenon DEF ThreadsTimely
<1>8. ThreadsWithin'
  <2> SUFFICES ASSUME ~early' PROVE ThreadsWithin'
    BY DEF ThreadsWithin
  <2>1. /\ base_time <= clock
        /\ \A t \in Threads : Within(viewer[t], threads[t], clock - base_time)
    BY <1>1 DEF NextEvent, IInv, ThreadsWithin
  <2>2. base_time \in Int /\ clock' \in Int /\ clock <= clock'
    BY <1>2, <1>3, MaxOfTwo, TimeIsInt DEF Types
  <2> DEFINE limit == clock - base_time
             more  == clock' - base_time
  <2>3. limit \in Int /\ more \in Int /\ limit <= more /\ base_time <= clock'
    <3> DEFINE now == clock'
    <3>1. now \in Int /\ clock <= now
      BY <2>2
    <3> HIDE DEF now
    <3>2. clock - base_time \in Int /\ now - base_time \in Int
          /\ clock - base_time <= now - base_time /\ base_time <= now
      BY <1>3, <2>1, <2>2, <3>1
    <3> QED
      BY <3>2 DEF now
  <2>4. \A t \in Threads : Within(viewer[t], threads[t], limit)
    BY <2>1
  <2> HIDE DEF limit, more
  <2>5. \A t \in Threads : Good(viewer[t], threads[t])
    BY DEF IInv, ThreadsTracked
  <2>6. \A t \in Threads : Within(viewer[t], threads[t], more)
    BY <2>3, <2>4, <2>5, WithinMore
  <2>7. \A t \in Threads : Within(viewer'[t], threads'[t], clock' - base_time')
    BY <1>1, <2>6, Zenon DEF more
  <2>8. base_time' <= clock'
    BY <1>1, <2>3
  <2> QED
    BY <2>7, <2>8, Zenon DEF ThreadsWithin
<1>9. NothingYet'
  <2>1. ~base_time_set => early' = early
    <3> SUFFICES ASSUME ~base_time_set PROVE early' = early
      OBVIOUS
    <3>1. BaseAt(time_ns) = time_ns
      BY DEF BaseAt
    <3>2. ~(time_ns < BaseAt(time_ns))
      BY <1>3, <3>1
    <3>3. early' = (early \/ time_ns < BaseAt(time_ns)) /\ early \in BOOLEAN
      BY <1>1, <1>2 DEF NextEvent, Types
    <3> QED
      BY <3>2, <3>3, Zenon
  <2> QED
    BY <1>1, <2>1, Zenon DEF IInv, NothingYet
<1>10. BalancedAtFinish'
  BY <1>1 DEF IInv, BalancedAtFinish
<1> QED
  BY <1>1, <1>5, <1>6, <1>7, <1>8, <1>9, <1>10 DEF IInv, Output

\* As long as the start symbol is missing, the filter passes nothing.
LEMMA MissingDrops ==
  ASSUME NEW e, F!ShouldPass(e), F!StartSymbolMissing',
         F!StartSymbolMissing => filter_state = "Waiting"
  PROVE  F!StartSymbolMissing /\ filter_state' = "Waiting" /\ ~F!Passes(e)
<1>1. config' = config /\ (saw_start' = saw_start \/ saw_start')
  BY DEF F!ShouldPass, F!StartSlice, F!EndSlice, F!Unmoved, F!filterVars
<1>2. F!StartSymbolMissing /\ ~saw_start'
  BY <1>1 DEF F!StartSymbolMissing
<1>3. filter_state = "Waiting"
  BY <1>2
<1>4. F!Unmoved(e)
  BY <1>2, <1>3 DEF F!ShouldPass, F!StartSlice, F!EndSlice
<1> QED
  BY <1>2, <1>3, <1>4 DEF F!Unmoved, F!filterVars, F!Passes

\* An event of any kind: r is what its handler makes of t's ThreadInfo.
LEMMA FeedKeeps ==
  ASSUME PipelineInv, NEW e, NEW t \in Threads, NEW time_ns \in Times, NEW r,
         F!ShouldPass(e), Keeps(viewer[t], Seen(t, time_ns), r),
         category_id' = category_id,
         Drop(e, time_ns) \/ (HandleAt(t, time_ns, r) /\ Write(e, t, r))
  PROVE  PipelineInv'
<1>1. IInv /\ OutputGood(Output) /\ (F!StartSymbolMissing => filter_state = "Waiting")
  BY DEF PipelineInv, NothingBeforeStart
<1>2. CASE Drop(e, time_ns)
  <2>1. IInv' /\ Output' = Output /\ threads' = threads /\ finished' = finished
    BY <1>1, <1>2, DropKeeps
  <2>2. OutputGood(Output)'
    BY <1>1, <2>1 DEF OutputGood, OutputShape, Resolved
  <2>3. NothingBeforeStart'
    <3> SUFFICES ASSUME F!StartSymbolMissing' PROVE NothingBeforeStart'
      BY DEF NothingBeforeStart
    <3>1. F!StartSymbolMissing /\ filter_state' = "Waiting"
      BY <1>1, MissingDrops
    <3>2. Output = NewOutput /\ (~finished => Untouched)
      BY <3>1 DEF PipelineInv, NothingBeforeStart
    <3> QED
      BY <2>1, <3>1, <3>2 DEF NothingBeforeStart, Untouched, NewOutput
  <2> QED
    BY <2>1, <2>2, <2>3 DEF PipelineInv
<1>3. CASE HandleAt(t, time_ns, r) /\ Write(e, t, r)
  <2> DEFINE written == OfThread(t, r.out)
             out == WriteAll(Output, written)
  <2>1. IInv'
    BY <1>1, <1>3, HandleAtKeeps
  <2>2. r.out \in Seq(OutEvent)
    BY KeepsFields, GoodFields, ThreadInfoFields
  <2>3. OutputGood(out)
    BY <1>1, <2>2, OfThreadType, WriteAllGood
  <2>4. writer' = out.writer /\ symbol_id_cache' = out.cache /\ F!Passes(e)
    BY <1>3 DEF Write, BecomesOutput
  <2> HIDE DEF out
  <2>5. Output' = out
    BY <2>3, <2>4 DEF Output, OutputGood, OutputShape
  <2>6. OutputGood(Output)'
    BY <2>3, <2>5 DEF OutputGood, OutputShape, Resolved
  <2>7. NothingBeforeStart'
    BY <1>1, <2>4, MissingDrops DEF NothingBeforeStart
  <2> QED
    BY <2>1, <2>6, <2>7 DEF PipelineInv
<1> QED
  BY <1>2, <1>3

\* finish() of a thread that has had no event writes nothing.
LEMMA FinishNothing == FinishThread(NewThreadInfo).out = <<>>
<1> DEFINE r == NewThreadInfo
<1>1. /\ r.pending = <<>> /\ r.stack = <<>> /\ r.inactive = <<>> /\ r.out = <<>>
      /\ r.last_event_time = 0
  BY DEF NewThreadInfo
<1>2. r \in ThreadInfo
  BY NewThread
<1> HIDE DEF r
<1>3. OpenFrames(r) = <<>>
  BY <1>1, OpenFramesOfNone
<1>4. ReturnsOf(<<>>) = <<>>
  BY DEF ReturnsOf
<1>5. Flush(r, 0) = r
  BY <1>1 DEF Flush
<1>6. AddEvents(r, 0, ReturnsOf(OpenFrames(r))) = r
  BY <1>3, <1>4 DEF AddEvents
<1> DEFINE c == ClearAllCallstacks(r, 0)
<1>7. c.out = <<>> /\ c.pending = <<>>
  BY <1>1, <1>2, <1>6 DEF ClearAllCallstacks, ThreadInfo
<1> HIDE DEF c
<1>8. Flush(c, 0) = c
  BY <1>7 DEF Flush
<1>9. FinishThread(r) = Flush(c, 0)
  BY <1>1, <1>5 DEF FinishThread, c
<1> QED
  BY <1>7, <1>8, <1>9 DEF r

LEMMA WriteNothing ==
  ASSUME Untouched, NEW order \in SetToSeqs(Threads), NEW out
  PROVE  WriteAll(out, FinishedInOrder(order)) = out
<1> DEFINE n == Cardinality(Threads)
           part == [i \in DOMAIN order |->
                      OfThread(order[i], FinishThread(threads[order[i]]).out)]
<1>1. n \in Nat /\ order \in [1..n -> Threads]
  BY ThreadsAreFinite, FS_CardinalityType DEF SetToSeqs
<1> HIDE DEF n
<1>2. \A t \in Threads : OfThread(t, <<>>) = <<>>
  BY DEF OfThread
<1>3. \A t \in Threads : OfThread(t, FinishThread(threads[t]).out) \in Seq({})
  <2>1. <<>> \in Seq({})
    OBVIOUS
  <2>2. ASSUME NEW t \in Threads PROVE OfThread(t, FinishThread(threads[t]).out) = <<>>
    BY <1>2, FinishNothing DEF Untouched
  <2> QED
    BY <2>1, <2>2
<1>4. part \in [1..n -> Seq({})]
  BY <1>1, <1>3
<1>5. part \in Seq(Seq({}))
  BY <1>1, <1>4, SeqOfRange
<1>6. FlattenSeq(part) \in Seq({})
  BY <1>5, OF!FlattenType DEF OF!FlattenSeq, FlattenSeq
<1>7. FinishedInOrder(order) = <<>>
  BY <1>6 DEF FinishedInOrder
<1> QED
  BY <1>7, WriteAllIsFold, OF!FoldEmpty

LEMMA FinishPipelineKeeps ==
  ASSUME PipelineInv, FinishPipeline
  PROVE  PipelineInv'
<1>1. /\ Finish /\ category_id' = category_id /\ finished' = TRUE /\ ~finished
      /\ config' = config /\ filter_state' = filter_state /\ saw_start' = saw_start
  BY DEF FinishPipeline, Finish, filterVars
<1>2. PICK order \in SetToSeqs(Threads) :
        BecomesOutput(WriteAll(Output, FinishedInOrder(order)))
  BY DEF FinishPipeline
<1> DEFINE out == WriteAll(Output, FinishedInOrder(order))
<1>3. IInv'
  BY <1>1, FinishStep DEF PipelineInv
<1>4. OutputGood(out)
  BY FinishedInOrderType, WriteAllGood DEF PipelineInv
<1>5. F!StartSymbolMissing => out = Output
  BY <1>1, WriteNothing DEF PipelineInv, NothingBeforeStart
<1> HIDE DEF out
<1>6. Output' = out
  BY <1>2, <1>4 DEF Output, OutputGood, OutputShape, BecomesOutput, out
<1>7. OutputGood(Output)'
  BY <1>1, <1>4, <1>6 DEF OutputGood, OutputShape, Resolved
<1>8. NothingBeforeStart'
  <2>1. F!StartSymbolMissing' <=> F!StartSymbolMissing
    BY <1>1 DEF F!StartSymbolMissing
  <2> QED
    BY <1>1, <1>5, <1>6, <2>1 DEF PipelineInv, NothingBeforeStart, NewOutput
<1> QED
  BY <1>3, <1>7, <1>8 DEF PipelineInv

LEMMA StepPipelineInv == PipelineInv /\ [PipelineNext]_pipelineVars => PipelineInv'
<1> SUFFICES ASSUME PipelineInv, [PipelineNext]_pipelineVars PROVE PipelineInv'
  OBVIOUS
<1>1. ASSUME NEW t \in Threads, NEW time_ns \in Times
      PROVE  Good(viewer[t], Seen(t, time_ns)) /\ Now(Seen(t, time_ns), MapTime(time_ns))
  BY SeenInOrder DEF PipelineInv
<1>2. ASSUME NEW t \in Threads, NEW time_ns \in Times, NEW br \in Branches,
             FeedBranch(t, time_ns, br)
      PROVE  PipelineInv'
  <2>1. br \in BranchType
    BY InputAssumption DEF BranchType
  <2>2. Keeps(viewer[t], Seen(t, time_ns), AfterBranch(t, time_ns, br))
    BY <1>1, <2>1, BranchKeeps DEF AfterBranch
  <2> QED
    BY <1>2, <2>2, FeedKeeps DEF FeedBranch, ProcessBranch
<1>3. ASSUME NEW t \in Threads, NEW time_ns \in Times, NEW sample \in Samples,
             FeedStacktrace(t, time_ns, sample)
      PROVE  PipelineInv'
  <2>1. sample \in Seq(Frames)
    BY InputAssumption
  <2>2. Keeps(viewer[t], Seen(t, time_ns), AfterStacktrace(t, time_ns, sample))
    BY <1>1, <2>1, StacktraceKeeps DEF AfterStacktrace
  <2> QED
    BY <1>3, <2>2, FeedKeeps DEF FeedStacktrace, ProcessStacktrace
<1>4. ASSUME NEW t \in Threads, NEW time_ns \in Times, FeedDecodeError(t, time_ns)
      PROVE  PipelineInv'
  <2>1. Keeps(viewer[t], Seen(t, time_ns), AfterDecodeError(t, time_ns))
    BY <1>1, ClearAllCallstacksKeeps DEF AfterDecodeError
  <2> QED
    BY <1>4, <2>1, FeedKeeps DEF FeedDecodeError, DecodeErrorAt
<1>5. CASE FinishPipeline
  BY <1>5, FinishPipelineKeeps
<1>6. CASE UNCHANGED pipelineVars
  <2>1. /\ UNCHANGED vars /\ UNCHANGED filterVars /\ UNCHANGED outputVars
        /\ category_id' = category_id
    BY <1>6 DEF pipelineVars
  <2>2. IInv'
    BY <2>1, NextIInv DEF PipelineInv
  <2>3. Output' = Output
    BY <2>1 DEF outputVars, Output
  <2>4. OutputGood(Output)'
    BY <2>1, <2>3 DEF PipelineInv, OutputGood, OutputShape, Resolved
  <2>5. NothingBeforeStart'
    BY <2>1, <2>3 DEF vars, filterVars, PipelineInv, NothingBeforeStart, Untouched, NewOutput,
                      F!StartSymbolMissing
  <2> QED
    BY <2>2, <2>4, <2>5 DEF PipelineInv
<1> QED
  BY <1>2, <1>3, <1>4, <1>5, <1>6 DEF PipelineNext

LEMMA PipelineInvHolds == PipelineSpec => []PipelineInv
BY InitPipelineInv, StepPipelineInv, PTL DEF PipelineSpec

-----------------------------------------------------------------------------

\* No event of the output is read as another thread's, though a slot may have been given
\* to another thread while the event was pending.  (write_pending, ensure_thread)
THEOREM ThreadsAreKept == PipelineSpec => []EventsKeepTheirThread
<1>1. PipelineInv => EventsKeepTheirThread
  BY DEF PipelineInv, OutputGood, Output, WP!WriterInv, WP!FaithfulIn, EventsKeepTheirThread,
         W!ThreadsFaithful
<1> QED
  BY <1>1, PipelineInvHolds, PTL

\* Until the writer warns, every event names its symbol and its category, and every id in
\* the cache of the symbols is good, whatever was interned in between.
\* (intern_symbol, write_pending)
THEOREM NamesAreKept == PipelineSpec => []EventsKeepTheirNames
<1>1. PipelineInv => EventsKeepTheirNames
  <2> SUFFICES ASSUME PipelineInv, ~writer.string_id_warning_issued
               PROVE  /\ "name" \notin writer.misread
                      /\ W!Decodes(writer, Category, category_id)
                      /\ \A s \in DOMAIN symbol_id_cache : CacheResolves(s)
    BY DEF EventsKeepTheirNames
  <2>1. WP!WriterInv(writer) /\ Resolved(writer, symbol_id_cache)
    BY DEF PipelineInv, OutputGood, Output, WP!Exhausted
  <2>2. "name" \notin writer.misread
    BY <2>1 DEF WP!WriterInv, WP!FaithfulIn
  <2> QED
    BY <2>1, <2>2, SameDecodes DEF Resolved, CacheResolves
<1> QED
  BY <1>1, PipelineInvHolds, PTL

\* When the start symbol was never seen, nothing but the category is in the output.
\* (decode_perf_data, should_pass)
THEOREM WarnedMeansEmpty == PipelineSpec => []WarnedOutputIsEmpty
<1>1. PipelineInv => WarnedOutputIsEmpty
  BY DEF PipelineInv, NothingBeforeStart, WarnedOutputIsEmpty, Output, NewOutput
<1> QED
  BY <1>1, PipelineInvHolds, PTL

-----------------------------------------------------------------------------
(* Symbols that are shortened, token by token *)

CF == INSTANCE FoldTheorems WITH Op <- Collapse
AF == INSTANCE FoldTheorems WITH Op <- OpenAngles

\* The tokens: the provers know of no literal that it is a string.
Blank == " "
Marks == {"<", ">", "...", "::", Blank}
Word == STRING \cup Marks
Tokens == Seq(Word)

LEMMA MoreElements ==
  ASSUME NEW T, NEW U
  PROVE  \A s \in Seq(T) : s \in Seq(T \cup U)
OBVIOUS

LEMMA Words ==
  /\ "<" \in Word /\ ">" \in Word /\ "..." \in Word /\ "::" \in Word /\ Blank \in Word
  /\ \A s \in Seq(STRING) : s \in Tokens
  /\ Blank # "<" /\ Blank # "operator"
<1>1. \A s \in Seq(STRING) : s \in Seq(Word)
  BY MoreElements DEF Word
<1>2. Blank # "<" /\ Blank # "operator"
  BY Zenon DEF Blank
<1>3. /\ "<" \in Word /\ ">" \in Word /\ "..." \in Word /\ "::" \in Word /\ Blank \in Word
  BY DEF Word, Marks
<1> QED
  BY <1>1, <1>2, <1>3 DEF Tokens

Associates(x, y, z) == (x \o y) \o z = x \o (y \o z)

LEMMA TokensAssociate ==
  ASSUME NEW x \in Tokens, NEW y \in Tokens, NEW z \in Tokens
  PROVE  Associates(x, y, z)
BY DEF Tokens, Associates

LEMMA TokensJoin ==
  ASSUME NEW x \in Tokens, NEW y \in Tokens
  PROVE  x \o y \in Tokens
BY DEF Tokens

LEMMA ConcatElements ==
  ASSUME NEW T, NEW s \in Seq(T), NEW t \in Seq(T), NEW u \in Seq(T),
         Len(u) = Len(s) + Len(t),
         \A i \in 1..Len(s) : u[i] = s[i],
         \A i \in 1..Len(t) : u[Len(s) + i] = t[i]
  PROVE  s \o t = u
<1> DEFINE v == s \o t
<1>1. v \in Seq(T) /\ Len(v) = Len(s) + Len(t) /\ Len(s) \in Nat /\ Len(t) \in Nat
  OBVIOUS
<1>2. \A i \in 1..Len(u) : v[i] = u[i]
  <2> SUFFICES ASSUME NEW i \in 1..Len(u) PROVE v[i] = u[i]
    OBVIOUS
  <2>1. CASE i <= Len(s)
    BY <1>1, <2>1
  <2>2. CASE i > Len(s)
    <3>1. i - Len(s) \in 1..Len(t) /\ i = Len(s) + (i - Len(s)) /\ i \in 1..(Len(s) + Len(t))
      BY <1>1, <2>2
    <3>2. v[i] = t[i - Len(s)]
      BY <2>2, <3>1
    <3> QED
      BY <3>1, <3>2
  <2> QED
    BY <1>1, <2>1, <2>2
<1> HIDE DEF v
<1>3. v = u
  BY <1>1, <1>2
<1> QED
  BY <1>3 DEF v

LEMMA ConcatOnes ==
  ASSUME NEW a, NEW b, NEW c
  PROVE  <<a>> \o <<b>> = <<a, b>> /\ <<a>> \o <<b, c>> = <<a, b, c>>
<1> DEFINE T == {a, b, c}
           s == <<a>>
           t == <<b>>
           r == <<b, c>>
           u == <<a, b>>
           v == <<a, b, c>>
<1>1. /\ s \in Seq(T) /\ Len(s) = 1 /\ s[1] = a
      /\ t \in Seq(T) /\ Len(t) = 1 /\ t[1] = b
      /\ r \in Seq(T) /\ Len(r) = 2 /\ r[1] = b /\ r[2] = c
  OBVIOUS
<1>2. u \in Seq(T) /\ Len(u) = 2 /\ u[1] = a /\ u[2] = b
  OBVIOUS
<1>3. v \in Seq(T) /\ Len(v) = 3 /\ v[1] = a /\ v[2] = b /\ v[3] = c
  OBVIOUS
<1> HIDE DEF s, t, r, u, v, T
<1>4. /\ Len(u) = Len(s) + Len(t)
      /\ \A i \in 1..Len(s) : u[i] = s[i]
      /\ \A i \in 1..Len(t) : u[Len(s) + i] = t[i]
  BY <1>1, <1>2
<1>5. /\ Len(v) = Len(s) + Len(r)
      /\ \A i \in 1..Len(s) : v[i] = s[i]
      /\ \A i \in 1..Len(r) : v[Len(s) + i] = r[i]
  BY <1>1, <1>3
<1>6. s \o t = u /\ s \o r = v
  BY <1>1, <1>2, <1>3, <1>4, <1>5, ConcatElements, Zenon
<1> QED
  BY <1>6, Zenon DEF s, t, r, u, v

\* The pieces of a part, however they are put together.
Regroups(x, name, gap, open, dots, close) ==
  x \o (name \o (((gap \o open) \o dots) \o close))
    = ((x \o name) \o gap) \o (open \o (dots \o close))

LEMMA PiecesAssociate ==
  ASSUME NEW x \in Tokens, NEW name \in Tokens, NEW gap \in Tokens,
         NEW open \in Tokens, NEW dots \in Tokens, NEW close \in Tokens
  PROVE  Regroups(x, name, gap, open, dots, close)
<1>1. open \o dots \in Tokens /\ dots \o close \in Tokens /\ x \o name \in Tokens
  BY TokensJoin, Zenon
<1>2. open \o (dots \o close) \in Tokens
  BY <1>1, TokensJoin, Zenon
<1>3. gap \o (open \o (dots \o close)) \in Tokens
  BY <1>2, TokensJoin, Zenon
<1>4. /\ Associates(gap, open, dots) /\ Associates(gap, open \o dots, close)
      /\ Associates(open, dots, close)
  BY <1>1, TokensAssociate, Zenon
<1>5. /\ Associates(x, name, gap \o (open \o (dots \o close)))
      /\ Associates(x \o name, gap, open \o (dots \o close))
  BY <1>1, <1>2, <1>3, TokensAssociate, Zenon
<1>6. ((gap \o open) \o dots) \o close = gap \o (open \o (dots \o close))
  BY <1>4, Zenon DEF Associates
<1> QED
  BY <1>5, <1>6, Zenon DEF Associates, Regroups

\* s ends in the token a.
EndsIn(s, a) == Len(s) >= 1 /\ s[Len(s)] = a

LEMMA PrefixElements ==
  ASSUME NEW T, NEW s \in Seq(T), NEW U, NEW t \in Seq(U)
  PROVE  IsPrefix(s, t) <=> Len(s) <= Len(t) /\ \A i \in 1..Len(s) : s[i] = t[i]
<1> SUFFICES ASSUME Len(s) <= Len(t)
             PROVE  SubSeq(s, 1, Len(s)) = SubSeq(t, 1, Len(s))
                      <=> \A i \in 1..Len(s) : s[i] = t[i]
  BY DEF IsPrefix
<1> DEFINE a == SubSeq(s, 1, Len(s))
           b == SubSeq(t, 1, Len(s))
<1>1. /\ a \in Seq(T) /\ b \in Seq(U) /\ Len(a) = Len(s) /\ Len(b) = Len(s) /\ Len(s) \in Nat
      /\ \A i \in 1..Len(s) : a[i] = s[i] /\ b[i] = t[i]
  OBVIOUS
<1> HIDE DEF a, b
<1>2. (\A i \in 1..Len(s) : a[i] = b[i]) => a = b
  BY <1>1
<1>3. a = b <=> \A i \in 1..Len(s) : s[i] = t[i]
  BY <1>1, <1>2
<1> QED
  BY <1>3 DEF a, b

\* The same from the end.
LEMMA SuffixElements ==
  ASSUME NEW T, NEW s \in Seq(T), NEW U, NEW t \in Seq(U)
  PROVE  IsSuffix(s, t) <=>
           Len(s) <= Len(t) /\ \A i \in 1..Len(s) : s[Len(s) + 1 - i] = t[Len(t) + 1 - i]
<1> DEFINE a == Reverse(s)
           b == Reverse(t)
<1>1. /\ a \in Seq(T) /\ Len(a) = Len(s) /\ Len(s) \in Nat
      /\ \A i \in 1..Len(s) : a[i] = s[Len(s) + 1 - i]
  <2>1. \A i \in 1..Len(s) : (Len(s) - i) + 1 = Len(s) + 1 - i /\ (Len(s) - i) + 1 \in 1..Len(s)
    OBVIOUS
  <2> QED
    BY <2>1 DEF Reverse
<1>2. /\ b \in Seq(U) /\ Len(b) = Len(t) /\ Len(t) \in Nat
      /\ \A i \in 1..Len(t) : b[i] = t[Len(t) + 1 - i]
  <2>1. \A i \in 1..Len(t) : (Len(t) - i) + 1 = Len(t) + 1 - i /\ (Len(t) - i) + 1 \in 1..Len(t)
    OBVIOUS
  <2> QED
    BY <2>1 DEF Reverse
<1>3. IsSuffix(s, t) <=> IsPrefix(a, b)
  BY DEF IsSuffix
<1> HIDE DEF a, b
<1>4. IsPrefix(a, b) <=> Len(s) <= Len(t) /\ \A i \in 1..Len(s) : a[i] = b[i]
  BY <1>1, <1>2, PrefixElements, SMTT(30)
<1>5. Len(s) <= Len(t) =>
        \A i \in 1..Len(s) : a[i] = s[Len(s) + 1 - i] /\ b[i] = t[Len(t) + 1 - i]
  BY <1>1, <1>2
<1> QED
  BY <1>3, <1>4, <1>5

LEMMA EndsInOne ==
  ASSUME NEW s \in Tokens, NEW a
  PROVE  IsSuffix(<<a>>, s) <=> EndsIn(s, a)
<1> DEFINE one == <<a>>
<1>1. one \in Seq({a}) /\ Len(one) = 1 /\ one[1] = a
  OBVIOUS
<1>2. s \in Seq(Word) /\ Len(s) \in Nat
  BY DEF Tokens
<1> HIDE DEF one
<1>3. IsSuffix(one, s) <=>
        Len(one) <= Len(s) /\ \A i \in 1..Len(one) : one[Len(one) + 1 - i] = s[Len(s) + 1 - i]
  BY <1>1, <1>2, SuffixElements, Zenon
<1>4. IsSuffix(one, s) <=> 1 <= Len(s) /\ one[1] = s[Len(s)]
  <2>1. \A i \in 1..1 : i = 1
    OBVIOUS
  <2>2. 1 \in 1..1 /\ 1 + 1 - 1 = 1 /\ Len(s) + 1 - 1 = Len(s)
    BY <1>2
  <2> QED
    BY <1>1, <1>3, <2>1, <2>2
<1> QED
  BY <1>1, <1>2, <1>4 DEF EndsIn, one

LEMMA EndsInTwo ==
  ASSUME NEW s \in Tokens, NEW a, NEW b
  PROVE  IsSuffix(<<a, b>>, s) <=> Len(s) >= 2 /\ s[Len(s)] = b /\ s[Len(s) - 1] = a
<1> DEFINE two == <<a, b>>
           ends == {a, b}
<1>1. two \in Seq(ends) /\ Len(two) = 2 /\ two[1] = a /\ two[2] = b
  OBVIOUS
<1>2. s \in Seq(Word) /\ Len(s) \in Nat
  BY DEF Tokens
<1> HIDE DEF two, ends
<1>3. IsSuffix(two, s) <=>
        Len(two) <= Len(s) /\ \A i \in 1..Len(two) : two[Len(two) + 1 - i] = s[Len(s) + 1 - i]
  BY <1>1, <1>2, SuffixElements, Zenon
<1>4. IsSuffix(two, s) <=> 2 <= Len(s) /\ two[2] = s[Len(s)] /\ two[1] = s[Len(s) - 1]
  <2>1. \A i \in 1..2 : i = 1 \/ i = 2
    OBVIOUS
  <2>2. /\ 1 \in 1..2 /\ 2 \in 1..2 /\ 2 + 1 - 1 = 2 /\ 2 + 1 - 2 = 1
        /\ Len(s) + 1 - 1 = Len(s) /\ Len(s) + 1 - 2 = Len(s) - 1
    BY <1>2
  <2> QED
    BY <1>1, <1>3, <2>1, <2>2
<1> QED
  BY <1>1, <1>2, <1>4 DEF two

\* What the last tokens of a symbol tell.
LEMMA OperatorName ==
  ASSUME NEW s \in Tokens
  PROVE  /\ PrecededByOperator(s) <=> EndsIn(s, "operator")
         /\ InOperatorName(s) <=>
              \/ EndsIn(s, "operator")
              \/ Len(s) >= 2 /\ s[Len(s)] = "<" /\ s[Len(s) - 1] = "operator"
BY EndsInOne, EndsInTwo DEF PrecededByOperator, InOperatorName

\* What comes before a symbol does not change that.
LEMMA OperatorNameStays ==
  ASSUME NEW x \in Tokens, NEW s \in Tokens
  PROVE  /\ PrecededByOperator(s) => PrecededByOperator(x \o s)
         /\ InOperatorName(s) => InOperatorName(x \o s)
<1> DEFINE y == x \o s
<1>1. /\ y \in Tokens /\ Len(y) = Len(x) + Len(s) /\ Len(x) \in Nat /\ Len(s) \in Nat
      /\ \A i \in 1..Len(s) : y[Len(x) + i] = s[i]
  BY DEF Tokens
<1> HIDE DEF y
<1>2. Len(s) >= 1 => y[Len(y)] = s[Len(s)]
  BY <1>1
<1>3. Len(s) >= 2 => y[Len(y) - 1] = s[Len(s) - 1]
  <2> SUFFICES ASSUME Len(s) >= 2 PROVE y[Len(y) - 1] = s[Len(s) - 1]
    OBVIOUS
  <2>1. Len(s) - 1 \in 1..Len(s) /\ Len(y) - 1 = Len(x) + (Len(s) - 1)
    BY <1>1
  <2> QED
    BY <1>1, <2>1
<1>4. (Len(s) >= 1 => Len(y) >= 1) /\ (Len(s) >= 2 => Len(y) >= 2)
  BY <1>1
<1>5. s \in Tokens /\ y \in Tokens
  BY <1>1
<1>6. EndsIn(s, "operator") => EndsIn(y, "operator")
  BY <1>2, <1>4 DEF EndsIn
<1>7. PrecededByOperator(s) => PrecededByOperator(y)
  BY <1>5, <1>6, OperatorName
<1>8. InOperatorName(s) => InOperatorName(y)
  <2>1. Len(s) >= 2 => Len(s) >= 1
    BY <1>1
  <2> QED
    BY <1>2, <1>3, <1>4, <1>5, <1>6, <2>1, OperatorName
<1> QED
  BY <1>7, <1>8 DEF y

\* The state of collapse_templates.
At(x, n) == [result |-> x, angle_depth |-> n]

LEMMA CollapsePlain ==
  ASSUME NEW x, NEW c, c # "<" \/ InOperatorName(x)
  PROVE  Collapse(At(x, 0), c) = At(Append(x, c), 0)
BY DEF Collapse, At

LEMMA CollapseOpens ==
  ASSUME NEW x, ~InOperatorName(x)
  PROVE  Collapse(At(x, 0), "<") = At(x \o <<"<", "...", ">">>, 1)
BY DEF Collapse, At

LEMMA CollapseInside ==
  ASSUME NEW x, NEW n \in Nat \ {0}, NEW c
  PROVE  Collapse(At(x, n), c) = At(x, OpenAngles(n, c)) /\ OpenAngles(n, c) \in Nat
<1>1. OpenAngles(n, c) \in Nat
  BY DEF OpenAngles
<1>2. CASE c = "<"
  BY <1>2, <1>1 DEF Collapse, At, OpenAngles
<1>3. CASE c = ">"
  BY <1>3, <1>1 DEF Collapse, At, OpenAngles
<1>4. CASE c \notin {"<", ">"}
  BY <1>4, <1>1 DEF Collapse, At, OpenAngles
<1> QED
  BY <1>1, <1>2, <1>3, <1>4

\* One more token of s.
LEMMA OneMore ==
  ASSUME NEW T, NEW s \in Seq(T), NEW n \in Nat, n + 1 <= Len(s)
  PROVE  /\ SubSeq(s, 1, n) \in Seq(T) /\ s[n + 1] \in T /\ n + 1 \in DOMAIN s
         /\ SubSeq(s, 1, n + 1) = Append(SubSeq(s, 1, n), s[n + 1])
         /\ SubSeq(s, 1, (n + 1) - 1) = SubSeq(s, 1, n)
  OBVIOUS

LEMMA NoneAndAll ==
  ASSUME NEW T, NEW s \in Seq(T)
  PROVE  SubSeq(s, 1, 0) = <<>> /\ SubSeq(s, 1, Len(s)) = s /\ Len(s) \in Nat
  OBVIOUS

\* At depth 0, what has its brackets in the names of operators only is kept.
LEMMA NameCollapses ==
  ASSUME NEW x \in Tokens, NEW s \in Tokens,
         \A i \in DOMAIN s : s[i] = "<" => InOperatorName(SubSeq(s, 1, i - 1))
  PROVE  CF!Fold(At(x, 0), s) = At(x \o s, 0)
<1> DEFINE Start(n) == SubSeq(s, 1, n)
           S == {n \in Nat : n <= Len(s) => CF!Fold(At(x, 0), Start(n)) = At(x \o Start(n), 0)}
<1>1. /\ s \in Seq(Word) /\ x \in Seq(Word)
      /\ Start(0) = <<>> /\ Start(Len(s)) = s /\ Len(s) \in Nat
  BY NoneAndAll DEF Tokens
<1>2. 0 \in S
  <2>1. x \o <<>> = x
    BY <1>1
  <2> QED
    BY <1>1, <2>1, CF!FoldEmpty
<1>3. ASSUME NEW n \in Nat, n \in S PROVE n + 1 \in S
  <2> SUFFICES ASSUME n + 1 <= Len(s)
               PROVE  CF!Fold(At(x, 0), Start(n + 1)) = At(x \o Start(n + 1), 0)
    OBVIOUS
  <2> DEFINE c == s[n + 1]
             y == x \o Start(n)
  <2>1. /\ Start(n) \in Seq(Word) /\ c \in Word /\ n + 1 \in DOMAIN s
        /\ Start(n + 1) = Append(Start(n), c) /\ SubSeq(s, 1, (n + 1) - 1) = Start(n)
    BY <1>1, OneMore
  <2>2. CF!Fold(At(x, 0), Start(n)) = At(y, 0)
    BY <1>1, <1>3
  <2>3. c # "<" \/ InOperatorName(y)
    <3>1. c = "<" => InOperatorName(Start(n))
      BY <2>1
    <3> HIDE DEF Start
    <3>2. Start(n) \in Tokens
      BY <2>1 DEF Tokens
    <3> QED
      BY <3>1, <3>2, OperatorNameStays
  <2> HIDE DEF Start, c
  <2>4. x \o Append(Start(n), c) = Append(y, c)
    BY <1>1, <2>1
  <2> HIDE DEF y
  <2>5. CF!Fold(At(x, 0), Append(Start(n), c)) = Collapse(At(y, 0), c)
    BY <2>1, <2>2, CF!FoldAppend
  <2> QED
    BY <2>1, <2>3, <2>4, <2>5, CollapsePlain
<1> HIDE DEF S
<1>4. \A n \in Nat : n \in S
  BY <1>2, <1>3, CF!Induction
<1>5. Len(s) \in S
  BY <1>1, <1>4
<1> HIDE DEF Start
<1>6. CF!Fold(At(x, 0), Start(Len(s))) = At(x \o Start(Len(s)), 0)
  BY <1>1, <1>5 DEF S
<1> QED
  BY <1>1, <1>6

\* AnglesAfter is the fold that FoldTheorems is about.
LEMMA AnglesAfterIsFold ==
  ASSUME NEW depth, NEW s
  PROVE  AnglesAfter(depth, s) = AF!Fold(depth, s)
BY DEF AnglesAfter, AF!Fold, AF!FoldLeft, FoldLeft, AF!MapThenFoldSet, MapThenFoldSet,
       AF!Max, Max

LEMMA CollapseIsFold ==
  ASSUME NEW s
  PROVE  CollapseTemplates(s) = CF!Fold(At(<<>>, 0), s).result
BY DEF CollapseTemplates, At, CF!Fold, CF!FoldLeft, FoldLeft, CF!MapThenFoldSet, MapThenFoldSet,
       CF!Max, Max

\* Template arguments are left out.
LEMMA ArgumentsSkipped ==
  ASSUME NEW x, NEW s \in Tokens, AreArguments(s)
  PROVE  CF!Fold(At(x, 1), s) = At(x, 1)
<1> DEFINE Start(n) == SubSeq(s, 1, n)
           depth(n) == AF!Fold(1, Start(n))
           S == {n \in Nat : n <= Len(s) => /\ CF!Fold(At(x, 1), Start(n)) = At(x, depth(n))
                                            /\ depth(n) \in Nat \ {0}}
<1>1. s \in Seq(Word) /\ Start(0) = <<>> /\ Start(Len(s)) = s /\ Len(s) \in Nat
  BY NoneAndAll DEF Tokens
<1>2. 0 \in S
  <2>1. CF!Fold(At(x, 1), Start(0)) = At(x, 1) /\ depth(0) = 1
    BY <1>1, CF!FoldEmpty, AF!FoldEmpty, Zenon
  <2> HIDE DEF Start, depth
  <2> QED
    BY <2>1
<1>3. ASSUME NEW n \in Nat, n \in S PROVE n + 1 \in S
  <2> SUFFICES ASSUME n + 1 <= Len(s)
               PROVE  /\ CF!Fold(At(x, 1), Start(n + 1)) = At(x, depth(n + 1))
                      /\ depth(n + 1) \in Nat \ {0}
    OBVIOUS
  <2> DEFINE c == s[n + 1]
  <2>1. /\ Start(n) \in Seq(Word) /\ c \in Word /\ n + 1 \in DOMAIN s
        /\ Start(n + 1) = Append(Start(n), c)
    BY <1>1, OneMore
  <2>2. CF!Fold(At(x, 1), Start(n)) = At(x, depth(n)) /\ depth(n) \in Nat \ {0}
    BY <1>1, <1>3
  <2>3. depth(n + 1) > 0
    BY <2>1, AnglesAfterIsFold DEF AreArguments
  <2> HIDE DEF Start, c
  <2>4. AF!Fold(1, Append(Start(n), c)) = OpenAngles(AF!Fold(1, Start(n)), c)
    BY <2>1, AF!FoldAppend
  <2>5. CF!Fold(At(x, 1), Append(Start(n), c)) = Collapse(CF!Fold(At(x, 1), Start(n)), c)
    BY <2>1, CF!FoldAppend
  <2>6. depth(n + 1) = OpenAngles(depth(n), c)
    BY <2>1, <2>4
  <2> HIDE DEF depth
  <2>7. Collapse(At(x, depth(n)), c) = At(x, depth(n + 1)) /\ depth(n + 1) \in Nat
    BY <2>2, <2>6, CollapseInside
  <2>8. CF!Fold(At(x, 1), Start(n + 1)) = At(x, depth(n + 1))
    BY <2>1, <2>2, <2>5, <2>7, Zenon
  <2> QED
    BY <2>3, <2>7, <2>8
<1> HIDE DEF S
<1>4. \A n \in Nat : n \in S
  BY <1>2, <1>3, CF!Induction
<1>5. Len(s) \in S
  BY <1>1, <1>4
<1>6. CF!Fold(At(x, 1), Start(Len(s))) = At(x, AF!Fold(1, Start(Len(s))))
  <2> HIDE DEF Start
  <2> QED
    BY <1>1, <1>5 DEF S
<1>7. CF!Fold(At(x, 1), s) = At(x, AF!Fold(1, s))
  BY <1>1, <1>6, Zenon
<1> QED
  BY <1>7, AnglesAfterIsFold DEF AreArguments

-----------------------------------------------------------------------------
(* The parts of a path *)

\* A part as it is shown.
ShortPart(p) ==
  IF p.arguments = <<>> THEN p.name
  ELSE p.name \o Arguments([p EXCEPT !.arguments = <<"...">>])

IsPart(p) ==
  p \in [name : Tokens, arguments : Tokens] /\ IsName(p.name) /\ AreArguments(p.arguments)

LEMMA FoldOne ==
  ASSUME NEW base, NEW c
  PROVE  CF!Fold(base, <<c>>) = Collapse(base, c)
<1> DEFINE none == <<>>
           T == {c}
<1>1. none \in Seq(T) /\ c \in T /\ <<c>> = Append(none, c)
  OBVIOUS
<1>2. CF!Fold(base, none) = base
  BY CF!FoldEmpty
<1> HIDE DEF none, T
<1>3. CF!Fold(base, Append(none, c)) = Collapse(CF!Fold(base, none), c)
  BY <1>1, CF!FoldAppend
<1> QED
  BY <1>1, <1>2, <1>3, Zenon

\* What separates the arguments from a name that ends in "<".
Space(name) == IF Last(name) = "<" THEN <<Blank>> ELSE <<>>

LEMMA NameEnds ==
  ASSUME NEW x \in Tokens, NEW name \in Tokens, IsName(name)
  PROVE  /\ Space(name) \in Tokens /\ x \o name \in Tokens
         /\ (x \o name) \o Space(name) \in Tokens
         /\ ~EndsIn(x \o name, "operator")
         /\ ~InOperatorName((x \o name) \o Space(name))
<1> DEFINE y == x \o name
           last == Last(name)
<1>1. /\ y \in Seq(Word) /\ Len(y) = Len(x) + Len(name) /\ Len(x) \in Nat
      /\ Len(name) \in Nat \ {0} /\ y[Len(y)] = last
  BY DEF Tokens, IsName, Last
<1>2. last # "operator"
  <2>1. ~EndsIn(name, "operator")
    BY OperatorName DEF IsName
  <2> QED
    BY <1>1, <2>1 DEF EndsIn, Last
<1> HIDE DEF y, last
<1>3. ~EndsIn(y, "operator")
  BY <1>1, <1>2 DEF EndsIn
<1>4. CASE last = "<"
  <2> DEFINE z == y \o <<Blank>>
  <2>1. Space(name) = <<Blank>>
    BY <1>4 DEF Space, last
  <2>2. z \in Seq(Word) /\ z[Len(z)] = Blank /\ <<Blank>> \in Seq(Word)
    <3>1. z = Append(y, Blank)
      BY <1>1, AppendIsConcat, Words
    <3>2. Append(y, Blank) \in Seq(Word) /\ Append(y, Blank)[Len(Append(y, Blank))] = Blank
      BY <1>1, Words
    <3>3. <<Blank>> \in Seq(Word)
      BY Words
    <3> QED
      BY <3>1, <3>2, <3>3
  <2> HIDE DEF z
  <2>3. ~InOperatorName(z)
    BY <2>2, OperatorName, Words DEF EndsIn, Tokens
  <2> QED
    BY <1>1, <1>3, <2>1, <2>2, <2>3, Zenon DEF Tokens, y, z
<1>5. CASE last # "<"
  <2>1. Space(name) = <<>> /\ y \o <<>> = y /\ <<>> \in Seq(Word)
    BY <1>1, <1>5 DEF Space, last
  <2>2. ~InOperatorName(y)
    BY <1>1, <1>2, <1>5, OperatorName DEF EndsIn, Tokens
  <2> QED
    BY <1>1, <1>3, <2>1, <2>2, Zenon DEF Tokens, y
<1> QED
  BY <1>4, <1>5

LEMMA PartCollapses ==
  ASSUME NEW x \in Tokens, NEW p, IsPart(p)
  PROVE  /\ p.name \o Arguments(p) \in Tokens /\ ShortPart(p) \in Tokens
         /\ CF!Fold(At(x, 0), p.name \o Arguments(p)) = At(x \o ShortPart(p), 0)
<1> DEFINE name == p.name
           arguments == p.arguments
           y == x \o name
<1>1. /\ name \in Tokens /\ arguments \in Tokens /\ IsName(name) /\ AreArguments(arguments)
      /\ x \in Seq(Word) /\ name \in Seq(Word) /\ arguments \in Seq(Word)
  BY DEF IsPart, Tokens
<1>2. CF!Fold(At(x, 0), name) = At(y, 0) /\ y \in Seq(Word)
  BY <1>1, NameCollapses DEF IsName
<1>3. CASE arguments = <<>>
  <2>1. Arguments(p) = <<>> /\ ShortPart(p) = name
    BY <1>3 DEF Arguments, ShortPart
  <2>2. name \o <<>> = name
    BY <1>1
  <2> QED
    BY <1>1, <1>2, <2>1, <2>2, Zenon
<1>4. CASE arguments # <<>>
  <2> DEFINE gap == Space(name)
             open == <<"<">>
             dots == <<"...">>
             close == <<">">>
             mark == <<"<", "...", ">">>
             z == y \o gap
             w == z \o mark
             a == Arguments(p)
             d == Arguments([p EXCEPT !.arguments = dots])
  <2>1. a = gap \o open \o arguments \o close
    BY <1>4, Zenon DEF Arguments, Space, Blank
  <2>2. d = gap \o open \o dots \o close
    <3> DEFINE q == [p EXCEPT !.arguments = dots]
    <3>1. q.name = name /\ q.arguments = dots /\ dots # <<>>
      BY DEF IsPart
    <3> HIDE DEF q, dots
    <3>2. Arguments(q) = gap \o open \o dots \o close
      BY <3>1, Zenon DEF Arguments, Space, Blank
    <3> QED
      BY <3>2 DEF q
  <2>3. ShortPart(p) = name \o d
    BY <1>4 DEF ShortPart
  <2>4. /\ gap \in Seq(Word) /\ z \in Seq(Word) /\ z \in Tokens /\ y \in Tokens
        /\ gap \in Tokens /\ ~InOperatorName(z)
    BY <1>1, NameEnds DEF Tokens
  <2>5. /\ open \in Seq(Word) /\ dots \in Seq(Word) /\ close \in Seq(Word)
        /\ mark \in Seq(Word) /\ w \in Seq(Word) /\ mark = open \o (dots \o close)
    <3>1. /\ open \in Seq(Word) /\ dots \in Seq(Word) /\ close \in Seq(Word)
          /\ mark \in Seq(Word)
      BY Words
    <3>2. dots \o close = <<"...", ">">>
      BY ConcatOnes, Zenon
    <3>3. open \o <<"...", ">">> = mark
      BY ConcatOnes, Zenon
    <3> HIDE DEF open, dots, close, mark, z
    <3>4. z \o mark \in Seq(Word)
      BY <2>4, <3>1
    <3> QED
      BY <3>1, <3>2, <3>3, <3>4, Zenon
  <2>6. CF!Fold(At(y, 0), gap) = At(z, 0)
    <3>1. \A i \in DOMAIN gap : gap[i] # "<"
      <4>1. \A i \in DOMAIN <<>> : FALSE
        OBVIOUS
      <4>2. \A i \in DOMAIN <<Blank>> : <<Blank>>[i] # "<"
        BY Words
      <4> QED
        BY <4>1, <4>2 DEF Space
    <3> QED
      BY <2>4, <3>1, NameCollapses
  <2>7. CF!Fold(At(z, 0), open) = At(w, 1)
    BY <2>4, FoldOne, CollapseOpens
  <2>8. CF!Fold(At(w, 1), arguments) = At(w, 1)
    BY <1>1, ArgumentsSkipped
  <2>9. CF!Fold(At(w, 1), close) = At(w, 0)
    <3>1. Collapse(At(w, 1), ">") = At(w, OpenAngles(1, ">"))
      BY CollapseInside
    <3>2. OpenAngles(1, ">") = 0
      BY DEF OpenAngles
    <3> QED
      BY <3>1, <3>2, FoldOne
  <2> HIDE DEF a, d, gap, open, dots, close, mark, w, z, y, name, arguments
  <2>10. CF!Fold(At(y, 0), gap \o open) = At(w, 1)
    BY <2>4, <2>5, <2>6, <2>7, CF!FoldConcat
  <2>11. CF!Fold(At(y, 0), gap \o open \o arguments) = At(w, 1)
    <3>1. gap \o open \in Seq(Word)
      BY <2>4, <2>5, ConcatType
    <3> DEFINE b == gap \o open
    <3>3. b \in Seq(Word)
      BY <3>1
    <3> HIDE DEF b
    <3>2. CF!Fold(At(y, 0), b \o arguments) = CF!Fold(CF!Fold(At(y, 0), b), arguments)
      BY <1>1, <3>3, CF!FoldConcat
    <3> QED
      BY <2>8, <2>10, <3>2, Zenon DEF b
  <2>12. CF!Fold(At(y, 0), gap \o open \o arguments \o close) = At(w, 0)
    <3> DEFINE b == gap \o open \o arguments
    <3>1. b \in Seq(Word)
      BY <1>1, <2>4, <2>5
    <3> HIDE DEF b
    <3>2. CF!Fold(At(y, 0), b \o close) = CF!Fold(CF!Fold(At(y, 0), b), close)
      BY <2>5, <3>1, CF!FoldConcat
    <3> QED
      BY <2>9, <2>11, <3>2, Zenon DEF b
  <2>13. a \in Seq(Word) /\ d \in Seq(Word)
    <3>1. gap \o open \o arguments \o close \in Seq(Word)
      BY <1>1, <2>4, <2>5
    <3>2. gap \o open \o dots \o close \in Seq(Word)
      BY <2>4, <2>5
    <3> QED
      BY <2>1, <2>2, <3>1, <3>2
  <2>14. CF!Fold(At(x, 0), name \o a) = At(w, 0)
    <3>1. CF!Fold(At(x, 0), name \o a) = CF!Fold(CF!Fold(At(x, 0), name), a)
      BY <1>1, <2>13, CF!FoldConcat
    <3> QED
      BY <1>2, <2>1, <2>12, <3>1, Zenon
  <2>15. x \o (name \o d) = w
    <3>1. /\ x \in Tokens /\ name \in Tokens /\ gap \in Tokens /\ open \in Tokens
          /\ dots \in Tokens /\ close \in Tokens
      BY <1>1, <2>4, <2>5 DEF Tokens
    <3>2. Regroups(x, name, gap, open, dots, close)
      BY <3>1, PiecesAssociate, Zenon
    <3> QED
      BY <2>2, <2>5, <3>2, Zenon DEF w, z, y, Regroups
  <2>16. name \o a \in Tokens /\ name \o d \in Tokens
    BY <1>1, <2>13, TokensJoin DEF Tokens
  <2> QED
    BY <2>3, <2>14, <2>15, <2>16, Zenon DEF a, name
<1> QED
  BY <1>3, <1>4

\* Arguments are shown by what stands for them.
LEMMA ShortPartMarks ==
  ASSUME NEW p, IsPart(p), p.arguments # <<>>
  PROVE  ShortPart(p) = p.name \o (Space(p.name) \o <<"<", "...", ">">>)
<1> DEFINE gap == Space(p.name)
           open == <<"<">>
           dots == <<"...">>
           close == <<">">>
           mark == <<"<", "...", ">">>
           q == [p EXCEPT !.arguments = dots]
<1>1. /\ gap \in Tokens /\ open \in Seq(Word) /\ dots \in Seq(Word) /\ close \in Seq(Word)
      /\ mark = open \o (dots \o close)
  <2>1. gap \in Tokens
    <3>1. <<>> \in Tokens /\ p.name \in Tokens /\ IsName(p.name)
      BY DEF Tokens, IsPart
    <3> QED
      BY <3>1, NameEnds
  <2>2. dots \o close = <<"...", ">">>
    BY ConcatOnes, Zenon
  <2>3. open \o <<"...", ">">> = mark
    BY ConcatOnes, Zenon
  <2>4. open \in Seq(Word) /\ dots \in Seq(Word) /\ close \in Seq(Word)
    BY Words
  <2> HIDE DEF gap, open, dots, close, mark
  <2> QED
    BY <2>1, <2>2, <2>3, <2>4, Zenon
<1>2. q.name = p.name /\ q.arguments = dots /\ dots # <<>>
  BY DEF IsPart
<1>3. ShortPart(p) = p.name \o Arguments(q)
  BY Zenon DEF ShortPart
<1> HIDE DEF q, dots
<1>4. Arguments(q) = ((gap \o open) \o dots) \o close
  BY <1>2, Zenon DEF Arguments, Space, Blank
<1> HIDE DEF gap, open, close, mark
<1>5. ((gap \o open) \o dots) \o close = gap \o (open \o (dots \o close))
  <2>1. open \in Tokens /\ dots \in Tokens /\ close \in Tokens
    BY <1>1 DEF Tokens
  <2>2. open \o dots \in Tokens
    BY <2>1, TokensJoin, Zenon
  <2>3. /\ Associates(gap, open, dots) /\ Associates(gap, open \o dots, close)
        /\ Associates(open, dots, close)
    BY <1>1, <2>1, <2>2, TokensAssociate, Zenon
  <2> QED
    BY <2>3, Zenon DEF Associates
<1> QED
  BY <1>1, <1>3, <1>4, <1>5, Zenon DEF gap, mark

-----------------------------------------------------------------------------
(* Names and parameter lists in the result *)

\* The brackets before sym[i].
Before(sym, i, tokens) == Cardinality({j \in 1..(i - 1) : sym[j] \in tokens})

LEMMA BeforeStep ==
  ASSUME NEW sym, NEW i \in Nat \ {0}, NEW tokens
  PROVE  /\ Before(sym, 1, tokens) = 0
         /\ Before(sym, i, tokens) \in Nat
         /\ Before(sym, i + 1, tokens)
              = Before(sym, i, tokens) + (IF sym[i] \in tokens THEN 1 ELSE 0)
<1> DEFINE S == {j \in 1..(i - 1) : sym[j] \in tokens}
           R == {j \in 1..((i + 1) - 1) : sym[j] \in tokens}
<1>1. IsFiniteSet(S) /\ Cardinality(S) \in Nat
  <2>1. IsFiniteSet(1..(i - 1)) /\ S \in SUBSET (1..(i - 1))
    BY FS_Interval
  <2>2. IsFiniteSet(S)
    BY <2>1, FS_Subset
  <2> QED
    BY <2>2, FS_CardinalityType
<1>2. {j \in 1..(1 - 1) : sym[j] \in tokens} = {}
  OBVIOUS
<1>3. sym[i] \in tokens => R = S \cup {i} /\ i \notin S
  OBVIOUS
<1>4. sym[i] \notin tokens => R = S
  OBVIOUS
<1>5. Cardinality({}) = 0
  BY FS_EmptySet
<1> HIDE DEF S, R
<1>6. Cardinality(R) = Cardinality(S) + (IF sym[i] \in tokens THEN 1 ELSE 0)
  <2>1. CASE sym[i] \in tokens
    <3>1. Cardinality(S \cup {i}) = Cardinality(S) + 1
      BY <1>1, <1>3, <2>1, FS_AddElement, Zenon
    <3> QED
      BY <1>3, <2>1, <3>1
  <2>2. CASE sym[i] \notin tokens
    BY <1>1, <1>4, <2>2
  <2> QED
    BY <2>1, <2>2
<1>7. Before(sym, 1, tokens) = 0
  BY <1>2, <1>5, Zenon DEF Before
<1>8. Before(sym, i, tokens) = Cardinality(S) /\ Before(sym, i + 1, tokens) = Cardinality(R)
  BY DEF Before, S, R
<1> QED
  BY <1>1, <1>6, <1>7, <1>8

\* How a token changes the depth.
Opening == {"{", "["}
Closing == {"}", "]"}
Weight(c) == (IF c \in Opening THEN 1 ELSE 0) - (IF c \in Closing THEN 1 ELSE 0)

\* Tokens that open and close nothing.  Two of the brackets in one obligation
\* are too much for the SMT backend, so they are kept in these definitions.
Plain(c) == c # "(" /\ c \notin Opening /\ c \notin Closing

LEMMA PlainTokens == Plain("<") /\ Plain(">") /\ Plain("...") /\ Plain("::") /\ Plain(Blank)
<1>1. Plain("<")
  BY Zenon DEF Plain, Opening, Closing
<1>2. Plain(">")
  BY Zenon DEF Plain, Opening, Closing
<1>3. Plain("...")
  BY Zenon DEF Plain, Opening, Closing
<1>4. Plain("::")
  BY Zenon DEF Plain, Opening, Closing
<1>5. Plain(Blank)
  BY Zenon DEF Plain, Opening, Closing, Blank
<1> QED
  BY <1>1, <1>2, <1>3, <1>4, <1>5, Zenon

LEMMA DepthIsDifference ==
  \A sym, i : DepthAt(sym, i) = Before(sym, i, Opening) - Before(sym, i, Closing)
BY Zenon DEF DepthAt, Quantify, Before, Opening, Closing

LEMMA DepthStep ==
  ASSUME NEW sym, NEW i \in Nat \ {0}
  PROVE  /\ DepthAt(sym, 1) = 0 /\ DepthAt(sym, i) \in Int /\ Weight(sym[i]) \in Int
         /\ DepthAt(sym, i + 1) = DepthAt(sym, i) + Weight(sym[i])
<1> DEFINE opening == Opening
           closing == Closing
<1>1. \A n : DepthAt(sym, n) = Before(sym, n, opening) - Before(sym, n, closing)
  BY DepthIsDifference, Zenon
<1>2. Weight(sym[i]) = (IF sym[i] \in opening THEN 1 ELSE 0) - (IF sym[i] \in closing THEN 1 ELSE 0)
  BY Zenon DEF Weight
<1> HIDE DEF opening, closing
<1>3. /\ Before(sym, 1, opening) = 0 /\ Before(sym, i, opening) \in Nat
      /\ Before(sym, i + 1, opening)
           = Before(sym, i, opening) + (IF sym[i] \in opening THEN 1 ELSE 0)
  BY BeforeStep
<1>4. /\ Before(sym, 1, closing) = 0 /\ Before(sym, i, closing) \in Nat
      /\ Before(sym, i + 1, closing)
           = Before(sym, i, closing) + (IF sym[i] \in closing THEN 1 ELSE 0)
  BY BeforeStep
<1> QED
  BY <1>1, <1>2, <1>3, <1>4

\* It depends on what comes before only.
LEMMA DepthOfPrefix ==
  ASSUME NEW s, NEW t, NEW i \in Nat \ {0}, \A j \in 1..(i - 1) : s[j] = t[j]
  PROVE  DepthAt(s, i) = DepthAt(t, i)
<1>1. \A tokens : Before(s, i, tokens) = Before(t, i, tokens)
  <2> SUFFICES ASSUME NEW tokens PROVE Before(s, i, tokens) = Before(t, i, tokens)
    OBVIOUS
  <2>1. {j \in 1..(i - 1) : s[j] \in tokens} = {j \in 1..(i - 1) : t[j] \in tokens}
    OBVIOUS
  <2> QED
    BY <2>1, Zenon DEF Before
<1>2. \A u : DepthAt(u, i) = Before(u, i, Opening) - Before(u, i, Closing)
  BY DepthIsDifference, Zenon
<1> QED
  BY <1>1, <1>2

LEMMA DepthOfConcat ==
  ASSUME NEW x \in Tokens, NEW s \in Tokens, DepthAt(x, Len(x) + 1) = 0
  PROVE  /\ \A i \in 1..(Len(x) + 1) : DepthAt(x \o s, i) = DepthAt(x, i)
         /\ \A i \in 1..(Len(s) + 1) : DepthAt(x \o s, Len(x) + i) = DepthAt(s, i)
<1> DEFINE y == x \o s
           k == Len(x)
<1>1. /\ k \in Nat /\ Len(s) \in Nat
      /\ \A i \in 1..k : y[i] = x[i]
      /\ \A i \in 1..Len(s) : y[k + i] = s[i]
  BY DEF Tokens
<1> HIDE DEF y, k
<1>2. \A i \in 1..(k + 1) : DepthAt(y, i) = DepthAt(x, i)
  <2> SUFFICES ASSUME NEW i \in 1..(k + 1) PROVE DepthAt(y, i) = DepthAt(x, i)
    OBVIOUS
  <2>1. i \in Nat \ {0} /\ \A j \in 1..(i - 1) : y[j] = x[j]
    BY <1>1
  <2> QED
    BY <2>1, DepthOfPrefix
<1> DEFINE S == {n \in Nat : n <= Len(s) => DepthAt(y, k + (n + 1)) = DepthAt(s, n + 1)}
<1>3. 0 \in S
  <2>1. DepthAt(y, k + 1) = DepthAt(x, k + 1) /\ k + (0 + 1) = k + 1 /\ 0 + 1 = 1
    BY <1>1, <1>2
  <2>2. DepthAt(s, 1) = 0
    BY DepthStep
  <2>3. DepthAt(x, k + 1) = 0
    BY DEF k
  <2> QED
    BY <2>1, <2>2, <2>3
<1>4. ASSUME NEW n \in Nat, n \in S PROVE n + 1 \in S
  <2> SUFFICES ASSUME n + 1 <= Len(s)
               PROVE  DepthAt(y, k + ((n + 1) + 1)) = DepthAt(s, (n + 1) + 1)
    OBVIOUS
  <2> DEFINE i == n + 1
             m == k + i
  <2>1. i \in Nat \ {0} /\ m \in Nat \ {0} /\ k + (i + 1) = m + 1 /\ y[m] = s[i]
    BY <1>1
  <2>2. DepthAt(y, m) = DepthAt(s, i)
    BY <1>1, <1>4
  <2> HIDE DEF i, m
  <2>3. /\ DepthAt(y, m + 1) = DepthAt(y, m) + Weight(y[m])
        /\ DepthAt(s, i + 1) = DepthAt(s, i) + Weight(s[i])
    BY <2>1, DepthStep, Zenon
  <2>4. DepthAt(y, k + (i + 1)) = DepthAt(s, i + 1)
    BY <2>1, <2>2, <2>3, Zenon
  <2> QED
    BY <2>4 DEF i
<1> HIDE DEF S
<1>5. \A n \in Nat : n \in S
  BY <1>3, <1>4, CF!Induction
<1>6. \A i \in 1..(Len(s) + 1) : DepthAt(y, k + i) = DepthAt(s, i)
  <2> SUFFICES ASSUME NEW i \in 1..(Len(s) + 1) PROVE DepthAt(y, k + i) = DepthAt(s, i)
    OBVIOUS
  <2>1. i - 1 \in Nat /\ i - 1 <= Len(s) /\ (i - 1) + 1 = i
    BY <1>1
  <2>2. i - 1 \in S
    BY <1>5, <2>1
  <2> QED
    BY <2>1, <2>2 DEF S
<1> QED
  BY <1>2, <1>6 DEF y, k

\* A name with no place for a parameter list.
Closed(s) ==
  /\ DepthAt(s, Len(s) + 1) = 0
  /\ \A i \in DOMAIN s :
       s[i] = "(" => DepthAt(s, i) # 0 \/ PrecededByOperator(SubSeq(s, 1, i - 1))

LEMMA ClosedConcat ==
  ASSUME NEW x \in Tokens, NEW s \in Tokens, Closed(x), Closed(s)
  PROVE  Closed(x \o s)
<1> DEFINE y == x \o s
           k == Len(x)
<1>1. /\ x \in Seq(Word) /\ s \in Seq(Word) /\ y \in Seq(Word) /\ Len(y) = k + Len(s)
      /\ k \in Nat /\ Len(s) \in Nat
      /\ \A i \in 1..k : y[i] = x[i] /\ SubSeq(y, 1, i - 1) = SubSeq(x, 1, i - 1)
      /\ \A i \in 1..Len(s) : y[k + i] = s[i]
  BY DEF Tokens
<1>2. \A i \in 1..Len(s) : SubSeq(y, 1, (k + i) - 1) = x \o SubSeq(s, 1, i - 1)
                           /\ SubSeq(s, 1, i - 1) \in Seq(Word)
  BY <1>1
<1>3. /\ \A i \in 1..(k + 1) : DepthAt(y, i) = DepthAt(x, i)
      /\ \A i \in 1..(Len(s) + 1) : DepthAt(y, k + i) = DepthAt(s, i)
  BY DepthOfConcat DEF Closed
<1> HIDE DEF y, k
<1>4. DepthAt(y, Len(y) + 1) = 0
  <2>1. DepthAt(y, k + (Len(s) + 1)) = DepthAt(s, Len(s) + 1) /\ Len(y) + 1 = k + (Len(s) + 1)
    BY <1>1, <1>3
  <2>2. DepthAt(s, Len(s) + 1) = 0
    BY DEF Closed
  <2> QED
    BY <2>1, <2>2
<1>5. ASSUME NEW i \in DOMAIN y, y[i] = "("
      PROVE  DepthAt(y, i) # 0 \/ PrecededByOperator(SubSeq(y, 1, i - 1))
  <2>1. CASE i \in 1..k
    <3>1. x[i] = "(" /\ i \in DOMAIN x /\ i \in 1..(k + 1)
      BY <1>1, <1>5, <2>1 DEF k
    <3>2. DepthAt(x, i) # 0 \/ PrecededByOperator(SubSeq(x, 1, i - 1))
      BY <3>1 DEF Closed
    <3> QED
      BY <1>1, <1>3, <2>1, <3>1, <3>2, Zenon
  <2>2. CASE i \notin 1..k
    <3> DEFINE j == i - k
    <3>1. j \in 1..Len(s) /\ i = k + j /\ j \in DOMAIN s /\ j \in 1..(Len(s) + 1)
      BY <1>1, <2>2
    <3> HIDE DEF j
    <3>2. s[j] = "("
      BY <1>1, <1>5, <3>1
    <3>3. DepthAt(s, j) # 0 \/ PrecededByOperator(SubSeq(s, 1, j - 1))
      BY <3>1, <3>2 DEF Closed
    <3>4. DepthAt(y, i) = DepthAt(s, j) /\ SubSeq(y, 1, i - 1) = x \o SubSeq(s, 1, j - 1)
      BY <1>2, <1>3, <3>1, Zenon
    <3>5. PrecededByOperator(SubSeq(s, 1, j - 1)) => PrecededByOperator(x \o SubSeq(s, 1, j - 1))
      BY <1>2, <3>1, OperatorNameStays DEF Tokens
    <3> QED
      BY <3>3, <3>4, <3>5, Zenon
  <2> QED
    BY <2>1, <2>2
<1>6. Closed(y)
  BY <1>4, <1>5 DEF Closed
<1> QED
  BY <1>6 DEF y

\* What has no bracket is closed.
LEMMA PlainIsClosed ==
  ASSUME NEW s \in Tokens,
         \A i \in DOMAIN s : Plain(s[i])
  PROVE  Closed(s)
<1>1. Len(s) \in Nat /\ DOMAIN s = 1..Len(s)
  BY DEF Tokens
<1> DEFINE S == {n \in Nat : n <= Len(s) => DepthAt(s, n + 1) = 0}
<1>2. 0 \in S
  <2>1. DepthAt(s, 1) = 0 /\ 0 + 1 = 1
    BY DepthStep
  <2> QED
    BY <2>1
<1>3. ASSUME NEW n \in Nat, n \in S PROVE n + 1 \in S
  <2> SUFFICES ASSUME n + 1 <= Len(s) PROVE DepthAt(s, (n + 1) + 1) = 0
    OBVIOUS
  <2>1. DepthAt(s, n + 1) = 0 /\ n + 1 \in Nat \ {0} /\ Weight(s[n + 1]) = 0
    BY <1>1, <1>3 DEF Weight, Plain
  <2>2. DepthAt(s, (n + 1) + 1) = DepthAt(s, n + 1) + Weight(s[n + 1])
    BY <2>1, DepthStep
  <2> QED
    BY <2>1, <2>2
<1> HIDE DEF S
<1>4. \A n \in Nat : n \in S
  BY <1>2, <1>3, CF!Induction
<1>5. Len(s) \in S
  BY <1>1, <1>4
<1>6. DepthAt(s, Len(s) + 1) = 0
  BY <1>1, <1>5 DEF S
<1> QED
  BY <1>6 DEF Closed, Plain

LEMMA NameIsClosed ==
  ASSUME NEW name, IsName(name)
  PROVE  Closed(name)
BY DEF IsName, Closed

-----------------------------------------------------------------------------
(* The path *)

\* A name that is not followed by an operator's parentheses.
Settled(s) == s \in Tokens /\ Closed(s) /\ ~EndsIn(s, "operator")

LEMMA EndsStay ==
  ASSUME NEW x \in Tokens, NEW s \in Tokens, s # <<>>, ~EndsIn(s, "operator")
  PROVE  ~EndsIn(x \o s, "operator")
<1> DEFINE y == x \o s
<1>1. Len(y) = Len(x) + Len(s) /\ Len(s) \in Nat \ {0} /\ Len(x) \in Nat /\ y[Len(y)] = s[Len(s)]
  BY DEF Tokens
<1> HIDE DEF y
<1>2. ~EndsIn(y, "operator")
  BY <1>1 DEF EndsIn
<1> QED
  BY <1>2 DEF y

LEMMA MarksAreSettled ==
  ASSUME NEW name \in Tokens, IsName(name)
  PROVE  /\ Settled(Space(name) \o <<"<", "...", ">">>)
         /\ Space(name) \o <<"<", "...", ">">> # <<>>
<1> DEFINE mark == <<"<", "...", ">">>
           gap == Space(name)
           c == Blank
<1>1. /\ mark \in Seq(Word) /\ Len(mark) = 3 /\ mark[3] = ">"
      /\ \A i \in DOMAIN mark : mark[i] \in {"<", "...", ">"}
  BY Words
<1>2. \A d \in {"<", "...", ">"} : Plain(d)
  BY PlainTokens
<1>3. Plain(c)
  BY PlainTokens
<1>4. gap \in Seq(Word) /\ \A i \in DOMAIN gap : gap[i] = c
  <2>1. <<>> \in Seq(Word) /\ \A i \in DOMAIN <<>> : FALSE
    OBVIOUS
  <2>2. <<c>> \in Seq(Word) /\ \A i \in DOMAIN <<c>> : <<c>>[i] = c
    BY Words
  <2> QED
    BY <2>1, <2>2 DEF Space
<1> HIDE DEF mark, gap, c
<1>5. Closed(mark) /\ mark \in Tokens
  BY <1>1, <1>2, PlainIsClosed DEF Tokens
<1>6. Closed(gap) /\ gap \in Tokens
  BY <1>3, <1>4, PlainIsClosed DEF Tokens
<1>7. ~EndsIn(mark, "operator") /\ mark # <<>>
  BY <1>1 DEF EndsIn
<1>8. gap \o mark \in Tokens /\ Closed(gap \o mark) /\ ~EndsIn(gap \o mark, "operator")
  BY <1>5, <1>6, <1>7, ClosedConcat, EndsStay, TokensJoin
<1>9. gap \o mark # <<>>
  BY <1>1, <1>4
<1> QED
  BY <1>8, <1>9 DEF Settled, mark, gap

LEMMA PartIsSettled ==
  ASSUME NEW p, IsPart(p)
  PROVE  Settled(ShortPart(p)) /\ ShortPart(p) # <<>>
<1> DEFINE name == p.name
           marks == Space(name) \o <<"<", "...", ">">>
<1>1. name \in Tokens /\ IsName(name) /\ Closed(name) /\ name # <<>>
  BY NameIsClosed DEF IsPart, IsName
<1>2. ~EndsIn(name, "operator")
  BY <1>1, OperatorName DEF IsName
<1>3. CASE p.arguments = <<>>
  BY <1>1, <1>2, <1>3 DEF ShortPart, Settled
<1>4. CASE p.arguments # <<>>
  <2>1. ShortPart(p) = name \o marks
    BY <1>4, ShortPartMarks, Zenon
  <2>2. Settled(marks) /\ marks # <<>> /\ marks \in Tokens
    BY <1>1, MarksAreSettled DEF Settled
  <2> HIDE DEF marks, name
  <2>3. Closed(name \o marks) /\ ~EndsIn(name \o marks, "operator") /\ name \o marks \in Tokens
    BY <1>1, <2>2, ClosedConcat, EndsStay, TokensJoin DEF Settled
  <2>4. name \o marks # <<>>
    BY <1>1, <2>2 DEF Tokens
  <2> QED
    BY <2>1, <2>3, <2>4 DEF Settled
<1> QED
  BY <1>3, <1>4

\* The i-th part, after what separates it.
Separator(i) == IF i = 1 THEN <<>> ELSE <<"::">>
LongPiece(path, i) == Separator(i) \o (path[i].name \o Arguments(path[i]))
ShortPiece(path, i) == Separator(i) \o ShortPart(path[i])

LEMMA PieceCollapses ==
  ASSUME NEW x, Settled(x), NEW path, NEW i \in Nat, IsPart(path[i])
  PROVE  /\ LongPiece(path, i) \in Tokens /\ ShortPiece(path, i) \in Tokens
         /\ CF!Fold(At(x, 0), LongPiece(path, i)) = At(x \o ShortPiece(path, i), 0)
         /\ Settled(x \o ShortPiece(path, i))
<1> DEFINE p == path[i]
           sep == Separator(i)
           long == p.name \o Arguments(p)
           short == ShortPart(p)
<1>1. /\ sep \in Tokens /\ \A j \in DOMAIN sep : sep[j] = "::"
  <2>1. <<>> \in Seq(Word) /\ \A j \in DOMAIN <<>> : FALSE
    OBVIOUS
  <2>2. <<"::">> \in Seq(Word) /\ \A j \in DOMAIN <<"::">> : <<"::">>[j] = "::"
    BY Words
  <2> QED
    BY <2>1, <2>2 DEF Separator, Tokens
<1>2. /\ x \in Tokens /\ Closed(x)
      /\ Settled(short) /\ short # <<>> /\ short \in Tokens /\ Closed(short)
      /\ ~EndsIn(short, "operator")
  BY PartIsSettled DEF Settled
<1>3. \A y \in Tokens : long \in Tokens /\ CF!Fold(At(y, 0), long) = At(y \o short, 0)
  BY PartCollapses
<1>4. LongPiece(path, i) = sep \o long /\ ShortPiece(path, i) = sep \o short
  BY DEF LongPiece, ShortPiece
<1> HIDE DEF sep, long, short
<1>5. Closed(sep)
  BY <1>1, PlainTokens, PlainIsClosed
<1> DEFINE y == x \o sep
<1>6. y \in Tokens /\ Closed(y)
  BY <1>1, <1>2, <1>5, ClosedConcat, TokensJoin
<1>7. CF!Fold(At(x, 0), sep) = At(y, 0)
  BY <1>1, <1>2, NameCollapses
<1> HIDE DEF y
<1>8. CF!Fold(At(y, 0), long) = At(y \o short, 0) /\ long \in Tokens
  BY <1>3, <1>6
<1>9. CF!Fold(At(x, 0), sep \o long) = CF!Fold(CF!Fold(At(x, 0), sep), long)
  BY <1>1, <1>8, CF!FoldConcat DEF Tokens
<1>10. y \o short = x \o (sep \o short)
  BY <1>1, <1>2, TokensAssociate, Zenon DEF y, Associates
<1>11. Settled(y \o short)
  BY <1>2, <1>6, ClosedConcat, EndsStay, TokensJoin DEF Settled
<1>12. sep \o long \in Tokens /\ sep \o short \in Tokens
  BY <1>1, <1>2, <1>8, TokensJoin
<1> QED
  BY <1>4, <1>7, <1>8, <1>9, <1>10, <1>11, <1>12, Zenon

IsPath(path) == path \in Seq([name : Tokens, arguments : Tokens]) \ {<<>>}
                /\ \A i \in DOMAIN path : IsPart(path[i])

LongPath(path) == FlattenSeq([i \in DOMAIN path |-> LongPiece(path, i)])
ShortPath(path) == FlattenSeq([i \in DOMAIN path |-> ShortPiece(path, i)])

LEMMA Flattening ==
  ASSUME NEW parts \in Seq(Tokens), NEW part \in Tokens
  PROVE  /\ FlattenSeq(<<>>) = <<>> /\ FlattenSeq(parts) \in Tokens
         /\ FlattenSeq(Append(parts, part)) = FlattenSeq(parts) \o part
<1>1. CF!FlattenSeq(<<>>) = <<>>
  BY CF!FlattenEmpty
<1>2. CF!FlattenSeq(parts) \in Seq(Word)
  BY CF!FlattenType DEF Tokens
<1>3. CF!FlattenSeq(Append(parts, part)) = CF!FlattenSeq(parts) \o part
  BY CF!FlattenAppend DEF Tokens
<1> QED
  BY <1>1, <1>2, <1>3, Zenon DEF CF!FlattenSeq, FlattenSeq, Tokens

LEMMA PathCollapses ==
  ASSUME NEW path, IsPath(path)
  PROVE  /\ LongPath(path) \in Tokens
         /\ CF!Fold(At(<<>>, 0), LongPath(path)) = At(ShortPath(path), 0)
         /\ Settled(ShortPath(path))
<1> DEFINE longs == [i \in DOMAIN path |-> LongPiece(path, i)]
           shorts == [i \in DOMAIN path |-> ShortPiece(path, i)]
           Whole(n) == FlattenSeq(SubSeq(longs, 1, n))
           Named(n) == FlattenSeq(SubSeq(shorts, 1, n))
           S == {n \in Nat : n <= Len(path) =>
                   /\ Whole(n) \in Tokens
                   /\ CF!Fold(At(<<>>, 0), Whole(n)) = At(Named(n), 0)
                   /\ Settled(Named(n))}
<1>1. Len(path) \in Nat /\ DOMAIN path = 1..Len(path) /\ \A i \in 1..Len(path) : IsPart(path[i])
  BY DEF IsPath
<1>2. Settled(<<>>) /\ <<>> \in Tokens
  <2>1. <<>> \in Seq(Word) /\ \A i \in DOMAIN <<>> : FALSE
    OBVIOUS
  <2>2. Closed(<<>>)
    BY <2>1, PlainIsClosed DEF Tokens
  <2>3. ~EndsIn(<<>>, "operator")
    BY DEF EndsIn
  <2> QED
    BY <2>1, <2>2, <2>3 DEF Settled, Tokens
<1>3. \A i \in 1..Len(path) : LongPiece(path, i) \in Tokens /\ ShortPiece(path, i) \in Tokens
  BY <1>1, <1>2, PieceCollapses
<1>4. /\ longs \in Seq(Tokens) /\ Len(longs) = Len(path)
      /\ shorts \in Seq(Tokens) /\ Len(shorts) = Len(path)
      /\ \A i \in 1..Len(path) : longs[i] = LongPiece(path, i) /\ shorts[i] = ShortPiece(path, i)
  BY <1>1, <1>3
<1> HIDE DEF longs, shorts
<1>5. 0 \in S
  <2>1. SubSeq(longs, 1, 0) = <<>> /\ SubSeq(shorts, 1, 0) = <<>>
    BY <1>4, NoneAndAll
  <2>2. FlattenSeq(<<>>) = <<>>
    BY DEF FlattenSeq
  <2>3. CF!Fold(At(<<>>, 0), <<>>) = At(<<>>, 0)
    BY CF!FoldEmpty
  <2> QED
    BY <1>2, <2>1, <2>2, <2>3, Zenon
<1>6. ASSUME NEW n \in Nat, n \in S PROVE n + 1 \in S
  <2> SUFFICES ASSUME n + 1 <= Len(path)
               PROVE  /\ Whole(n + 1) \in Tokens
                      /\ CF!Fold(At(<<>>, 0), Whole(n + 1)) = At(Named(n + 1), 0)
                      /\ Settled(Named(n + 1))
    OBVIOUS
  <2> DEFINE i == n + 1
             long == LongPiece(path, i)
             short == ShortPiece(path, i)
             before == SubSeq(longs, 1, n)
             shown == SubSeq(shorts, 1, n)
  <2>1. /\ Whole(n) \in Tokens /\ CF!Fold(At(<<>>, 0), Whole(n)) = At(Named(n), 0) /\ Settled(Named(n))
        /\ i \in Nat /\ IsPart(path[i]) /\ i \in 1..Len(path)
    BY <1>1, <1>6
  <2>2. /\ SubSeq(longs, 1, i) = Append(before, long) /\ before \in Seq(Tokens)
        /\ SubSeq(shorts, 1, i) = Append(shown, short) /\ shown \in Seq(Tokens)
    <3>1. /\ SubSeq(longs, 1, n + 1) = Append(before, longs[n + 1]) /\ before \in Seq(Tokens)
          /\ SubSeq(shorts, 1, n + 1) = Append(shown, shorts[n + 1]) /\ shown \in Seq(Tokens)
      BY <1>4, OneMore
    <3> QED
      BY <1>4, <2>1, <3>1
  <2>3. /\ long \in Tokens /\ short \in Tokens
        /\ CF!Fold(At(Named(n), 0), long) = At(Named(n) \o short, 0)
        /\ Settled(Named(n) \o short)
    <3> DEFINE x == Named(n)
    <3>1. Settled(x)
      BY <2>1
    <3> HIDE DEF x
    <3>2. /\ long \in Tokens /\ short \in Tokens
          /\ CF!Fold(At(x, 0), long) = At(x \o short, 0)
          /\ Settled(x \o short)
      BY <2>1, <3>1, PieceCollapses
    <3> QED
      BY <3>2 DEF x
  <2> HIDE DEF long, short, before, shown
  <2>4. Whole(i) = Whole(n) \o long /\ Named(i) = Named(n) \o short
    <3>1. FlattenSeq(Append(before, long)) = FlattenSeq(before) \o long
      BY <2>2, <2>3, Flattening
    <3>2. FlattenSeq(Append(shown, short)) = FlattenSeq(shown) \o short
      BY <2>2, <2>3, Flattening
    <3> QED
      BY <2>2, <3>1, <3>2, Zenon DEF before, shown
  <2> HIDE DEF Whole, Named, i
  <2>5. CF!Fold(At(<<>>, 0), Whole(n) \o long) = CF!Fold(CF!Fold(At(<<>>, 0), Whole(n)), long)
    BY <2>1, <2>3, CF!FoldConcat DEF Tokens
  <2>6. Whole(i) \in Tokens
    BY <2>1, <2>3, <2>4, TokensJoin
  <2>7. CF!Fold(At(<<>>, 0), Whole(i)) = At(Named(i), 0) /\ Settled(Named(i))
    BY <2>1, <2>3, <2>4, <2>5, Zenon
  <2> QED
    BY <2>6, <2>7 DEF i
<1> HIDE DEF S
<1>7. \A n \in Nat : n \in S
  BY <1>5, <1>6, CF!Induction
<1>8. Whole(Len(path)) = LongPath(path) /\ Named(Len(path)) = ShortPath(path)
  <2>1. SubSeq(longs, 1, Len(longs)) = longs /\ SubSeq(shorts, 1, Len(shorts)) = shorts
    BY <1>4, NoneAndAll
  <2> QED
    BY <1>4, <2>1, Zenon DEF LongPath, ShortPath, longs, shorts
<1>9. Len(path) \in S
  BY <1>1, <1>7
<1> HIDE DEF Whole, Named
<1>10. /\ Whole(Len(path)) \in Tokens
       /\ CF!Fold(At(<<>>, 0), Whole(Len(path))) = At(Named(Len(path)), 0)
       /\ Settled(Named(Len(path)))
  BY <1>1, <1>9 DEF S
<1> QED
  BY <1>8, <1>10, Zenon

-----------------------------------------------------------------------------
(* The parameter list *)

\* A parameter list whose template arguments are collapsed.
Rest(r) ==
  /\ r \in Seq(Word) /\ Len(r) >= 1 /\ r[1] = "("
  /\ \A i \in 1..Len(r) : r[i] # "operator" /\ (i > 1 => r[i] # "(")

LEMMA RestGrows ==
  ASSUME NEW r, Rest(r), NEW c \in Word, c # "(", c # "operator"
  PROVE  Rest(Append(r, c))
<1> DEFINE q == Append(r, c)
<1>1. /\ q \in Seq(Word) /\ Len(q) = Len(r) + 1 /\ Len(r) \in Nat /\ Len(r) >= 1 /\ q[Len(r) + 1] = c
      /\ \A i \in 1..Len(r) : q[i] = r[i]
  BY DEF Rest
<1> HIDE DEF q
<1>2. \A i \in 1..Len(q) : i = Len(r) + 1 \/ i \in 1..Len(r)
  BY <1>1
<1>3. 1 \in 1..Len(r)
  BY <1>1
<1>4. Rest(q)
  BY <1>1, <1>2, <1>3 DEF Rest
<1> QED
  BY <1>4 DEF q

LEMMA RestCollapses ==
  ASSUME NEW r, Rest(r)
  PROVE  Rest(r \o <<"<", "...", ">">>)
<1> DEFINE q == r \o <<"<", "...", ">">>
<1>1. /\ r \in Seq(Word) /\ Len(r) \in Nat
      /\ q = Append(Append(Append(r, "<"), "..."), ">")
  BY Words DEF Rest
<1> HIDE DEF q
<1> DEFINE r1 == Append(r, "<")
           r2 == Append(r1, "...")
           r3 == Append(r2, ">")
<1>2. Rest(r1)
  BY RestGrows, Words
<1> HIDE DEF r1
<1>3. Rest(r2)
  BY <1>2, RestGrows, Words
<1> HIDE DEF r2
<1>4. Rest(r3)
  BY <1>3, RestGrows, Words
<1>5. q = r3
  BY <1>1 DEF r1, r2
<1> QED
  BY <1>4, <1>5, Zenon DEF q

\* In a parameter list "<" is never of an operator's name.
LEMMA RestIsNoOperator ==
  ASSUME NEW x \in Tokens, NEW r, Rest(r)
  PROVE  ~InOperatorName(x \o r) /\ x \o r \in Tokens
<1> DEFINE y == x \o r
<1>1. /\ y \in Seq(Word) /\ Len(y) = Len(x) + Len(r) /\ Len(r) \in Nat /\ Len(x) \in Nat
      /\ Len(r) >= 1 /\ \A i \in 1..Len(r) : y[Len(x) + i] = r[i]
  BY DEF Tokens, Rest
<1> HIDE DEF y
<1>2. y[Len(y)] = r[Len(r)] /\ y[Len(y)] # "operator" /\ (Len(r) = 1 => y[Len(y)] = "(")
  <2>1. Len(r) \in 1..Len(r) /\ Len(y) = Len(x) + Len(r)
    BY <1>1
  <2>2. y[Len(y)] = r[Len(r)]
    BY <1>1, <2>1
  <2> QED
    BY <2>1, <2>2 DEF Rest
<1>3. Len(r) >= 2 => y[Len(y) - 1] # "operator"
  <2> SUFFICES ASSUME Len(r) >= 2 PROVE y[Len(y) - 1] # "operator"
    OBVIOUS
  <2>1. Len(r) - 1 \in 1..Len(r) /\ Len(y) - 1 = Len(x) + (Len(r) - 1)
    BY <1>1
  <2> QED
    BY <1>1, <2>1, Zenon DEF Rest
<1>4. ~InOperatorName(y)
  <2>1. y[Len(y)] = "<" => Len(r) >= 2
    <3> DEFINE angle == "<"
               paren == "("
    <3>1. angle # paren /\ (Len(r) = 1 => y[Len(y)] = paren)
      BY <1>2, Zenon
    <3> HIDE DEF angle, paren
    <3>2. Len(r) >= 2 \/ Len(r) = 1
      <4> DEFINE n == Len(r)
      <4>1. n \in Nat /\ n >= 1
        BY <1>1
      <4> HIDE DEF n
      <4>2. n >= 2 \/ n = 1
        BY <4>1
      <4> QED
        BY <4>2, Zenon DEF n
    <3> QED
      BY <3>1, <3>2, Zenon DEF angle
  <2> QED
    BY <1>1, <1>2, <1>3, <2>1, OperatorName, Zenon DEF EndsIn, Tokens
<1> QED
  BY <1>1, <1>4 DEF y, Tokens

LEMMA AppendToConcat ==
  ASSUME NEW x \in Tokens, NEW r \in Tokens, NEW c \in Word
  PROVE  Append(x \o r, c) = x \o Append(r, c)
BY DEF Tokens

LEMMA ListCollapses ==
  ASSUME NEW x \in Tokens, NEW s \in Tokens, IsParameterList(s)
  PROVE  \E r, n : Rest(r) /\ CF!Fold(At(x, 0), s) = At(x \o r, n)
<1> DEFINE Start(n) == SubSeq(s, 1, n)
           depth(n) == AF!Fold(0, Start(n))
           S == {n \in Nat : 1 <= n /\ n <= Len(s) =>
                   /\ depth(n) \in Nat
                   /\ \E r : Rest(r) /\ CF!Fold(At(x, 0), Start(n)) = At(x \o r, depth(n))}
<1>1. s \in Seq(Word) /\ Start(0) = <<>> /\ Start(Len(s)) = s /\ Len(s) \in Nat /\ Len(s) >= 1
  <2>1. s # <<>> /\ s \in Seq(Word)
    BY DEF IsParameterList, Tokens
  <2>2. Start(0) = <<>> /\ Start(Len(s)) = s /\ Len(s) \in Nat
    BY <2>1, NoneAndAll
  <2> QED
    BY <2>1, <2>2
<1>2. /\ s[1] = "("
      /\ \A i \in 1..Len(s) : s[i] # "operator"
      /\ \A i \in 1..Len(s) : s[i] = "(" => i = 1 \/ AF!Fold(0, SubSeq(s, 1, i - 1)) > 0
  <2>1. \A i \in 1..Len(s) : s[i] # "operator"
    BY DEF IsParameterList
  <2>2. DOMAIN s = 1..Len(s)
    BY <1>1
  <2> QED
    BY <2>1, <2>2, AnglesAfterIsFold DEF IsParameterList
<1>3. 0 \in S
  OBVIOUS
<1>4. ASSUME NEW n \in Nat, n \in S PROVE n + 1 \in S
  <2> SUFFICES ASSUME n + 1 <= Len(s)
               PROVE  /\ depth(n + 1) \in Nat
                      /\ \E r : Rest(r)
                                /\ CF!Fold(At(x, 0), Start(n + 1)) = At(x \o r, depth(n + 1))
    OBVIOUS
  <2> DEFINE c == s[n + 1]
  <2>1. /\ Start(n) \in Seq(Word) /\ c \in Word /\ n + 1 \in 1..Len(s)
        /\ Start(n + 1) = Append(Start(n), c) /\ SubSeq(s, 1, (n + 1) - 1) = Start(n)
    BY <1>1, OneMore
  <2>2. c # "operator" /\ (c = "(" => n + 1 = 1 \/ depth(n) > 0)
    BY <1>2, <2>1
  <2>3. n # 0 => /\ depth(n) \in Nat
                 /\ \E r : Rest(r) /\ CF!Fold(At(x, 0), Start(n)) = At(x \o r, depth(n))
    BY <1>4
  <2>4. n = 0 => Start(n) = <<>> /\ c = "("
    BY <1>1, <1>2
  <2> HIDE DEF Start, c
  <2>5. /\ CF!Fold(At(x, 0), Append(Start(n), c)) = Collapse(CF!Fold(At(x, 0), Start(n)), c)
        /\ AF!Fold(0, Append(Start(n), c)) = OpenAngles(AF!Fold(0, Start(n)), c)
    BY <2>1, CF!FoldAppend, AF!FoldAppend
  <2>6. depth(n + 1) = OpenAngles(depth(n), c)
    BY <2>1, <2>5, Zenon
  <2>7. CF!Fold(At(x, 0), Start(n + 1)) = Collapse(CF!Fold(At(x, 0), Start(n)), c)
    BY <2>1, <2>5, Zenon
  <2>8. CASE n = 0
    <3> DEFINE none == <<>>
               r == <<c>>
    <3>1. CF!Fold(At(x, 0), none) = At(x, 0) /\ AF!Fold(0, none) = 0
      BY CF!FoldEmpty, AF!FoldEmpty, Zenon
    <3>2. Collapse(At(x, 0), c) = At(Append(x, c), 0)
      BY <2>4, <2>8, CollapsePlain
    <3>3. depth(n) = 0
      BY <2>4, <2>8, <3>1, Zenon
    <3>4. OpenAngles(0, c) = 0
      BY <2>4, <2>8 DEF OpenAngles
    <3>5. Rest(r)
      <4>1. r \in Seq(Word) /\ Len(r) = 1 /\ r[1] = c
        BY <2>1
      <4> HIDE DEF r
      <4> QED
        BY <2>2, <2>4, <2>8, <4>1 DEF Rest
    <3>6. Append(x, c) = x \o r
      BY <2>1, AppendIsConcat DEF Tokens
    <3>7. CF!Fold(At(x, 0), Start(n + 1)) = At(x \o r, 0)
      BY <2>4, <2>7, <2>8, <3>1, <3>2, <3>6, Zenon
    <3>8. depth(n + 1) = 0
      BY <2>6, <3>3, <3>4, Zenon
    <3> HIDE DEF r, depth
    <3> QED
      BY <3>5, <3>7, <3>8
  <2>9. CASE n # 0
    <3>1. PICK r : Rest(r) /\ CF!Fold(At(x, 0), Start(n)) = At(x \o r, depth(n))
      BY <2>3, <2>9
    <3> DEFINE d == depth(n)
    <3>2. d \in Nat /\ (c = "(" => d > 0)
      BY <2>2, <2>3, <2>9
    <3>3. CF!Fold(At(x, 0), Start(n + 1)) = Collapse(At(x \o r, d), c)
      BY <2>7, <3>1, Zenon
    <3>4. depth(n + 1) = OpenAngles(d, c)
      BY <2>6
    <3> HIDE DEF depth, d
    <3>5. r \in Tokens /\ ~InOperatorName(x \o r) /\ x \o r \in Tokens
      BY <3>1, RestIsNoOperator DEF Rest, Tokens
    <3>6. CASE d # 0
      <4>1. Collapse(At(x \o r, d), c) = At(x \o r, OpenAngles(d, c)) /\ OpenAngles(d, c) \in Nat
        BY <3>2, <3>6, CollapseInside
      <4> QED
        BY <3>1, <3>3, <3>4, <4>1, Zenon
    <3>7. CASE d = 0 /\ c = "<"
      <4> DEFINE q == r \o <<"<", "...", ">">>
                 mark == <<"<", "...", ">">>
      <4>1. Rest(q)
        BY <3>1, RestCollapses
      <4>2. Collapse(At(x \o r, 0), "<") = At((x \o r) \o mark, 1)
        BY <3>5, CollapseOpens
      <4>3. mark \in Seq(Word)
        BY Words
      <4> HIDE DEF mark
      <4>4. (x \o r) \o mark = x \o (r \o mark)
        <5>1. Associates(x, r, mark)
          BY <3>5, <4>3, TokensAssociate, Zenon DEF Tokens
        <5> QED
          BY <5>1, Zenon DEF Associates
      <4>5. OpenAngles(0, "<") = 1
        BY DEF OpenAngles
      <4>6. CF!Fold(At(x, 0), Start(n + 1)) = At(x \o q, 1) /\ depth(n + 1) = 1
        BY <3>3, <3>4, <3>7, <4>2, <4>4, <4>5, Zenon DEF mark
      <4> HIDE DEF q
      <4> QED
        BY <4>1, <4>6
    <3>8. CASE d = 0 /\ c # "<"
      <4> DEFINE q == Append(r, c)
      <4>1. Rest(q)
        BY <2>1, <2>2, <3>1, <3>2, <3>8, RestGrows
      <4>2. Collapse(At(x \o r, 0), c) = At(Append(x \o r, c), 0)
        BY <3>8, CollapsePlain
      <4>3. Append(x \o r, c) = x \o q
        BY <2>1, <3>5, AppendToConcat
      <4>4. OpenAngles(0, c) = 0
        BY <3>8 DEF OpenAngles
      <4>5. CF!Fold(At(x, 0), Start(n + 1)) = At(x \o q, 0) /\ depth(n + 1) = 0
        BY <3>3, <3>4, <3>8, <4>2, <4>3, <4>4, Zenon
      <4> HIDE DEF q
      <4> QED
        BY <4>1, <4>5
    <3> QED
      BY <3>6, <3>7, <3>8
  <2> QED
    BY <2>8, <2>9
<1> HIDE DEF S
<1>5. \A n \in Nat : n \in S
  BY <1>3, <1>4, CF!Induction
<1>6. Len(s) \in S
  BY <1>1, <1>5
<1> HIDE DEF Start, depth
<1>7. \E r : Rest(r) /\ CF!Fold(At(x, 0), Start(Len(s))) = At(x \o r, depth(Len(s)))
  BY <1>1, <1>6 DEF S
<1> QED
  BY <1>1, <1>7

-----------------------------------------------------------------------------
(* The name without its parameters *)

LEMMA ParametersStripped ==
  ASSUME NEW x, Settled(x), NEW r, r = <<>> \/ Rest(r)
  PROVE  StripParameters(x \o r) = x
<1> DEFINE y == x \o r
           k == Len(x)
<1>1. /\ x \in Seq(Word) /\ x \in Tokens /\ r \in Seq(Word) /\ r \in Tokens
      /\ Closed(x) /\ ~PrecededByOperator(x)
  <2>1. r \in Seq(Word)
    <3>1. <<>> \in Seq(Word)
      OBVIOUS
    <3> QED
      BY <3>1, Zenon DEF Rest
  <2> QED
    BY <2>1, OperatorName DEF Settled, Tokens
<1>2. /\ y \in Seq(Word) /\ k \in Nat /\ Len(r) \in Nat /\ Len(y) = k + Len(r) /\ DOMAIN y = 1..Len(y)
      /\ \A i \in 1..k : y[i] = x[i] /\ SubSeq(y, 1, i - 1) = SubSeq(x, 1, i - 1)
      /\ \A i \in 1..Len(r) : y[k + i] = r[i]
      /\ SubSeq(y, 1, k) = x
  BY <1>1
<1>3. \A i \in 1..(k + 1) : DepthAt(y, i) = DepthAt(x, i)
  BY <1>1, DepthOfConcat DEF Closed
<1>4. DepthAt(x, k + 1) = 0 /\ DOMAIN x = 1..k
  BY <1>1 DEF Closed
<1>5. \A i \in 1..k : y[i] = "(" => DepthAt(y, i) # 0 \/ PrecededByOperator(SubSeq(y, 1, i - 1))
  <2> HIDE DEF y, k
  <2> SUFFICES ASSUME NEW i \in 1..k, y[i] = "("
               PROVE  DepthAt(y, i) # 0 \/ PrecededByOperator(SubSeq(y, 1, i - 1))
    OBVIOUS
  <2>1. x[i] = "(" /\ i \in DOMAIN x /\ i \in 1..(k + 1)
    BY <1>2, <1>4
  <2>2. DepthAt(x, i) # 0 \/ PrecededByOperator(SubSeq(x, 1, i - 1))
    BY <1>1, <2>1 DEF Closed
  <2> QED
    BY <1>2, <1>3, <2>1, <2>2
<1> HIDE DEF y, k
<1>6. CASE r = <<>>
  <2>1. OpenParens(y) = {}
    <3>1. Len(y) = k
      BY <1>2, <1>6
    <3> QED
      BY <1>2, <1>5, <3>1 DEF OpenParens
  <2>2. y = x
    BY <1>1, <1>6 DEF y
  <2> QED
    BY <2>1, <2>2 DEF StripParameters, y
<1>7. CASE Rest(r)
  <2>1. Len(r) >= 1 /\ y[k + 1] = "(" /\ k + 1 \in DOMAIN y /\ (k + 1) - 1 = k
    BY <1>2, <1>7 DEF Rest
  <2>2. \A i \in 1..Len(y) : i > k + 1 => y[i] # "("
    <3> SUFFICES ASSUME NEW i \in 1..Len(y), i > k + 1 PROVE y[i] # "("
      OBVIOUS
    <3>1. i - k \in 1..Len(r) /\ i = k + (i - k) /\ i - k > 1
      BY <1>2
    <3>2. y[i] = r[i - k]
      BY <1>2, <3>1
    <3> QED
      BY <1>7, <3>1, <3>2 DEF Rest
  <2>3. k + 1 \in OpenParens(y)
    <3>1. DepthAt(y, k + 1) = 0 /\ SubSeq(y, 1, (k + 1) - 1) = x
      BY <1>2, <1>3, <1>4, <2>1
    <3> QED
      BY <1>1, <2>1, <3>1 DEF OpenParens
  <2>4. \A i \in OpenParens(y) : i = k + 1
    <3> SUFFICES ASSUME NEW i \in OpenParens(y) PROVE i = k + 1
      OBVIOUS
    <3>1. /\ i \in DOMAIN y /\ y[i] = "(" /\ DepthAt(y, i) = 0
          /\ ~PrecededByOperator(SubSeq(y, 1, i - 1))
      BY DEF OpenParens
    <3>2. i \notin 1..k
      BY <1>5, <3>1
    <3>3. ~(i > k + 1)
      BY <1>2, <2>2, <3>1
    <3> QED
      BY <1>2, <3>1, <3>2, <3>3
  <2>5. OpenParens(y) = {k + 1}
    BY <2>3, <2>4
  <2>6. Max({k + 1}) = k + 1
    BY <1>2 DEF Max
  <2>7. StripParameters(y) = SubSeq(y, 1, (k + 1) - 1)
    BY <2>3, <2>5, <2>6, Zenon DEF StripParameters
  <2> QED
    BY <1>2, <2>1, <2>7 DEF y
<1> QED
  BY <1>6, <1>7

LEMMA PathOfDeclaration ==
  ASSUME NEW decl, IsDeclaration(decl)
  PROVE  /\ IsPath(decl.path)
         /\ decl.suffix = <<>> \/ (decl.suffix \in Tokens /\ IsParameterList(decl.suffix))
<1> DEFINE path == decl.path
           suffix == decl.suffix
<1>1. path \in Seq([name : Seq(STRING), arguments : Seq(STRING)]) /\ path # <<>>
  BY DEF IsDeclaration
<1>2. \A i \in DOMAIN path : IsName(path[i].name) /\ AreArguments(path[i].arguments)
  BY DEF IsDeclaration
<1>3. suffix = <<>> \/ IsParameterList(suffix)
  BY DEF IsDeclaration
<1> HIDE DEF path, suffix
<1>4. Seq(STRING) \subseteq Tokens
  BY Words
<1> DEFINE strings == Seq(STRING)
<1>5. path \in Seq([name : strings, arguments : strings]) /\ strings \subseteq Tokens
  BY <1>1, <1>4
<1> HIDE DEF strings
<1>6. \A i \in DOMAIN path : path[i] \in [name : Tokens, arguments : Tokens]
  <2> SUFFICES ASSUME NEW i \in DOMAIN path PROVE path[i] \in [name : Tokens, arguments : Tokens]
    OBVIOUS
  <2>1. path[i] \in [name : strings, arguments : strings]
    <3> DEFINE R == [name : strings, arguments : strings]
    <3>1. path \in Seq(R)
      BY <1>5
    <3> HIDE DEF R
    <3>2. path[i] \in R
      BY <3>1
    <3> QED
      BY <3>2 DEF R
  <2> QED
    BY <1>5, <2>1
<1>7. path \in Seq([name : Tokens, arguments : Tokens])
  <2> DEFINE R == [name : strings, arguments : strings]
             Q == [name : Tokens, arguments : Tokens]
  <2>1. path \in Seq(R) /\ \A i \in DOMAIN path : path[i] \in Q
    BY <1>5, <1>6
  <2> HIDE DEF R, Q
  <2>2. path \in Seq(Q)
    BY <2>1
  <2> QED
    BY <2>2 DEF Q
<1>8. IsPath(path)
  BY <1>1, <1>2, <1>6, <1>7 DEF IsPath, IsPart
<1>9. IsParameterList(suffix) => suffix \in Tokens
  <2>1. IsParameterList(suffix) => suffix \in Seq(STRING \ {"operator"})
    BY Zenon DEF IsParameterList
  <2>2. \A T, U : \A s \in Seq(T \ U) : s \in Seq(T)
    OBVIOUS
  <2>3. IsParameterList(suffix) => suffix \in Seq(STRING)
    BY <2>1, <2>2
  <2> QED
    BY <1>4, <2>3
<1>10. IsPath(path) /\ (suffix = <<>> \/ (suffix \in Tokens /\ IsParameterList(suffix)))
  BY <1>3, <1>8, <1>9
<1> QED
  BY <1>10 DEF path, suffix

LEMMA TextsOfDeclaration ==
  ASSUME NEW decl
  PROVE  /\ Demangled(decl) = LongPath(decl.path) \o decl.suffix
         /\ ShortName(decl) = ShortPath(decl.path)
BY Zenon DEF Demangled, ShortName, Joined, LongPath, ShortPath, LongPiece, ShortPiece,
             Separator, ShortPart

LEMMA DeclarationIsShortened ==
  ASSUME NEW decl, IsDeclaration(decl)
  PROVE  Shorten(Demangled(decl)) = ShortName(decl)
<1> DEFINE long == LongPath(decl.path)
           short == ShortPath(decl.path)
           suffix == decl.suffix
<1>1. /\ long \in Tokens /\ Settled(short) /\ short \in Tokens
      /\ CF!Fold(At(<<>>, 0), long) = At(short, 0)
  BY PathOfDeclaration, PathCollapses DEF Settled
<1>2. suffix = <<>> \/ (suffix \in Tokens /\ IsParameterList(suffix))
  BY PathOfDeclaration
<1>3. Demangled(decl) = long \o suffix /\ ShortName(decl) = short
  BY TextsOfDeclaration
<1> HIDE DEF long, short, suffix
<1>4. \E r, n : (r = <<>> \/ Rest(r)) /\ CF!Fold(At(<<>>, 0), long \o suffix) = At(short \o r, n)
  <2>1. CASE suffix = <<>>
    <3>1. long \o <<>> = long /\ short \o <<>> = short
      BY <1>1 DEF Tokens
    <3>2. CF!Fold(At(<<>>, 0), long \o suffix) = At(short \o <<>>, 0)
      BY <1>1, <2>1, <3>1, Zenon
    <3> QED
      BY <3>2, Zenon
  <2>2. CASE suffix # <<>>
    <3>1. suffix \in Tokens /\ IsParameterList(suffix)
      BY <1>2, <2>2
    <3>2. PICK r, n : Rest(r) /\ CF!Fold(At(short, 0), suffix) = At(short \o r, n)
      BY <1>1, <3>1, ListCollapses
    <3>3. CF!Fold(At(<<>>, 0), long \o suffix) = CF!Fold(CF!Fold(At(<<>>, 0), long), suffix)
      BY <1>1, <3>1, CF!FoldConcat DEF Tokens
    <3>4. CF!Fold(At(<<>>, 0), long \o suffix) = At(short \o r, n)
      BY <1>1, <3>2, <3>3, Zenon
    <3> QED
      BY <3>2, <3>4, Zenon
  <2> QED
    BY <2>1, <2>2
<1>5. PICK r, n : /\ r = <<>> \/ Rest(r)
                  /\ CF!Fold(At(<<>>, 0), long \o suffix) = At(short \o r, n)
  BY <1>4, Zenon
<1>6. At(short \o r, n).result = short \o r
  BY DEF At
<1>7. CollapseTemplates(long \o suffix) = short \o r
  BY <1>5, <1>6, CollapseIsFold, Zenon
<1>8. StripParameters(short \o r) = short
  BY <1>1, <1>5, ParametersStripped
<1> QED
  BY <1>3, <1>7, <1>8, Zenon DEF Shorten

-----------------------------------------------------------------------------

\* Of every declaration of the grammar, however many parts its path has and however deep
\* its template arguments nest, the name that is left is its path with the arguments
\* collapsed and without its parameters.  (collapse_templates, strip_parameters)
THEOREM DeclarationsAreShortened == PipelineSpec => []NamesAreShortened
<1>1. \A d \in Declarations : Shorten(Demangled(d)) = ShortName(d)
  BY DeclarationsAssumption, DeclarationIsShortened
<1>2. NamesAreShortened
  BY <1>1 DEF NamesAreShortened
<1> QED
  BY <1>2, PTL
=============================================================================
