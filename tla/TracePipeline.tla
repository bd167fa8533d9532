---------------------------- MODULE TracePipeline ----------------------------
(***************************************************************************)
(* The decoder's loop (decode_perf_data in bin/tracey_mctraceface_main.cpp): *)
(* each event of the parser goes through TraceFilter to StackReconstructor, *)
(* which writes through FxtWriter.  This extends the module of the         *)
(* reconstructor and instantiates those of the two others; what is modelled *)
(* here is what joins them: the names that symbols are shown under and the *)
(* cache of their string ids.                                              *)
(***************************************************************************)
EXTENDS StackReconstructor, ShortenSymbol

CONSTANTS
  Strings, EmptyString, Effective, PidName, TidName,           \* FxtWriter
  ProcessLabel, MaxStringId, MaxThreadSlots, CounterModulus,
  Configs, StartSymbols, EndSymbols,                           \* TraceFilter
  Category,      \* "trace"
  Declarations   \* declarations whose demangled names are shortened

ASSUME NamesAreStrings ==
  /\ \A s \in Frames : Shorten(s) \in Strings
  /\ EmptyString = <<>>
  /\ Category \in Strings \ {EmptyString}

ASSUME DeclarationsAssumption == \A d \in Declarations : IsDeclaration(d)

VARIABLES
  config, filter_state, slice_count, saw_start,                \* TraceFilter
  writer,           \* FxtWriter
  symbol_id_cache,  \* symbol_id_cache_: symbol -> string id
  category_id       \* category_id_

filterVars == <<config, filter_state, slice_count, saw_start>>
outputVars == <<writer, symbol_id_cache>>
pipelineVars == <<vars, filterVars, outputVars, category_id>>

F == INSTANCE TraceFilter WITH state <- filter_state, FilterEvents <- {}
W == INSTANCE FxtWriter WITH CallerStrings <- {}, held <- {}, MaxHeld <- 0

ASSUME ThreadsAreFinite == IsFiniteSet(Threads)

\* What FxtWriter asks of its constants.
ASSUME WriterAssumption == W!LimitsAssumption /\ W!NamesAssumption /\ W!ThreadsAssumption

-----------------------------------------------------------------------------
(* The reconstructor's output, as operators on [writer, cache] *)

\* Mutant: the id is taken to be the next one, though an alias may have its string.
InternPredictingId(out, symbol) ==
  IF symbol \in DOMAIN out.cache THEN out
  ELSE [writer |-> W!InternString(out.writer, Shorten(symbol)),
        cache  |-> W!Bind(out.cache, symbol, out.writer.next_string_id)]

\* intern_symbol: nothing changes when the symbol is in the cache.
InternSymbol(out, symbol) ==
  IF symbol \in DOMAIN out.cache THEN out
  ELSE LET w == W!InternString(out.writer, Shorten(symbol))
       IN  [writer |-> w,
            cache  |-> W!Bind(out.cache, symbol, W!StringId(w, Shorten(symbol)))]

\* The events that t writes, with t.
OfThread(t, written) == [i \in DOMAIN written |-> [thread |-> t, symbol |-> written[i].symbol]]

\* write_pending, for one of the events it writes: the name's id is taken from
\* the cache before ensure_thread interns what it needs.
WriteOne(out, e) ==
  LET named  == InternSymbol(out, e.symbol)
      w      == W!EnsureThread(named.writer, e.thread)
  IN  [named EXCEPT !.writer =
         W!EmitEventRecord(w, e.thread, w.thread_table[e.thread],
                           <<Category, category_id>>,
                           <<Shorten(e.symbol), named.cache[e.symbol]>>)]

WriteAll(out, written) == FoldLeft(WriteOne, out, written)

Output == [writer |-> writer, cache |-> symbol_id_cache]

BecomesOutput(out) == writer' = out.writer /\ symbol_id_cache' = out.cache

-----------------------------------------------------------------------------
(* The loop *)

\* The constructor of StackReconstructor interns the category.
PipelineInit ==
  /\ F!FilterInit
  /\ Init
  /\ writer = W!InternString(W!NewWriter, Category)
  /\ category_id = W!StringId(writer, Category)
  /\ symbol_id_cache = <<>>

\* An event is dropped when the filter says so.
Drop(e, time_ns) ==
  /\ ~F!Passes(e)
  /\ NextEvent(time_ns)
  /\ UNCHANGED <<threads, base_time, base_time_set, viewer, finished, outputVars>>

\* Else the reconstructor processes it and writes what is in r.out.
Write(e, t, r) ==
  /\ F!Passes(e)
  /\ BecomesOutput(WriteAll(Output, OfThread(t, r.out)))

BranchEvent(br) == [branch |-> TRUE, symbols |-> {br.src, br.dst}]
OtherEvent      == [branch |-> FALSE, symbols |-> {}]

FeedBranch(t, time_ns, br) ==
  /\ F!ShouldPass(BranchEvent(br))
  /\ \/ Drop(BranchEvent(br), time_ns)
     \/ /\ ProcessBranch(t, time_ns, br)
        /\ Write(BranchEvent(br), t, AfterBranch(t, time_ns, br))
  /\ UNCHANGED category_id

FeedStacktrace(t, time_ns, sample) ==
  /\ F!ShouldPass(OtherEvent)
  /\ \/ Drop(OtherEvent, time_ns)
     \/ /\ ProcessStacktrace(t, time_ns, sample)
        /\ Write(OtherEvent, t, AfterStacktrace(t, time_ns, sample))
  /\ UNCHANGED category_id

FeedDecodeError(t, time_ns) ==
  /\ F!ShouldPass(OtherEvent)
  /\ \/ Drop(OtherEvent, time_ns)
     \/ /\ DecodeErrorAt(t, time_ns)
        /\ Write(OtherEvent, t, AfterDecodeError(t, time_ns))
  /\ UNCHANGED category_id

\* What the threads have pending and what ends their frames.
FinishedInOrder(order) ==
  FlattenSeq([i \in DOMAIN order |->
                OfThread(order[i], FinishThread(threads[order[i]]).out)])

\* The threads are finished in the order of an unordered_map: any.
FinishPipeline ==
  /\ Finish
  /\ \E order \in SetToSeqs(Threads) :
       BecomesOutput(WriteAll(Output, FinishedInOrder(order)))
  /\ UNCHANGED <<filterVars, category_id>>

PipelineNext ==
  \/ \E t \in Threads, time_ns \in Times, br \in Branches : FeedBranch(t, time_ns, br)
  \/ \E t \in Threads, time_ns \in Times, s \in Samples : FeedStacktrace(t, time_ns, s)
  \/ \E t \in Threads, time_ns \in Times : FeedDecodeError(t, time_ns)
  \/ FinishPipeline

PipelineSpec == PipelineInit /\ [][PipelineNext]_pipelineVars

-----------------------------------------------------------------------------
(* Properties *)

CacheResolves(s) == W!Decodes(writer, Shorten(s), symbol_id_cache[s])

\* No event is shown under another thread, though the events of many threads are
\* pending and their slots are reused before they are written.
\* (write_pending, ensure_thread)
EventsKeepTheirThread == W!ThreadsFaithful

\* Until the writer warns that the string ids are exhausted, each event written
\* names its symbol and category, and so will those that use a cached id.
\* (intern_symbol, write_pending)
EventsKeepTheirNames ==
  ~writer.string_id_warning_issued =>
    /\ "name" \notin writer.misread
    /\ W!Decodes(writer, Category, category_id)
    /\ \A s \in DOMAIN symbol_id_cache : CacheResolves(s)

\* Whatever its parts, a symbol's name is the path of its declaration with the
\* template arguments collapsed and without its parameters.  No state changes
\* it, so it is looked at in the first.  (collapse_templates, strip_parameters)
NamesAreShortened ==
  events = 0 => \A d \in Declarations : Shorten(Demangled(d)) = ShortName(d)

\* "strips function parameter lists (foo(int) -> foo)": there is a name left.
\* (shorten_symbol.hpp:12)
SymbolsHaveNames == \A s \in DOMAIN symbol_id_cache : symbol_id_cache[s] # 0

\* When the start symbol was not seen, which is warned of, the output holds no
\* thread and no name besides the category.  (decode_perf_data, should_pass)
WarnedOutputIsEmpty ==
  F!StartSymbolMissing =>
    writer = W!InternString(W!NewWriter, Category) /\ symbol_id_cache = <<>>
=============================================================================
