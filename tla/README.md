# tracey_mctraceface in TLA+

tracey_mctraceface records the execution of a program with `perf record`
(Intel PT, or sampling), decodes it with `perf script`, rebuilds the call stack
of every thread, and writes a Fuchsia trace (FXT) that a viewer shows as nested
spans. This directory specifies the parts of it in which order, limits and
failures matter, checks them with TLC, and proves the most important properties
with TLAPS.

Paths below are those of the repository: `lib/` is `src/lib/`, `main.cpp` is
`src/bin/tracey_mctraceface_main.cpp`, tests are in `test/unit/`.

    tlc -workers 2 -config FxtWriter_exhaust.cfg MCFxtWriter
    tlapm FxtWriterProofs.tla

## 1. The system

    perf record  --perf.data-->  perf script  --lines-->  PerfScriptParser
        ^ signals, wait             (Subprocess)               | Event
    RecordSession (run, attach)                            TraceFilter
        |                                                      | Event
        v                                                 StackReconstructor
    TraceServer  <--trace.fxt--  sink  <--bytes--  FxtWriter <-' shorten_symbol

| Component | State | Operations | What is hard | What makes it correct |
|---|---|---|---|---|
| `FxtWriter` | string table, next id, thread table, slot counter, named processes | intern a string, register a thread, write events and names | 15-bit ids that run out, 255 slots behind an 8-bit counter, several internings in one operation | the reader resolves each reference to what the writer meant |
| `StackReconstructor` | per thread: stack, inactive stacks, pending events and their time; base time; id cache | branch, sample, decode error, finish | inferred frames, nested kernel contexts and gaps, times shared out later than the events arrive | spans are the frames, they nest, they are all ended, a thread resumes where it was interrupted |
| `TraceFilter` | Waiting / Recording / Done, slice count, start seen | should_pass | start and end in one event, no start symbol, several slices | passes exactly the regions, warns exactly when it has kept everything out |
| decode loop | the composition of the three | one event at a time, finish | ids cached across evictions, slots reused while events are pending, a failure at any step | events name their thread and symbol; without a warning the output is whole |
| `BackgroundProcess` | pid | spawn, signal, wait, try_wait | the number of a reaped child, `waitpid` interrupted | signals reach the child only, wait means ended |
| `run`, `attach` | the step, the SIGINT flag and handler, the perf child | spawn, poll, snapshot, terminate, wait, decode | Ctrl+C between any two steps, perf ending by itself | the recording is complete when it is read, Ctrl+C ends everything |
| `TraceServer` | flag, one client, its descriptor | select, accept, recv, send | one thread, blocking calls, signals, clients that leave or stay silent | clients are served, connections closed, Ctrl+C stops it |
| `PerfDriver`, `PerfCapabilities` | none | argument lists | option and signal have to agree | see `SnapshotComesFirst` |
| `PerfScriptParser` | the lines of the current event | feed a line, finish | an event ends when the next begins, lines cut off, fractions of any length | each event once, when it is complete, in order |
| `shorten_symbol` | none | collapse template arguments, strip parameters | nesting, operators, parentheses that are no parameter list | the path of the declaration remains |
| `Subprocess` | pipe, pid | spawn, read a line, wait | a full pipe, a child that fails or is killed, failures before and after the fork | reads all there is, never waits for a child that waits for it, leaves none behind |
| `FileSink`, `GzipSink`, `ZstdSink` | a buffer | open, write, close | errors at a write and at close | what reaches the disk is a prefix of what was written |

The whole tool is single-threaded; its concurrency is that of processes,
signals and network clients. The core (writer, reconstructor, filter) is
sequential, and what is hard in it are long sequences of legal calls that meet a
limit. PROJECT.json lists the hazards one by one, with their lines.

## 2. The modules

| Module | Models | Composes |
|---|---|---|
| `FxtWriter` | `lib/fxt_writer.cpp`, and the reader of the stream | |
| `SlotRing` | abstract: a table of slots in which a new entry replaces a single one, the oldest until the counter wraps | |
| `FxtWriterOrder` | `FxtWriter` with the order of registration of its threads; implements `SlotRing` | `FxtWriter`, `SlotRing` |
| `StackReconstructor` | `lib/stack_reconstructor.cpp`, and the viewer of the spans | |
| `StackContexts` | the same with the program and the processor that cause the input: what each thread really does | `StackReconstructor` |
| `TraceFilter` | `lib/trace_filter.cpp` | |
| `TraceFilterSlices` | the filter with its input and answers, and the regions as intervals | `TraceFilter` |
| `ShortenSymbol` | `lib/shorten_symbol.cpp`, and a grammar of declarations | |
| `TracePipeline` | the loop of `decode_perf_data` in `main.cpp`, with the reconstructor's id cache | extends `StackReconstructor` and `ShortenSymbol`; filter and writer by INSTANCE |
| `TracePipelineRegions` | the same with the events of the input, to say what the output has to do with the regions | extends `TracePipeline`; `TraceFilterSlices` by INSTANCE |
| `PerfScriptParser` | `lib/perf_script_parser.cpp` | |
| `PerfScriptEvents` | the trace that a text stands for, by the places where its events begin and end | `PerfScriptParser` |
| `DecodedTrace` | abstract: an output that grows as a prefix of the trace of the text read so far, whatever that trace is | |
| `DecodeSession` | `decode_perf_data`, `lib/subprocess.cpp` and the sinks with perf script and the disk; implements `DecodedTrace` for the trace of `PerfScriptEvents` | `PerfScriptEvents`, `DecodedTrace` |
| `BackgroundProcess` | `lib/background_process.cpp` and the child as the kernel sees it | |
| `RecordSession` | `run_run` and `run_attach` in `main.cpp`, Ctrl+C and perf | `BackgroundProcess` |
| `TraceServer` | `lib/trace_server.cpp`, Ctrl+C and the clients | |
| `FoldTheorems` | theorems about `FoldLeft` and `FlattenSeq` | |
| `FxtWriterProofs`, `StackReconstructorProofs`, `TraceFilterProofs`, `TracePipelineProofs`, `DecodeSessionProofs`, `RecordSessionProofs`, `TraceServerProofs` | theorems about the module of that name (`FxtWriterOrder` too for the writer, `StackContexts` too for the reconstructor, `TraceFilterSlices` for the filter) | `FoldTheorems`; the pipeline's uses those of the writer and of the reconstructor |
| `MC...` | the instances for TLC | |

How they correspond to the code:

* **FxtWriter.** The writer is one record with the names of the class's members,
  and an operation is an operator from writer to writer. `ensure_thread`, which
  calls `write_process_name` and `write_thread_name`, which call
  `intern_string`, is the composition of theirs. A record of the stream is what
  the reader learns from it: a string record binds an id (`reader_strings`), a
  thread record a slot (`reader_threads`), and any other record is resolved, and
  what is resolved wrongly is put in `misread`. `Effective[s]` is the string as it
  is stored: `emit_string_record` truncates. `held` are ids that callers keep, as
  the reconstructor does.
* **StackReconstructor.** A handler is an operator on the `ThreadInfo` of its
  thread. `flush` and its distribution of time are computed exactly, in whole
  nanoseconds; times are those of a `uint64_t`, and mapped
  times wrap modulo `TimeModulus`. `early` records that an event came before the
  first one, where they do. The one simplification is
  that consecutive `add_event` calls at the same time are one `AddEvents`: only
  the first of them can flush. `viewer` replays what is written.
* **StackContexts.** Nothing here is the reconstructor's: `program[t]` is what the
  thread does, as a stack of contexts (the thread, kernel entries, gaps), each
  with its true callstack. Each action is one step of the program and the branch
  that Intel PT has of it. `shown` is how much of a callstack the trace has
  revealed so far; a decode error hides all of it again.
* **TraceFilter.** Symbols are values; which of them begin with the configured
  text is a constant set.
* **ShortenSymbol.** A symbol is a sequence of tokens: brackets, "operator" (any
  text that ends so), and opaque text in between. `Demangled` and `ShortName`
  are the grammar it is compared with: paths of parts with template arguments,
  followed by a parameter list or nothing. `IsDeclaration` says which declarations
  there are: a name has brackets of its own only after `operator` and in braces,
  template arguments are balanced, a parameter list has no parentheses of its own
  outside of template arguments.
* **TracePipeline.** Each event is given to the filter and, if it passes, to the
  reconstructor, and what that writes goes through `intern_symbol`, with
  `Shorten`, and `ensure_thread` in `write_pending`'s order.
* **TracePipelineRegions.** `input` has the events as the filter looks at them, with
  their times and the symbols that their handlers show (`Shows`; what an event only
  shows if there is a callstack to resume is in `Resumes`). The regions are those of
  `TraceFilterSlices`, intervals of this input. `OutputIsOfTheRegions` compares them
  with what the output has accumulated: each name in it belongs to an event of a
  region, after `finish()` each event of a region has its names in it, its base is the
  time of the first of them, and nothing is later than the last.
* **PerfScriptParser.** A line is a record of what the parser looks for in it (is
  there an arrow, a source address, a `freq:`), a symbol with its offset a sequence
  of pieces of which `+0x` is one. `parse_group` has each of its returns.
* **DecodeSession.** `pc` names the next step of `decode_perf_data`, `wait` or the
  destructors that run when an exception unwinds: sink first, then Subprocess, the
  reverse of their construction. perf script runs on its own: it prints into a pipe
  of `PipeSize` lines, or exits with an error, or is killed in the middle of a line
  (`Cuts`: what is left may be malformed, or parse with a shorter name, time or id). A write puts records into a buffer of which any part may reach the
  disk; it throws when the disk is full and `close` does not. What the
  reconstructor holds back is any suffix of what it was given.
* **RecordSession.** `pc` names the step that is about to run; Ctrl+C may come
  before each of them and, in `wait`, inside. Capabilities and options are a
  configuration; what they have in common with the code is the snapshot option.
* **TraceServer.** `pc` names the system call. A signal may arrive before a call
  or, if it blocks, inside. An answer is counted in units that a connection
  buffers.

Things outside of the code are external in the map: the reader and the viewer,
the program and the processor, the demangler, the kernel's side of processes and
pipes, perf, the clients.

## 3. The runs

| Run | Question | Bounds |
|---|---|---|
| `fxt_exhaust` | what do ids and slots mean to the reader, before and after exhaustion; is the thread table a ring of slots | 3 ids for 7 strings, 2 slots and a counter modulo 3 for 3 threads, 2 kept ids |
| `stack_events` | is the output right for every kind of branch, sample and decode error, and which of it survives time that steps back, within the trace or before its first event | 1 thread, 4 events from 20 ns on, steps of -6, 0 and 3 ns, one of them back |
| `stack_contexts` | are the callstacks those of the program, and does a thread resume with the spans it was interrupted in | 1 thread that is one or two calls deep, 5 steps of the program |
| `filter_slices` | does the filter pass exactly the regions | 5 events, 8 configurations |
| `pipeline_events` | do written events name their thread and symbol; are names shortened rightly; is the output made of the regions' events, and empty when warned of | 6 ids, 1 slot for 2 threads, 4 symbols, 4 events, no filter or slices; declarations of 1 and 2 parts |
| `decode_session` | whatever fails and whenever: what is on the disk, what is warned of, what is left behind, does it end | reports of up to 3 lines of 7 forms, a pipe of 1 line, disks of 0, 2 and 9 records |
| `server_clients` | are clients served, connections closed, Ctrl+C obeyed | 2 clients of which one may be silent, 2 Ctrl+C, bodies of 2 units through a window of 1 |
| `record_session` | is the recording complete when read, and does everything end | all configurations, 2 Ctrl+C |

Why these bounds are enough for the interesting cases. 3 ids are exhausted by one
registration of a thread, which interns three strings, so that eviction happens
within an operation as well as between them; a counter modulo `slots + 1` wraps as
256 does for 255. 3 ns do not divide by 2, which is what the rounding of the time
shares needs; a step of -6 leads to the first event when two steps of 3 precede it, so
that what is pending is later than the event that flushes it, and below the first time,
where the subtraction wraps, when fewer do. 5 steps
are two nested kernel contexts or gaps and both returns, or a decode error within
one and what follows. 2 events of the filter are a region; 5 are two, with one in
between. 4 events of the pipeline are an event in front of a region and one behind it, or
two regions with the first one's frames still open and pending when the second begins. 6 ids are the category, the four strings that two threads need, and one
symbol, so that the second symbol evicts. 3 lines are an event of several lines
and the beginning of the next, or an event between two others; a pipe of 1 line
makes perf script wait for each read; a disk of 0 fails at the preamble, one of 2
in the middle or at close, one of 9 never. A window of 1 blocks a send in the
middle of the body. Two Ctrl+C are one in the loop and one after the handler is
restored.

Deadlock is not checked where the input is bounded or the program ends; it is in
`fxt_exhaust`.

### What is false, and is documented otherwise

These runs check one statement of a comment, a document or a test each, and end
with a violation.

| Run | Statement | What the code does |
|---|---|---|
| `stack_interrupt` | README.md:246: "Handles call/return, syscall/interrupt context switches, trace gaps" | `int` is a jump but `iret` leaves a context, so the frames are not the program's |
| `decode_exec` | `subprocess.hpp:20`: "@throws std::runtime_error on fork/pipe/exec failure." | a failed exec is exit code 127, hence a warning, and `decode_perf_data` returns 0 |
| `shorten_anonymous` | `shorten_symbol.hpp:12`: "strips function parameter lists (foo(int) → foo)" | `(anonymous namespace)::g` is shortened to the empty string, whose id is 0 |
| `record_orphan` | `main.cpp:351`: "Press Ctrl+C to stop." | before the handler is installed Ctrl+C kills the tool and leaves perf recording |

Others have no run of their own, because a property that holds says what the code
does instead, or because they are seen in the source alone:

* `trace_validation_test.cpp:242` has "Monotonic timestamps per thread". An
  inferred frame begins at the creation of its callstack
  (`stack_reconstructor.cpp:83`), before events already written; only the ends
  are in order (`EndsInOrder`).
* `stack_reconstructor.hpp:79` has a cache "raw symbol → FXT string ID". An id in it
  is stale when the writer has evicted its string, which happens
  to id 1 alone (`OnlyIdOneIsRecycled`) and not before the warning of exhaustion
  (the condition of `EventsKeepTheirNames`).
* `shorten_symbol` cuts at the last parenthesis that opens outside of braces. With
  a parameter of function pointer type, or a local name in a function with
  parameters, that is not where the parameter list begins; a `->` within
  template arguments ends a bracket. The grammar of `Demangled` has none of them.
* `subprocess.hpp:20` lets the constructor throw. When that is for `fdopen`, the
  child is left unreaped (`SpawnFails`).
* `fxt_writer.cpp:110` and README.md:249 speak of LRU eviction. The smallest id is
  evicted and goes to the new string, so it is id 1 every time
  (`OnlyIdOneIsRecycled`), and from the second eviction on the newest string goes.
* `fxt_writer.hpp:106` speaks of a circular buffer. The 8-bit counter wraps at 256,
  not at 255, so slot 1 is then given out twice running (`Horizon` in `SlotRing`).
* `trace_server.hpp:16`: "Blocks until Ctrl+C". A client that sends nothing
  keeps the server in `recv`, where a Ctrl+C that came just before it does not
  help (the exception in `FlagStopsServer`), and one that comes between
  `sigaction` and `server_running = 1` is lost.
* A second Ctrl+C, after the handler is restored (`main.cpp:370`) and before perf is told
  to stop, leaves perf recording as well; `record_orphan` shows the shorter way.
* `background_process.hpp:44` promises -1 on signal death; `wait` returns minus the
  signal's number (`ExitCode`).

The passing runs state what remains true in spite of them: exhaustion spoils id 1
and no other (`HeldAboveOneStayValid`, `OnlyIdOneIsRecycled`), a lost slot never
misattributes an event (`ThreadsFaithful`, `EventsKeepTheirThread`,
`ThreadSlotsAreARing`), ends never go back (`EndsInOrder`), a step back within the trace writes nothing at a
time that the trace has not reached (`TimesStayInTrace`), contexts entered by
syscall and hardware interrupt are kept (`FramesMatchProgram`,
`ResumesWhereInterrupted`), and an output that was not warned of is whole as far
as the disk had room (`UnwarnedOutputIsWhole`).

## 4. Fairness

* `TraceServer`: weak fairness of the server's steps together (it is one thread,
  and the kernel schedules it), and for each client that is not silent of sending
  a request and of reading. `select` has a timeout, so it needs no client. No
  fairness of connecting, leaving or Ctrl+C. Which clients are silent is a
  constant, and the liveness properties except the behaviours in which such a
  client has the server for ever: the code has no timeout for `recv` and `send`.
* `RecordSession`: weak fairness of the tool's steps together, of perf starting,
  and of perf reacting to SIGINT and SIGTERM. None of perf ending by itself, of
  taking snapshots, or of Ctrl+C: `run` may wait for ever for a program that runs
  for ever.
* `DecodeSession`: weak fairness of the tool's steps together and of perf script's
  steps together: both are scheduled, perf script waits for nothing but room in
  the pipe, and its work ends. None of its being killed. `DecodingEnds` therefore
  depends on the order in `wait()` and `~Subprocess`: the pipe is closed first.

All other specifications have safety properties only.

## 5. The proofs

Every theorem is for all values of the constants: any number of threads, symbols,
strings and lines, any width of ids, slots, counters and times, inputs of any
length. They assume only the named ASSUMEs of the modules, which TLC evaluates in
the runs, and two theorems say more in their own ASSUME: `SlotsAreARing` that the counter
can count the slots, those about `StackContexts` that the kernel is entered by
branches that are entries to `process_branch` (`EntersContexts`; `stack_interrupt` shows
what happens with another one):

| Assumption | What it says, and why it is so |
|---|---|
| `LimitsAssumption`, `NamesAssumption`, `ThreadsAssumption` (`FxtWriter`; `WriterAssumption` in `TracePipeline`) | limits are positive, the empty string and all names are strings that the writer can store; a thread is its pid and tid |
| `TimeAssumption` (`StackReconstructor`) | the modulus is positive and the first time is below it |
| `InputAssumption` (`StackReconstructor`) | branches have the fields and kinds that `parse_group` makes, samples are sequences of frames |
| `NamesAreStrings`, `ThreadsAreFinite` (`TracePipeline`) | a shortened symbol is a string of the writer; a trace has finitely many threads |
| `DeclarationsAssumption` (`TracePipeline`) | the declarations are of the grammar (`IsDeclaration`), whatever tokens they are made of |
| `ProgramAssumption` (`StackContexts`) | the callstack that a thread has when its trace begins is a sequence of symbols and not empty |
| `DigitsAssumption`, `TimesAssumption`, `SessionAssumption`, `RecordAssumption`, `ServerAssumption` | digits, sizes and lines are what their names say |

**Induction over sequences (`FoldTheorems`).** What the model computes over
sequences is written with `FoldLeft` and `FlattenSeq`. The induction theorems of the
library take the property as an operator, which the provers cannot instantiate.
`Induction` and `AppendInduction` take it as a set instead, of numbers or of
sequences, and follow from the principle of the least element. With them
`FoldAppend`, `FoldConcat` and `FlattenAppend` say what one more element adds, from
which the proofs of the other modules go step by step.

**`FxtWriterProofs`** proves every property that `fxt_exhaust` checks. The invariant of
`FxtWriter` is `WriterInv(writer) /\ HeldType /\ HeldResolve`.
`WriterInv` has the types, `IdsDenseIn` (ids in use are exactly 1 to
`next_string_id - 1`), the agreement of both tables with the reader, and the absence
of misreadings before exhaustion. None of the properties is inductive alone: that
eviction spoils only id 1 needs that id 1 is in use, which needs dense ids, which
need that an evicted id goes straight back to the table. The operations are
composed, and so are the lemmas: for `InternString`, `AssignSlot`, the names and the
emissions there is one each, that says that the operation preserves `WriterInv` and
that the new writer `Evolves` from the old one (no binding above id 1 changes;
bindings at 1 change only with the warning). `Evolves` is transitive, which carries
it through `EmitEvent`.

The refinement of `SlotRing` (`SlotsAreARing`) is for a counter that takes at least as
many values as there are slots (`CountsSlots`: 256 and 255). That no step registers
more than one thread is `StepRegistersOne`. `RingInv` relates the order of
registration to the table: it lists the table's threads once each; while slots are
free, the i-th has slot i; when none is, each thread has the slot after that of the
thread before it and the counter points at the first, but only as long as the
counter has not wrapped (`InTurn`). From then on what remains is that every slot is
taken, so that a new thread replaces exactly one (`Full`).

**`StackReconstructorProofs`** proves all five properties of `stack_events`, type
correctness, and, in its
second half, both of `stack_contexts`. The idea is that written and pending events are one thing: `Settle` says what a pending
event makes of the frames that are open, and `Good(view, ti)` that the viewer's
open spans, once the pending events have been settled, are the frames of all of the
thread's callstacks, outermost first. Each handler is a composition of `Call`,
`Ret`, `Flush`, `ClearCallstack` and the like, and there is a lemma for each that it
preserves `Good`; `flush` is the difficult one, where a pending sequence of any
length is written, each event at its share of the interval. `IInv` is the
conjunction of

* `Types`;
* `ThreadsTracked`, `Good` for every thread, from which `FramesAreOpenSpans`, `EndsNest`
  and `BalancedAtFinish` follow;
* `ThreadsTimely`: as long as the input is in order, the subtraction of the base time
  does not wrap, no thread is ahead of the latest event, and nothing that is
  pending can be written before what was written. `EndsInOrder` needs it, and the
  bound on the rounded shares of an interval (`numeric_edge` at `flush`);
* `ThreadsWithin`: as long as no event is earlier than the first, all that a thread
  has written or has pending, the times that its callstacks were created and those of
  the frames to be inferred are within the time that the latest event has in the trace.
  This is not about order: `Within` is kept with respect to any later limit
  (`StaysWithin`), by each operation, and `TimesStayInTrace` is a part of it;
* `NothingYet`: before the first event that is mapped no thread has a time of its own.

`CallstacksAreTheProgram` and `ThreadsResumeWhereInterrupted` are about what these frames
and spans have to do with the program. `CInv` adds to `IInv`, for each thread, that
`Reflects(program, thread, spans)`, with three parts:

* `ContextsOK`: only the outermost context is the thread itself, only the innermost one
  can be a gap, and a gap of which nothing is shown lies in a context of which nothing
  is shown;
* `Matches`, for a number k of contexts that a loss of sync has made the reconstructor
  forget: those are the outermost k and nothing of them is shown; each other
  context has the callstack at its place, with the frames that are shown of it. A gap
  has no callstack of its own: its marker is on that of the context around it;
* `SpansOK`: the spans that a context found open when it was entered are open, and are no
  more than what is shown of the contexts around it. The second half is what makes
  it inductive: whatever a context does touches only spans above that number.

`FramesMatchProgram` is `Matches` flattened (`FlatOpen`). For `SpansOK` the frames alone
are not enough, since a span that is closed and begun again has the same name: `Standing`
is `Settle` with the numbers of the begin events, so it names the spans that will be
open once what is pending is written, and `Retains(view, before, after, n)` says that a
handler leaves the lowest n of them alone. For each operation of the reconstructor there
is a lemma on what it makes of stack, inactive callstacks and `Retains`
(`CallMoves`, `LeaveContextMoves`, ...); for each branch of a program one that the two
sides agree again afterwards (`CallFollowed`, `LeaveFollowed`, ...).

**`TraceFilterProofs`** proves all three properties of `filter_slices`. That the
machine of `should_pass` passes exactly the regions, which are defined as intervals
of the input, is by `RegionsInv`: with `slice_count` = k, the first k regions of the
chain have ended within the input seen so far, and the next one has begun exactly
when the state is Recording. The chain is a function of the whole input, so the
proof has to show that one more event changes no region that has ended.
`WarnsExactlyWhenEmpty` links `saw_start` with the answers and the state.

**`TracePipelineProofs`** proves what is true of the three together: threads and names
are kept and a warned output is empty. `PipelineInv` is `IInv` of the reconstructor,
`OutputGood` of the writer and the cache, and `NothingBeforeStart`. The theorems of
the parts are used, not repeated: a step of the pipeline is a step of the
reconstructor or leaves it alone but for the clock (so a filtered output is balanced
like any other), and what is written is a fold of operations of which each `Evolves`
the writer. `OutputGood` says that until exhaustion every cached id decodes to its
shortened symbol.

`DeclarationsAreShortened` proves `NamesAreShortened` for declarations of any length
and any depth. The fold of `collapse_templates` is followed along the grammar, token by token
in a name (`NameCollapses`), in arguments (`ArgumentsSkipped`: the depth of the code
is that of the grammar) and in a parameter list (`ListCollapses`), and part by part
along the path (`PathCollapses`), always at depth 0 between two of them. What comes out of the
path is `Settled`: it has no place where a parameter list may begin and does not end
in `operator`. This is the invariant of the induction: two names each of which is
closed are closed together (`ClosedConcat`, by `DepthOfConcat`), so the parenthesis
of the list is the only candidate for `strip_parameters`, and what it leaves is the
path.

**`DecodeSessionProofs`** proves every safety property of `decode_session`, and the
refinement of `DecodedTrace`. `SessionInv` has four
parts:

* `IInv`: for each `pc`, whether the pipe is open, what may have become of perf
  script, and whether the sink is open. From it follow `NothingIsLeftBehind` (the
  child in `returned` was reaped since only `waitpid` consumes a zombie) and
  `OnlyFailureCutsOff` (at `finish` and later perf script has ended, which `EndOfFile`
  learns from the pipe's write end);
* `PerfInv`: what was read and what is in the pipe are what was printed, and that is
  the report's beginning as long as nothing was killed; a perf script that
  ended with success has printed all of it;
* `DataInv`: for each `pc`, how disk, buffer, pending events and the parser's lines
  together make the trace of the text read so far: complete after the end of the
  text, otherwise without the group that may still grow. When it fails, what is on
  the disk is the beginning of it;
* `Codes`: a warning is given exactly for exit codes other than 0, and 0 is success
  alone.

The heart is `FeedText` and `FinishText`: a parser that is fed line by line, and
learns that an event is complete from the line after it, delivers in the end what
`TraceOf` says of the whole text, which looks at each line for the groups that begin
there. `OutputIsOfTheText` is the refinement: the initial state maps to the initial
state, and each step to one of `DecodedTrace` or a stutter; the output is what has
been given to the disk, the text what was read, failures included.

`TimesInOrder` needs of `SessionInv` only that the report is made of `Lines`. `LeadingInOrder` is by induction on the number of digits: of two fractions of
which the first is not later, the numbers made of the leading n digits, with a 0 for
each that is missing, are in order. `parse_time` takes the leading `TimeDigits` of them
after a `hi` that is multiplied by the same power of ten.

**`RecordSessionProofs`** proves `RecordingHasEnded`, `SignalsReachOnlyPerf` and
`SnapshotComesFirst` for any set of configurations and any number of Ctrl+C.
The first rests on `HandlerOnlyInLoop`: a caught signal would make the unchecked
`waitpid` in `wait()` return early, and what prevents it is that `run_attach`
restores the default handler before it waits. The second rests on `PidIsCurrent`:
`pid_` is reset in every path that reaps. The third is an invariant on the
position of the signals sent, `SignalsInOrder`. `SessionTypeOK` adds the types, by an
invariant (`TypeInv`) that also keeps the signals that perf may die of within the
numbers the exit code is computed from.

**`TraceServerProofs`** proves `TypeOK` and `ConnectionsAreClosed` for any clients,
window and length of answer. The invariant adds to the properties that there is a
client exactly in `recv` and `send` (`OneClient`), that `accept` is called only when a
connection waits (`Waiting`), and that in the loop a Ctrl+C is caught, so that it
cannot end the server with a client's descriptor open (`HandlerInLoop`).

### Only model-checked

* Liveness (`FlagStopsServer`, `ClientsAreServed`, `CtrlCEndsAttach`,
  `EndOfPerfIsNoticed`, `DecodingEnds`): with fairness it is out of the prover's reach.
* `OutputIsOfTheRegions`: its proof would join `RegionsInv` of the filter with an
  invariant on the names that are pending in the reconstructor, and is not written.

## 6. What is not modelled

* The bits of FXT and perf records, what compression does to the bytes, formatting,
  logging, option parsing, HTTP text, the search for the parts of a line.
* The stopped mode of `BackgroundProcess`, which no command uses, and its
  destructor; the move of a `FileSink`, which nothing uses.
* The browser that the server forks.
* Power and event samples beyond the parser: `process_event` ignores them, as it
  does decode errors without a time.

What some properties do not say: once the ids are exhausted a cached id 1 may be stale and
an event misnamed (`EventsKeepTheirNames` and `FaithfulUntilExhausted` end with the
warning); begins may be late, only ends are in order (`EndsInOrder`); an event before
the first one is far in the future of the trace (`TimesStayInTrace` excludes it);
a line that is cut off is read as it is, so the last event may be shown wrongly
(`OutputFollowsText` has the cut line as text); the snapshot by SIGINT at exit is not
required, only that SIGUSR2 is sent when it has to be (`SnapshotComesFirst`).

Abstractions to know of: a request is what the first `recv` holds; a snapshot
takes no time; the two 200 ms pauses are steps of any length, so
the order of perf's reaction and the next signal is free. In `DecodeSession` the
lines are those of one thread and everything passes the filter (`TracePipeline`
has threads and filter); the pipe counts whole lines; the disk can fill up but has
no other error; the three sinks are alike, since each flushes when it likes; Ctrl+C
is in `RecordSession` only. In `ShortenSymbol` text that ends in "operator" counts
as operator, which is what the code does. Its grammar leaves out what the code treats
otherwise: in an anonymous namespace (`shorten_anonymous`) and in a parameter of
function type, `f(int (*)(int))`, the last parenthesis is not that of the list, and the
`<` of an operator that is a template argument is counted as a bracket.

## 7. Plan

Done: the writer, the reconstructor with the program it traces, the filter, the
loop that composes them, the parser, the decode session with its failures, the
record session, the server. In this order:

1. The filter's effect on stacks: `StackContexts` with `TraceFilter` in between. A frame
   that is open at the end of a slice stays open across the gap, as if its function had
   run on, and `OutputIsOfTheRegions` allows it: it is a frame of the slice. Then the proof
   of `OutputIsOfTheRegions`.
2. `TraceServer`: requests that arrive in segments, and the browser's descriptor.
3. Ctrl+C during decoding: `RecordSession` and `DecodeSession` composed.
