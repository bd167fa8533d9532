-------------------------- MODULE StackReconstructor --------------------------
(***************************************************************************)
(* StackReconstructor (lib/stack_reconstructor.cpp): branch events, stack  *)
(* samples and decode errors of each thread become nested begin and end    *)
(* events.  A location is its symbol: the address and the offset are never *)
(* read.  The events that are written go to a viewer of the trace, which   *)
(* replays them: the checks of test/unit/trace_validation_test.cpp.        *)
(*                                                                         *)
(* A handler is an operator on the ThreadInfo of its thread, with a field  *)
(* out in which the events it writes are collected.  Consecutive           *)
(* add_event calls at one time are a single AddEvents: only the first can  *)
(* find another pending_time and flush.                                    *)
(***************************************************************************)
EXTENDS Integers, Sequences, FiniteSetsExt, SequencesExt

CONSTANTS
  Threads,      \* threads of the trace, the keys of threads_
  Symbols,      \* symbols that occur in the input
  Untraced,     \* "[untraced]"
  Unknown,      \* "[unknown]"
  Branches,     \* the branch events of the input: [kind, trace_state, src, dst]
  Samples,      \* the callstacks of the input, outermost frame first
  FirstTime,    \* time_ns of the first event
  TimeSteps,    \* how far an event may be from the latest one, in ns
  TimeModulus,  \* uint64_t wraps here, 2^64 in the code
  MaxEvents     \* length of the input (bound of the model)

Frames == Symbols \cup {Untraced, Unknown}
Time   == 0..(TimeModulus - 1)

Kinds ==
  {"None", "Call", "Return", "Jump", "Interrupt", "Async", "TxAbort",
   "Syscall", "HardwareInterrupt", "Iret", "Sysret"}

ASSUME TimeAssumption ==
  /\ TimeModulus \in Nat \ {0}
  /\ FirstTime \in Time
  /\ TimeSteps \subseteq Int
  /\ MaxEvents \in Nat

ASSUME InputAssumption ==
  /\ Branches \subseteq [kind : Kinds, trace_state : {"None", "Start", "End"},
                          src : Frames, dst : Frames]
  /\ \A s \in Samples : s \in Seq(Frames)

VARIABLES
  threads,        \* threads_: thread -> ThreadInfo
  base_time,      \* base_time_
  base_time_set,  \* base_time_set_
  viewer,         \* thread -> what a viewer has made of the events written
  clock,          \* the time of the latest event of the input
  in_order,       \* no event of the input was earlier than one before it
  early,          \* an event of the input was earlier than base_time_
  events,         \* how many events there have been
  finished        \* finish() has run

vars ==
  <<threads, base_time, base_time_set, viewer, clock, in_order, early, events, finished>>

NewThreadInfo ==
  [ stack           |-> <<>>,  \* callstack.stack
    create_time     |-> 0,     \* callstack.create_time
    inactive        |-> <<>>,  \* inactive_callstacks, innermost last
    pending         |-> <<>>,  \* pending_events
    pending_time    |-> 0,
    last_event_time |-> 0,
    out             |-> <<>> ]

-----------------------------------------------------------------------------
(* Pending events and what flush makes of them *)

CallEvent(symbol) == [kind |-> "Call", symbol |-> symbol, reset_time |-> 0]
RetEvent(symbol)  == [kind |-> "Ret",  symbol |-> symbol, reset_time |-> 0]
RetFromUntraced(create_time) ==
  [kind |-> "RetFromUntraced", symbol |-> Unknown, reset_time |-> create_time]

BeginAt(symbol, time) == [type |-> "begin", symbol |-> symbol, time |-> time]
EndAt(symbol, time)   == [type |-> "end",   symbol |-> symbol, time |-> time]

\* write_pending.
Written(ev, time) ==
  CASE ev.kind = "Call" -> <<BeginAt(ev.symbol, time)>>
    [] ev.kind = "Ret"  -> <<EndAt(ev.symbol, time)>>
    [] ev.kind = "RetFromUntraced" ->
         <<BeginAt(Unknown, ev.reset_time), EndAt(Unknown, time)>>

Calls(pending) == {i \in DOMAIN pending : pending[i].kind = "Call"}

\* Mutant: each call takes its part of the whole, not of what is left.
OffsetsOfTotal(pending, total) ==
  LET calls == Calls(pending)
      offset[i \in DOMAIN pending] ==
        IF i = 1 THEN 0
        ELSE IF i - 1 \in calls
             THEN offset[i - 1] + total \div Cardinality({c \in calls : c >= i - 1})
             ELSE offset[i - 1]
  IN  offset

\* ns_offset at each pending event: total is shared evenly among the calls, in
\* whole nanoseconds, each call taking its part of what is left.
Offsets(pending, total) ==
  LET calls == Calls(pending)
      offset[i \in DOMAIN pending] ==
        IF i = 1 THEN 0
        ELSE IF i - 1 \in calls
             THEN offset[i - 1] + (total - offset[i - 1])
                                  \div Cardinality({c \in calls : c >= i - 1})
             ELSE offset[i - 1]
  IN  offset

\* Mutant: to_time is not compared with pending_time, and uint64_t wraps.
FlushedUnguarded(r, to_time) ==
  LET total  == (to_time - r.pending_time) % TimeModulus
      offset == Offsets(r.pending, total)
  IN  FlattenSeq([i \in DOMAIN r.pending |->
                    Written(r.pending[i], (r.pending_time + offset[i]) % TimeModulus)])

Flushed(r, to_time) ==
  LET total  == IF to_time > r.pending_time THEN to_time - r.pending_time ELSE 0
      offset == Offsets(r.pending, total)
  IN  FlattenSeq([i \in DOMAIN r.pending |->
                    Written(r.pending[i], r.pending_time + offset[i])])

Flush(r, to_time) ==
  IF r.pending = <<>> THEN r
  ELSE [r EXCEPT !.out = @ \o Flushed(r, to_time),
                 !.pending_time = to_time,
                 !.pending = <<>>]

AddEvents(r, time, evs) ==
  IF evs = <<>> THEN r
  ELSE [ (IF time # r.pending_time THEN Flush(r, time) ELSE r)
           EXCEPT !.pending_time = time, !.pending = @ \o evs ]

-----------------------------------------------------------------------------
(* The callstack *)

\* Mutant: the frames are returned from outermost first.
ReturnsInOrder(symbols) == [i \in DOMAIN symbols |-> RetEvent(symbols[i])]

CallsOf(symbols)   == [i \in DOMAIN symbols |-> CallEvent(symbols[i])]
ReturnsOf(symbols) == [i \in DOMAIN symbols |-> RetEvent(Reverse(symbols)[i])]

Call(r, time, symbol) ==
  [AddEvents(r, time, CallsOf(<<symbol>>)) EXCEPT !.stack = Append(@, symbol)]

Ret(r, time) ==
  IF r.stack # <<>>
  THEN [AddEvents(r, time, <<RetEvent(Last(r.stack))>>) EXCEPT !.stack = Front(@)]
  ELSE AddEvents(r, time, <<RetFromUntraced(r.create_time)>>)

\* An empty stack gets the frame from the time it was created.
CheckCurrentSymbol(r, time, symbol) ==
  IF r.stack = <<>> THEN Call(r, r.create_time, symbol)
  ELSE IF Last(r.stack) # symbol THEN Call(Ret(r, time), time, symbol)
  ELSE r

ClearCallstack(r, time) ==
  [AddEvents(r, time, ReturnsOf(r.stack)) EXCEPT !.stack = <<>>]

\* The frames of the inactive callstacks, then those of the current one.
OpenFrames(r) ==
  FlattenSeq([i \in DOMAIN r.inactive |-> r.inactive[i].stack]) \o r.stack

\* Mutant: the inactive callstacks are dropped without their returns.
ClearCurrentOnly(r, time) ==
  [AddEvents(r, time, ReturnsOf(r.stack)) EXCEPT !.stack = <<>>, !.inactive = <<>>]

\* The outermost callstack is the one that remains, emptied.
ClearAllCallstacks(r, time) ==
  [AddEvents(r, time, ReturnsOf(OpenFrames(r)))
     EXCEPT !.stack       = <<>>,
            !.inactive    = <<>>,
            !.create_time = IF r.inactive = <<>> THEN @ ELSE r.inactive[1].create_time]

-----------------------------------------------------------------------------
(* process_branch, process_stacktrace and the decode errors *)

EnterContext(r, time, dst) ==
  Call([r EXCEPT !.inactive = Append(@, [stack |-> r.stack, create_time |-> r.create_time]),
                 !.stack = <<>>,
                 !.create_time = time],
       time, dst)

\* Mutant: the outermost callstack is restored.
LeaveToOutermost(r, time, dst) ==
  LET cleared == ClearCallstack(r, time)
  IN  IF r.inactive = <<>> THEN [cleared EXCEPT !.create_time = time]
      ELSE CheckCurrentSymbol(
             [cleared EXCEPT !.stack       = Head(r.inactive).stack,
                             !.create_time = Head(r.inactive).create_time,
                             !.inactive    = Tail(@)],
             time, dst)

LeaveContext(r, time, dst) ==
  LET cleared == ClearCallstack(r, time)
  IN  IF r.inactive = <<>> THEN [cleared EXCEPT !.create_time = time]
      ELSE CheckCurrentSymbol(
             [cleared EXCEPT !.stack       = Last(r.inactive).stack,
                             !.create_time = Last(r.inactive).create_time,
                             !.inactive    = Front(@)],
             time, dst)

BranchOfKind(r, time, br) ==
  CASE br.kind = "None" -> r
    [] br.kind = "Call" ->
         Call(CheckCurrentSymbol(r, time, br.src), time, br.dst)
    [] br.kind = "Return" ->
         CheckCurrentSymbol(Ret(r, time), time, br.dst)
    [] br.kind \in {"Jump", "Interrupt", "Async", "TxAbort"} ->
         CheckCurrentSymbol(r, time, br.dst)
    [] br.kind \in {"Syscall", "HardwareInterrupt"} ->
         EnterContext(r, time, br.dst)
    [] br.kind \in {"Iret", "Sysret"} ->
         LeaveContext(r, time, br.dst)

PopNothing(r, time) == r  \* mutant: the marker stays

PopUntraced(r, time) ==
  IF r.stack # <<>> /\ Last(r.stack) = Untraced THEN Ret(r, time) ELSE r

Branch(r, time, br) ==
  CASE br.trace_state = "End"   -> Call(r, time, Untraced)
    [] br.trace_state = "Start" ->
         BranchOfKind(CheckCurrentSymbol(PopUntraced(r, time), time, br.dst), time, br)
    [] br.trace_state = "None"  -> BranchOfKind(r, time, br)

\* How many frames agree from the outermost inwards.
MatchCount(stack, sample) ==
  Max({n \in 0..Len(sample) : n <= Len(stack) /\ \A i \in 1..n : stack[i] = sample[i]})

Stacktrace(r, time, sample) ==
  LET n == MatchCount(r.stack, sample)
  IN  [AddEvents(r, time, ReturnsOf(SubSeq(r.stack, n + 1, Len(r.stack)))
                          \o CallsOf(SubSeq(sample, n + 1, Len(sample))))
         EXCEPT !.stack = sample]

\* Mutant: no flush after the stacks are cleared.
FinishWithoutLastFlush(r) ==
  LET time == r.last_event_time
  IN  ClearAllCallstacks(Flush(r, time), time)

FinishThread(r) ==
  LET time == r.last_event_time
  IN  Flush(ClearAllCallstacks(Flush(r, time), time), time)

-----------------------------------------------------------------------------
(* The viewer of the trace: the spans it has open, each with the number of  *)
(* its begin event, the highest time it has seen, and what it found wrong.  *)

NewView == [open |-> <<>>, begins |-> 0, high |-> 0, wrong |-> {}]

Replay(view, e) ==
  LET late == IF e.time >= view.high THEN {}
              ELSE IF e.type = "begin" THEN {"late begin"} ELSE {"late end"}
      seen == [view EXCEPT !.high = Max({@, e.time}), !.wrong = @ \cup late]
  IN  IF e.type = "begin"
      THEN [seen EXCEPT !.open   = Append(@, [symbol |-> e.symbol, nth |-> view.begins]),
                        !.begins = @ + 1]
      ELSE IF view.open = <<>> \/ Last(view.open).symbol # e.symbol
           THEN [seen EXCEPT !.wrong = @ \cup {"unmatched"}]
           ELSE [seen EXCEPT !.open = Front(@)]

ReplayAll(view, written) == FoldLeft(Replay, view, written)

-----------------------------------------------------------------------------
(* The handlers, as actions *)

Init ==
  /\ threads = [t \in Threads |-> NewThreadInfo]
  /\ base_time = 0
  /\ base_time_set = FALSE
  /\ viewer = [t \in Threads |-> NewView]
  /\ clock = FirstTime
  /\ in_order = TRUE
  /\ early = FALSE
  /\ events = 0
  /\ finished = FALSE

\* map_time: the first event that asks for it sets the base.
BaseAt(time_ns) == IF base_time_set THEN base_time ELSE time_ns
MapTime(time_ns) == (time_ns - BaseAt(time_ns)) % TimeModulus

NextEvent(time_ns) ==
  /\ ~finished
  /\ events < MaxEvents
  /\ events' = events + 1
  /\ clock' = Max({clock, time_ns})
  /\ in_order' = (in_order /\ time_ns >= clock)
  /\ early' = (early \/ time_ns < BaseAt(time_ns))

\* t's ThreadInfo becomes r and the viewer sees what r wrote.
Store(t, r) ==
  /\ threads' = [threads EXCEPT ![t] = [r EXCEPT !.out = <<>>]]
  /\ viewer'  = [viewer EXCEPT ![t] = ReplayAll(@, r.out)]

\* What each handler makes of t's ThreadInfo, at the mapped time.
Seen(t, time_ns) == [threads[t] EXCEPT !.last_event_time = MapTime(time_ns)]

AfterBranch(t, time_ns, br)         == Branch(Seen(t, time_ns), MapTime(time_ns), br)
AfterStacktrace(t, time_ns, sample) == Stacktrace(Seen(t, time_ns), MapTime(time_ns), sample)
AfterDecodeError(t, time_ns)        == ClearAllCallstacks(Seen(t, time_ns), MapTime(time_ns))

\* The part the handlers share: r is what this one makes of t's ThreadInfo.
HandleAt(t, time_ns, r) ==
  /\ NextEvent(time_ns)
  /\ Store(t, r)
  /\ base_time' = BaseAt(time_ns)
  /\ base_time_set' = TRUE
  /\ UNCHANGED finished

ProcessBranch(t, time_ns, br) == HandleAt(t, time_ns, AfterBranch(t, time_ns, br))

ProcessStacktrace(t, time_ns, sample) ==
  HandleAt(t, time_ns, AfterStacktrace(t, time_ns, sample))

DecodeErrorAt(t, time_ns) == HandleAt(t, time_ns, AfterDecodeError(t, time_ns))

Finish ==
  /\ ~finished
  /\ threads' = [t \in Threads |-> [FinishThread(threads[t]) EXCEPT !.out = <<>>]]
  /\ viewer'  = [t \in Threads |-> ReplayAll(viewer[t], FinishThread(threads[t]).out)]
  /\ finished' = TRUE
  /\ UNCHANGED <<base_time, base_time_set, clock, in_order, early, events>>

\* time_ns is a uint64_t.  The input steps back once at most (bound of the model).
Times ==
  IF events = 0 THEN {FirstTime}
  ELSE Time \cap {clock + d : d \in {s \in TimeSteps : s >= 0 \/ in_order}}

Next ==
  \/ \E t \in Threads, time_ns \in Times, br \in Branches : ProcessBranch(t, time_ns, br)
  \/ \E t \in Threads, time_ns \in Times, s \in Samples : ProcessStacktrace(t, time_ns, s)
  \/ \E t \in Threads, time_ns \in Times : DecodeErrorAt(t, time_ns)
  \/ Finish

Spec == Init /\ [][Next]_vars

-----------------------------------------------------------------------------
(* Properties *)

TypeOK ==
  /\ DOMAIN threads = Threads
  /\ \A t \in Threads :
       /\ threads[t].stack \in Seq(Frames)
       /\ threads[t].create_time \in Time
       /\ threads[t].inactive \in Seq([stack : Seq(Frames), create_time : Time])
       /\ threads[t].pending \in
            Seq([kind : {"Call", "Ret", "RetFromUntraced"}, symbol : Frames,
                 reset_time : Time])
       /\ threads[t].pending_time \in Time
       /\ threads[t].last_event_time \in Time
       /\ threads[t].out = <<>>
       /\ viewer[t].open \in Seq([symbol : Frames, nth : Nat])
  /\ {base_time_set, in_order, early, finished} \subseteq BOOLEAN
  /\ base_time \in Int /\ clock \in Int /\ events \in 0..MaxEvents

\* What the viewer will have open once the pending events are written.
ViewAfterFlush(t) == ReplayAll(viewer[t], Flushed(threads[t], threads[t].last_event_time))

Symbolic(spans) == [i \in DOMAIN spans |-> spans[i].symbol]

\* The spans open in the written trace, pending events included, are exactly the
\* frames of the thread's callstacks, the inactive ones outermost.  (call, ret,
\* clear_callstack, clear_all_callstacks, process_stacktrace)
FramesAreOpenSpans ==
  \A t \in Threads : Symbolic(ViewAfterFlush(t).open) = OpenFrames(threads[t])

\* An end always closes the most recent open begin, of the same name.
\* (trace_validation_test.cpp:212)
EndsNest == \A t \in Threads : "unmatched" \notin viewer[t].wrong

\* Once finish() has run, every begin has its end and nothing is pending.
\* (trace_validation_test.cpp:196)
BalancedAtFinish ==
  finished => \A t \in Threads : viewer[t].open = <<>> /\ threads[t].pending = <<>>

\* No end is written at a time before one already written: no span has a
\* negative length, and none ends before its children, provided that the input
\* is in time order.  (flush, check_current_symbol)
EndsInOrder == in_order => \A t \in Threads : "late end" \notin viewer[t].wrong

\* As long as no event is earlier than the first one, nothing is written or pending at
\* a time that the input has not reached, even if the input steps back: an interval that
\* would be negative is not shared out.  (map_time, flush)
TimesStayInTrace ==
  ~early => \A t \in Threads : /\ viewer[t].high <= clock - base_time
                               /\ threads[t].pending_time <= clock - base_time
=============================================================================
