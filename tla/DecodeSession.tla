----------------------------- MODULE DecodeSession -----------------------------
(***************************************************************************)
(* decode_perf_data (bin/tracey_mctraceface_main.cpp) with what can fail   *)
(* around it: perf script writes its lines into a pipe that Subprocess     *)
(* reads, and what the reconstructor writes goes through the buffer of a   *)
(* sink to a disk that may be full.  perf script may not start, end with   *)
(* an error, or be killed in the middle of a line.  An exception unwinds   *)
(* sink and Subprocess.  The lines are those of one thread, and everything *)
(* passes the filter: TracePipeline has the rest.                          *)
(***************************************************************************)
EXTENDS PerfScriptEvents, Integers

CONSTANTS
  Lines,     \* the lines that perf script prints
  MaxLines,  \* how many (bound of the model)
  PipeSize,  \* lines that fit into the pipe
  Rooms      \* the records that may fit on the disk

ASSUME SessionAssumption ==
  MaxLines \in Nat /\ PipeSize \in Nat \ {0} /\ Rooms \subseteq Nat

\* What consume_digits takes for a time.
ASSUME TimesAssumption ==
  \A line \in Lines : line.form = "header" => line.time \in [hi : Nat, lo : Seq(0..9)]

VARIABLES
  pc,                 \* what decode_perf_data is about to do
  report,             \* the lines that perf script has to print
  child,              \* perf script: [status, result]
  printed,            \* the lines it has printed, the last perhaps cut off
  pipe,               \* those of them that have not been read
  pipe_open,          \* pipe_ is open
  at_eof,             \* read_line has returned false
  accumulated_lines,  \* accumulated_lines_ of the parser
  pending,            \* what the reconstructor has not written yet
  sink,               \* [state, buffer, disk]
  room,               \* how many records fit on the disk
  exit_code,          \* what wait() returned
  warned              \* "warning: perf script exited with code" was printed

childVars == <<child, printed>>
dataVars  == <<accumulated_lines, pending, sink>>
resultVars == <<at_eof, exit_code, warned>>
vars == <<pc, report, childVars, pipe, pipe_open, dataVars, room, resultVars>>

\* "not_spawned" is an exception from the constructor of Subprocess.
Final == {"returned", "thrown", "not_spawned"}

\* What is left of a number that is cut off, or missing.
Shorter(number) == {0} \cup {number \div 10^places : places \in 1..number}

\* A decode error has its time, its pid and its tid in this order; a time without a
\* fraction is none.
ErrorCuts(line) ==
  LET no_tid == [line EXCEPT !.tid = 0]
      no_ids == [no_tid EXCEPT !.pid = 0]
  IN  {line, [no_ids EXCEPT !.time = <<>>]}
      \cup UNION {{[no_ids EXCEPT !.time[i].lo = SubSeq(@, 1, n)] : n \in 0..Len(line.time[i].lo)}
                   : i \in DOMAIN line.time}
      \cup {[no_tid EXCEPT !.pid = pid] : pid \in Shorter(line.pid)}
      \cup {[line EXCEPT !.tid = tid] : tid \in Shorter(line.tid)}

\* What may be left of a line that is cut off.
Cuts(line) ==
  CASE line.form = "frame"  -> {[line EXCEPT !.name = <<>>],
                                [line EXCEPT !.name = <<>>, !.hex = FALSE]}
    [] line.form = "error"  -> {[form |-> "malformed"]} \cup ErrorCuts(line)
    [] line.form = "header" ->
         {[form |-> "malformed"], line}
         \cup IF line.event_name = "branches" THEN {[line EXCEPT !.rest.dst = <<>>]} ELSE {}
    [] line.form \in {"blank", "malformed"} -> {}

Printable == Lines \cup UNION {Cuts(line) : line \in Lines}

\* The lines that have been read.
Text == SubSeq(printed, 1, Len(printed) - Len(pipe))

Init ==
  /\ pc = "spawn"
  /\ report \in UNION {[1..n -> Lines] : n \in 0..MaxLines}
  /\ child = [status |-> "none", result |-> [exited |-> TRUE, code |-> 0]]
  /\ printed = <<>> /\ pipe = <<>> /\ pipe_open = FALSE
  /\ at_eof = FALSE
  /\ accumulated_lines = <<>> /\ pending = <<>>
  /\ sink = [state |-> "none", buffer |-> <<>>, disk |-> <<>>]
  /\ room \in Rooms
  /\ exit_code = 0 /\ warned = FALSE

Goto(from, to) == pc = from /\ pc' = to

First(seq, n) == SubSeq(seq, 1, Min({n, Len(seq)}))
Rest(seq, n)  == SubSeq(seq, n + 1, Len(seq))

-----------------------------------------------------------------------------
(* The sinks: a write goes to a buffer, of which any part may be flushed.    *)

Flushed(buffer, n) ==
  [sink EXCEPT !.disk = @ \o First(buffer, n), !.buffer = Rest(buffer, n)]

Free == room - Len(sink.disk)

\* write() throws when it has to flush more than fits.
Write(records, next) ==
  LET buffer == sink.buffer \o records
  IN  IF records = <<>> THEN pc' = next /\ UNCHANGED sink
      ELSE \/ /\ \E n \in 0..Min({Free, Len(buffer)}) : sink' = Flushed(buffer, n)
              /\ pc' = next
           \/ /\ Len(buffer) > Free
              /\ sink' = Flushed(buffer, Free)
              /\ pc' = "unwind"

\* close() ignores that something does not fit.
CloseSink == sink' = [Flushed(sink.buffer, Free) EXCEPT !.buffer = <<>>, !.state = "closed"]

-----------------------------------------------------------------------------
(* decode_perf_data *)

Spawn ==
  /\ Goto("spawn", "make_sink")
  /\ child' = [child EXCEPT !.status = "forked"]
  /\ pipe_open' = TRUE
  /\ UNCHANGED <<printed, pipe, dataVars, resultVars>>

\* pipe or fork fails, or fdopen, which leaves the child behind.
SpawnFails ==
  /\ Goto("spawn", "not_spawned")
  /\ child' = child \/ child' = [child EXCEPT !.status = "forked"]
  /\ UNCHANGED <<printed, pipe, pipe_open, dataVars, resultVars>>

MakeSink ==
  /\ \/ Goto("make_sink", "preamble") /\ sink' = [sink EXCEPT !.state = "open"]
     \/ Goto("make_sink", "drop_pipe") /\ UNCHANGED sink
  /\ UNCHANGED <<childVars, pipe, pipe_open, accumulated_lines, pending, resultVars>>

WritePreamble ==
  /\ pc = "preamble"
  /\ Write(<<Preamble>>, "read")
  /\ UNCHANGED <<childVars, pipe, pipe_open, accumulated_lines, pending, resultVars>>

\* process_event: the reconstructor keeps the latest events back.
Process(event, next) ==
  LET known == pending \o Reconstructed(event)
  IN  \E n \in 0..Len(known) :
        /\ pending' = Rest(known, n)
        /\ Write(First(known, n), next)

ReadLine ==
  /\ pc = "read" /\ pipe # <<>>
  /\ LET fed == FeedLine(accumulated_lines, Head(pipe))
     IN  accumulated_lines' = fed.lines /\ Process(fed.event, "read")
  /\ pipe' = Tail(pipe)
  /\ UNCHANGED <<childVars, pipe_open, resultVars>>

\* read_line returns false only when the write end is closed and all is read.
WriteEndOpen == child.status \in {"forked", "running"}

\* Mutant: an empty line, too, ends the loop.
EndOfFileOrBlank ==
  /\ pc = "read" /\ pc' = "finish"
  /\ IF pipe = <<>> THEN ~WriteEndOpen ELSE Head(pipe).form = "blank"
  /\ at_eof' = TRUE
  /\ UNCHANGED <<childVars, pipe, pipe_open, dataVars, exit_code, warned>>

EndOfFile ==
  /\ Goto("read", "finish")
  /\ pipe = <<>> /\ ~WriteEndOpen
  /\ at_eof' = TRUE
  /\ UNCHANGED <<childVars, pipe, pipe_open, dataVars, exit_code, warned>>

\* The parser's last event, and all that the reconstructor has kept back.
FinishDecoding ==
  /\ pc = "finish"
  /\ LET finished == FinishParser(accumulated_lines)
     IN  /\ accumulated_lines' = finished.lines
         /\ Write(pending \o Reconstructed(finished.event), "wait")
  /\ pending' = <<>>
  /\ UNCHANGED <<childVars, pipe, pipe_open, resultVars>>

-----------------------------------------------------------------------------
(* Subprocess::wait, or its destructor, which closes the pipe first, too. *)

ClosePipe == pipe_open' = FALSE /\ UNCHANGED <<childVars, pipe, dataVars, resultVars>>

Reap ==
  /\ child.status = "zombie"
  /\ child' = [child EXCEPT !.status = "reaped"]
  /\ UNCHANGED <<printed, pipe, pipe_open, dataVars, at_eof>>

\* Mutant: the status as waitpid returns it.
RawStatus(result) == IF result.exited THEN 256 * result.code ELSE -1

WaitCode(result) == IF result.exited THEN result.code ELSE -1

Wait    == Goto("wait", "waitpid") /\ ClosePipe
WaitPid ==
  /\ Goto("waitpid", "return")
  /\ Reap
  /\ exit_code' = WaitCode(child.result)
  /\ warned' = (exit_code' # 0)

\* The result is 0; then the sink is destroyed.
Return ==
  /\ Goto("return", "returned")
  /\ CloseSink
  /\ UNCHANGED <<childVars, pipe, pipe_open, accumulated_lines, pending, resultVars>>

Unwind ==
  /\ Goto("unwind", "drop_pipe")
  /\ CloseSink
  /\ UNCHANGED <<childVars, pipe, pipe_open, accumulated_lines, pending, resultVars>>

\* Mutants: the child is waited for before the pipe is closed; not at all.
DropPipeAfterChild ==
  /\ child.status = "zombie"
  /\ Goto("drop_pipe", "drop_child") /\ ClosePipe

AbandonChild ==
  /\ Goto("drop_child", "thrown")
  /\ UNCHANGED <<childVars, pipe, pipe_open, dataVars, resultVars>>

DropPipe  == Goto("drop_pipe", "drop_child") /\ ClosePipe
DropChild == Goto("drop_child", "thrown") /\ Reap /\ UNCHANGED <<exit_code, warned>>

ToolStep ==
  /\ \/ Spawn \/ SpawnFails \/ MakeSink \/ WritePreamble \/ ReadLine \/ EndOfFile
     \/ FinishDecoding \/ Wait \/ WaitPid \/ Return \/ Unwind \/ DropPipe \/ DropChild
  /\ UNCHANGED <<report, room>>

-----------------------------------------------------------------------------
(* perf script, outside of the code *)

Dies(from, exited, code) ==
  /\ child.status \in from
  /\ child' = [status |-> "exiting", result |-> [exited |-> exited, code |-> code]]

ToPrint == Len(report) - Len(printed)

Exec      == child.status = "forked" /\ child' = [child EXCEPT !.status = "running"]
ExecFails == Dies({"forked"}, TRUE, 127)

PrintLine ==
  /\ child.status = "running" /\ ToPrint > 0
  /\ pipe_open /\ Len(pipe) < PipeSize
  /\ LET line == report[Len(printed) + 1]
     IN  printed' = Append(printed, line) /\ pipe' = Append(pipe, line)
  /\ UNCHANGED child

\* SIGPIPE.
BrokenPipe == ToPrint > 0 /\ ~pipe_open /\ Dies({"running"}, FALSE, 13)

Exit ==
  \/ ToPrint = 0 /\ \E code \in {0, 1} : Dies({"running"}, TRUE, code)
  \/ ToPrint > 0 /\ (pipe_open => Len(pipe) < PipeSize) /\ Dies({"running"}, TRUE, 1)

Exited == child.status = "exiting" /\ child' = [child EXCEPT !.status = "zombie"]

Killed ==
  /\ Dies({"forked", "running"}, FALSE, 9)
  /\ \/ UNCHANGED <<printed, pipe>>
     \/ /\ child.status = "running" /\ ToPrint > 0 /\ pipe_open /\ Len(pipe) < PipeSize
        /\ \E cut \in Cuts(report[Len(printed) + 1]) :
             printed' = Append(printed, cut) /\ pipe' = Append(pipe, cut)

Environment ==
  UNCHANGED <<pc, report, pipe_open, dataVars, room, resultVars>>

PerfScript ==
  /\ PrintLine \/ ((Exec \/ ExecFails \/ BrokenPipe \/ Exit \/ Exited) /\ UNCHANGED <<printed, pipe>>)
  /\ Environment

-----------------------------------------------------------------------------

Next == ToolStep \/ PerfScript \/ (Killed /\ Environment)

\* The tool is scheduled, and so is perf script, which has an end to its work
\* and waits for nothing but the pipe.  It is never killed of necessity.
Fairness == WF_vars(ToolStep) /\ WF_vars(PerfScript)

Spec == Init /\ [][Next]_vars /\ Fairness

-----------------------------------------------------------------------------
(* Properties *)

TypeOK ==
  /\ pc \in Final \cup {"spawn", "make_sink", "preamble", "read", "finish", "wait",
                        "waitpid", "return", "unwind", "drop_pipe", "drop_child"}
  /\ child.status \in {"none", "forked", "running", "exiting", "zombie", "reaped"}
  /\ child.result \in [exited : BOOLEAN, code : 0..255]
  /\ Len(pipe) <= PipeSize /\ Len(printed) <= Len(report)
  /\ {pipe_open, at_eof, warned} \subseteq BOOLEAN
  /\ sink.state \in {"none", "open", "closed"}
  /\ Len(sink.disk) <= room
  /\ exit_code \in -1..255

Output == INSTANCE DecodedTrace WITH
  Lines <- Printable, text <- Text, ended <- at_eof, trace <- sink.disk

\* Whatever fails and whenever: what is on the disk is at any time a prefix of the
\* trace of the lines that have been read, of which an event is part only when
\* it is known to be complete; and it only grows.  (feed_line, parse_group, write)
OutputFollowsText == Output!Spec

\* When decode_perf_data returns and has printed no warning, the disk holds the
\* whole trace of all that perf script had to say, or as much of it as fits: the
\* errors that close() ignores are the only silent loss.  (decode_perf_data)
UnwarnedOutputIsWhole ==
  pc = "returned" /\ ~warned =>
    sink.disk = First(TraceOf(report, TRUE), room)

\* When decode_perf_data has returned or unwound, perf script has been reaped, and pipe
\* and file are closed: nothing is left for the server that may follow, nor for the next
\* step of a script.  (~Subprocess, ~FileSink, wait)
NothingIsLeftBehind ==
  pc \in {"returned", "thrown"} =>
    child.status = "reaped" /\ ~pipe_open /\ sink.state # "open"

\* Closing the pipe cuts perf script off only when decoding has failed, never
\* when it has read to the end.  (wait, ~Subprocess)
OnlyFailureCutsOff ==
  child.result = [exited |-> FALSE, code |-> 13] =>
    pc \in {"drop_pipe", "drop_child", "thrown", "not_spawned"}

\* Decoding ends, though perf script may be writing to a full pipe that nobody
\* reads any more while it is waited for.  (~Subprocess, wait)
DecodingEnds == <>(pc \in Final)

\* The digits of a, without end, are at most those of b.
Digit(time, i) == IF i \in DOMAIN time.lo THEN time.lo[i] ELSE 0

NotLater(a, b) ==
  \/ a.hi < b.hi
  \/ /\ a.hi = b.hi
     /\ \A i \in DOMAIN a.lo : Digit(a, i) > Digit(b, i) =>
          \E j \in 1..(i - 1) : Digit(a, j) < Digit(b, j)

\* Lines in time order make events in time order, however many digits perf script
\* gives to each time.  (parse_time)
TimesKeepTheirOrder ==
  \A i, j \in {k \in DOMAIN report : report[k].form = "header"} :
    NotLater(report[i].time, report[j].time) =>
      ParseTime(report[i].time) <= ParseTime(report[j].time)

\* exec failure is an exception.  (subprocess.hpp:20)
ExecFailureThrows == pc = "returned" => child.result # [exited |-> TRUE, code |-> 127]
=============================================================================
