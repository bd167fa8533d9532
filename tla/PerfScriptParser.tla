--------------------------- MODULE PerfScriptParser ---------------------------
(***************************************************************************)
(* PerfScriptParser (lib/perf_script_parser.cpp): the lines that perf      *)
(* script prints become events.  A line is a record of what the parser     *)
(* looks for in it, and a name with its offset is a sequence of pieces, of *)
(* which "+0x" is one.  An optional event is a sequence of length 0 or 1.  *)
(* Offsets and addresses are kept only as far as they decide something.    *)
(*                                                                         *)
(*   [form |-> "blank"]                                                    *)
(*   [form |-> "frame", hex, name]           it begins with a tab          *)
(*   [form |-> "error", time, pid, tid]      "instruction trace error ..." *)
(*   [form |-> "header", pid, tid, time, event_name, rest]                 *)
(*   [form |-> "malformed"]                  any other                     *)
(***************************************************************************)
EXTENDS Naturals, Sequences, FiniteSetsExt, SequencesExt

CONSTANTS
  UnknownName,  \* "[unknown]"
  TimeDigits    \* digits of a fraction of a second, 9 in the code

ASSUME DigitsAssumption == TimeDigits \in Nat

-----------------------------------------------------------------------------
(* Parts of a line *)

AppendDigit(number, digit) == 10 * number + digit

\* Mutant: the fraction is read as it is.
ParseTimeUnpadded(time) ==
  time.hi * 10^TimeDigits + FoldLeft(AppendDigit, 0, time.lo)

\* lo_buf: the fraction padded or truncated to TimeDigits.
LoBuf(lo) == [i \in 1..TimeDigits |-> IF i \in DOMAIN lo THEN lo[i] ELSE 0]

\* parse_time: TimeDigits more digits shift hi by as many places.
ParseTime(time) == FoldLeft(AppendDigit, time.hi, LoBuf(time.lo))

\* parse_symbol_and_offset: the symbol is what precedes the last "+0x".
ParseSymbol(name) ==
  LET plus == {i \in DOMAIN name : name[i] = "+0x"}
  IN  IF plus = {} THEN UnknownName ELSE SubSeq(name, 1, Max(plus) - 1)

\* parse_branch_kind: what perf calls the kinds; hw_int and tx_abrt have a space.
KindNames ==
  [ call |-> "Call", return |-> "Return", jmp |-> "Jump", jcc |-> "Jump",
    syscall |-> "Syscall", sysret |-> "Sysret", hw_int |-> "HardwareInterrupt",
    int |-> "Interrupt", iret |-> "Iret", async |-> "Async", tx_abrt |-> "TxAbort" ]

ParseBranchKind(word) == IF word \in DOMAIN KindNames THEN KindNames[word] ELSE "None"

\* parse_kind_and_trace: "tr strt" and "tr end" may precede the kind.
ParseTraceState(prefixes) ==
  CASE prefixes = {"tr strt"} -> "Start"
    [] prefixes = {"tr end"}  -> "End"
    [] OTHER                  -> "None"

-----------------------------------------------------------------------------
(* parse_group: the events of a header line and the frames that follow it *)

Event(line, type) ==
  [type |-> type, pid |-> line.pid, tid |-> line.tid, time_ns |-> <<ParseTime(line.time)>>]

ParseDecodeError(line) ==
  [type |-> "error", pid |-> line.pid, tid |-> line.tid,
   time_ns |-> IF line.time = <<>> THEN <<>> ELSE <<ParseTime(line.time[1])>>]

\* Without " => " or a source address it is no branch.
ParseBranch(line) ==
  IF ~line.rest.arrow \/ ~line.rest.src_hex THEN <<>>
  ELSE <<[event |-> Event(line, "branch"),
          kind |-> ParseBranchKind(line.rest.word),
          trace_state |-> ParseTraceState(line.rest.prefixes),
          src |-> ParseSymbol(line.rest.src), dst |-> ParseSymbol(line.rest.dst)]>>

ParsePower(line) == IF line.rest.freq THEN <<[event |-> Event(line, "power")]>> ELSE <<>>

\* The callstack of a sample, outermost frame first.
ParseCallstack(line, frames) ==
  LET addressed == Reverse(SelectSeq(frames, LAMBDA frame : frame.hex))
  IN  <<[event |-> Event(line, "stacktrace"),
         callstack |-> [i \in DOMAIN addressed |-> ParseSymbol(addressed[i].name)]]>>

ParseEventSample(line, frames) ==
  IF frames = <<>> THEN <<>>
  ELSE <<[event |-> Event(line, "sample"), at |-> ParseSymbol(frames[1].name)]>>

ParseHeader(line, frames) ==
  CASE line.event_name = "branches" -> ParseBranch(line)
    [] line.event_name = "cbr"      -> ParsePower(line)
    [] line.event_name = "cycles"   -> ParseCallstack(line, frames)
    [] line.event_name \in {"branch-misses", "cache-misses"} ->
         ParseEventSample(line, frames)
    [] OTHER                        -> <<>>   \* psb among them

\* A group may begin with a frame that has lost its header: it is no event.
ParseGroup(lines) ==
  IF lines = <<>> THEN <<>>
  ELSE CASE lines[1].form = "error"  -> <<[event |-> ParseDecodeError(lines[1])]>>
         [] lines[1].form = "header" -> ParseHeader(lines[1], Tail(lines))
         [] OTHER                    -> <<>>

-----------------------------------------------------------------------------
(* feed_line and finish, as operators on accumulated_lines_: the new lines,  *)
(* and the event that is returned.                                          *)

FlushAccumulated(lines) == [lines |-> <<>>, event |-> ParseGroup(lines)]

\* Mutant: the event of a header is returned at once, not with the next line.
FeedLineEagerly(lines, line) ==
  CASE line.form = "blank" -> FlushAccumulated(lines)
    [] line.form = "frame" -> [lines |-> Append(lines, line), event |-> <<>>]
    [] OTHER -> [lines |-> <<>>, event |-> ParseGroup(<<line>>)]

FeedLine(lines, line) ==
  CASE line.form = "blank" -> FlushAccumulated(lines)
    [] line.form = "frame" -> [lines |-> Append(lines, line), event |-> <<>>]
    [] OTHER -> [FlushAccumulated(lines) EXCEPT !.lines = <<line>>]

\* Mutant: what has been accumulated is given up.
FinishForgetting(lines) == [lines |-> <<>>, event |-> <<>>]

FinishParser(lines) == FlushAccumulated(lines)
=============================================================================
