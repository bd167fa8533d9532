--------------------------- MODULE PerfScriptEvents ---------------------------
(***************************************************************************)
(* The trace that the text of perf script stands for.  Which lines make up *)
(* an event is said here by the places where one begins and ends, not by   *)
(* feeding lines one after the other as PerfScriptParser does.             *)
(***************************************************************************)
EXTENDS PerfScriptParser

\* A group begins at a header or, if that is missing, at the first frame.
Begins(lines, i) ==
  /\ lines[i].form # "blank"
  /\ lines[i].form = "frame" => i = 1 \/ lines[i - 1].form = "blank"

GroupEnd(lines, i) ==
  Max({j \in i..Len(lines) : \A k \in (i + 1)..j : lines[k].form = "frame"})

\* What the reconstructor makes no use of: power events, event samples, and
\* decode errors that have no time.
Shown(e) == e.event.type \notin {"power", "sample"} /\ e.event.time_ns # <<>>

Reconstructed(event) == IF event # <<>> /\ Shown(event[1]) THEN <<event[1]>> ELSE <<>>

\* The event of the group that begins at i.  The last group may still grow as
\* long as the text may.
EventAt(lines, complete, i) ==
  IF Begins(lines, i) /\ (complete \/ GroupEnd(lines, i) < Len(lines))
  THEN Reconstructed(ParseGroup(SubSeq(lines, i, GroupEnd(lines, i))))
  ELSE <<>>

Preamble == [event |-> [type |-> "preamble"]]

TraceOf(lines, complete) ==
  <<Preamble>> \o FlattenSeq([i \in DOMAIN lines |-> EventAt(lines, complete, i)])
=============================================================================
