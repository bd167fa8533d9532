------------------------- MODULE TracePipelineRegions -------------------------
(***************************************************************************)
(* TracePipeline with the events of its input, to compare the output with  *)
(* the regions that TraceFilterSlices defines as intervals of the input.   *)
(* The filter keeps its state from one event to the next, the cache, the   *)
(* base time and the viewer's times add up what came of each: here they    *)
(* have to agree with what the input as a whole has in its regions.        *)
(***************************************************************************)
EXTENDS TracePipeline

VARIABLE input  \* the events so far: what the filter looks at, when, what they show

regionsVars == <<pipelineVars, input>>

S == INSTANCE TraceFilterSlices WITH
       state <- filter_state, FilterEvents <- {}, seen <- input, passed <- <<>>,
       MaxSeen <- MaxEvents

-----------------------------------------------------------------------------
(* The symbols that the handlers show *)

\* The symbol an event returns to is shown only if there is a callstack to resume.
Resumes(br) ==
  IF br.kind \in {"Iret", "Sysret"} /\ br.trace_state # "End" THEN {br.dst} ELSE {}

\* All others of a branch are shown at the latest by finish().
Shows(br) ==
  IF br.trace_state = "End" THEN {Untraced}
  ELSE (IF br.kind = "Call" THEN {br.src} ELSE {})
       \cup (IF br.kind \in {"None", "Iret", "Sysret"} /\ br.trace_state # "Start"
             THEN {} ELSE {br.dst})

-----------------------------------------------------------------------------

RegionsInit == PipelineInit /\ input = <<>>

\* e, as the filter sees it, comes at time_ns and shows the symbols in shown, and
\* perhaps those in resumed.
Note(e, time_ns, shown, resumed) ==
  input' = Append(input, [branch |-> e.branch, symbols |-> e.symbols, time |-> time_ns,
                          shown |-> shown, resumed |-> resumed])

NoteBranch(t, time_ns, br) ==
  /\ FeedBranch(t, time_ns, br)
  /\ Note(BranchEvent(br), time_ns, Shows(br), Resumes(br))

NoteStacktrace(t, time_ns, sample) ==
  /\ FeedStacktrace(t, time_ns, sample)
  /\ Note(OtherEvent, time_ns, ToSet(sample), {})

NoteDecodeError(t, time_ns) ==
  /\ FeedDecodeError(t, time_ns)
  /\ Note(OtherEvent, time_ns, {}, {})

RegionsNext ==
  \/ \E t \in Threads, time_ns \in Times, br \in Branches : NoteBranch(t, time_ns, br)
  \/ \E t \in Threads, time_ns \in Times, s \in Samples : NoteStacktrace(t, time_ns, s)
  \/ \E t \in Threads, time_ns \in Times : NoteDecodeError(t, time_ns)
  \/ FinishPipeline /\ UNCHANGED input

RegionsSpec == RegionsInit /\ [][RegionsNext]_regionsVars

-----------------------------------------------------------------------------
(* Properties *)

InRegions == {i \in DOMAIN input : S!InRegion(i)}

\* Whatever is in no region leaves no name behind, and what is in one has its names in
\* the trace once it is finished.
NamesAreOf(events_in) ==
  LET shown   == UNION {input[i].shown : i \in events_in}
      resumed == UNION {input[i].resumed : i \in events_in}
  IN  /\ DOMAIN symbol_id_cache \subseteq shown \cup resumed \cup {Unknown}
      /\ finished => shown \subseteq DOMAIN symbol_id_cache

\* The trace begins with the first of the events and nothing in it is later than the last.
TimesAreOf(events_in) ==
  IF events_in = {} THEN ~base_time_set
  ELSE /\ base_time = input[Min(events_in)].time
       /\ \A t \in Threads : viewer[t].high <= input[Max(events_in)].time - base_time

\* However the filter cuts the input, and whatever is still pending when it does, the
\* output is made of the events of the regions, markers included: their names, all of
\* them once finished, and their span of time.  (decode_perf_data, should_pass)
OutputIsOfTheRegions ==
  LET events_in == InRegions
  IN  NamesAreOf(events_in) /\ TimesAreOf(events_in)
=============================================================================
