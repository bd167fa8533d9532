-------------------------- MODULE TraceFilterSlices --------------------------
(***************************************************************************)
(* TraceFilter with the events it was asked about and what it answered, to *)
(* compare the state machine with a definition of the regions as intervals *)
(* of the input.                                                           *)
(***************************************************************************)
EXTENDS TraceFilter, Sequences, FiniteSets, FiniteSetsExt

CONSTANT MaxSeen  \* length of the input (bound of the model)

VARIABLES
  seen,   \* the events of the input so far
  passed  \* the answer to each

sliceVars == <<filterVars, seen, passed>>

SlicesInit == FilterInit /\ seen = <<>> /\ passed = <<>>

Ask(e) ==
  /\ Len(seen) < MaxSeen
  /\ ShouldPass(e)
  /\ seen' = Append(seen, e)
  /\ passed' = Append(passed, Passes(e))

SlicesNext == \E e \in FilterEvents : Ask(e)

SlicesSpec == SlicesInit /\ [][SlicesNext]_sliceVars

-----------------------------------------------------------------------------
(* The regions of the input, as intervals of positions.  A region runs from *)
(* a start, or without a start symbol from where the one before it ended,   *)
(* to the first end after that.                                             *)

Past == Len(seen) + 1

FirstFrom(i, S) == Min({j \in S : j >= i} \cup {Past})

StartFrom(i) ==
  IF config.has_start THEN FirstFrom(i, {j \in DOMAIN seen : MatchesStart(seen[j])})
  ELSE i - 1

EndFrom(i) == FirstFrom(i, {j \in DOMAIN seen : MatchesEnd(seen[j])})

RegionFrom(i) == [from |-> StartFrom(i), to |-> EndFrom(StartFrom(i) + 1)]

Regions ==
  LET region[n \in 1..Past] ==
        IF n = 1 THEN RegionFrom(1) ELSE RegionFrom(region[n - 1].to + 1)
  IN  IF config.multi_slice THEN {region[n] : n \in 1..Past} ELSE {region[1]}

InRegion(i) == \E r \in Regions : r.from <= i /\ i <= r.to

\* The filter passes exactly the events of the regions, markers included: all
\* regions with multi_slice, else the first.  (trace_filter.hpp:10)
PassesExactlyTheRegions == \A i \in DOMAIN seen : passed[i] = InRegion(i)

\* slice_count() is the number of regions that have ended.  (trace_filter.hpp:36)
CountsCompleteRegions ==
  slice_count = Cardinality({r.to : r \in Regions} \ {Past, Past + 1})

\* The warning that the start symbol was not found is printed exactly when the
\* start symbol has kept every event out.  (start_symbol_missing)
WarnsExactlyWhenEmpty ==
  config.has_start /\ seen # <<>> =>
    (StartSymbolMissing <=> \A i \in DOMAIN passed : ~passed[i])
=============================================================================
