---------------------------- MODULE TraceFilter ----------------------------
(***************************************************************************)
(* TraceFilter (lib/trace_filter.cpp): the state machine between the parser *)
(* and the reconstructor that passes the events of the regions between a   *)
(* start and an end symbol.  An event is what the filter looks at: whether *)
(* it is a branch, and the symbols of its two ends.  The symbols that begin *)
(* with the configured text (starts_with) are given as a set.              *)
(***************************************************************************)
EXTENDS Naturals

CONSTANTS
  Configs,       \* the configurations: [has_start, has_end, multi_slice]
  StartSymbols,  \* symbols that begin with config_.start_symbol
  EndSymbols,    \* symbols that begin with config_.end_symbol
  FilterEvents   \* the events of the input: [branch, symbols]

VARIABLES
  config,       \* config_; has_start: start_symbol is not empty
  state,        \* state_
  slice_count,  \* slice_count_
  saw_start     \* saw_start_

filterVars == <<config, state, slice_count, saw_start>>

\* Without a start symbol the filter records from the beginning.
FilterInit ==
  /\ config \in Configs
  /\ state = IF config.has_start THEN "Waiting" ELSE "Recording"
  /\ slice_count = 0
  /\ saw_start = FALSE

MatchesStart(e) == e.branch /\ config.has_start /\ e.symbols \cap StartSymbols # {}
MatchesEnd(e)   == e.branch /\ config.has_end /\ e.symbols \cap EndSymbols # {}

\* Mutants: the event that starts, or that ends, a region is left out.
PassesUnlessWaiting(e) == state = "Recording"
PassesBeforeEnd(e) ==
  \/ state = "Recording" /\ ~MatchesEnd(e)
  \/ state = "Waiting" /\ MatchesStart(e)

\* What should_pass returns.  The event that starts or ends a region is in it.
Passes(e) == state = "Recording" \/ (state = "Waiting" /\ MatchesStart(e))

\* Mutant: the start is not remembered.
StartUnseen(e) ==
  /\ state = "Waiting" /\ MatchesStart(e)
  /\ state' = "Recording"
  /\ UNCHANGED <<config, slice_count, saw_start>>

StartSlice(e) ==
  /\ state = "Waiting" /\ MatchesStart(e)
  /\ state' = "Recording"
  /\ saw_start' = TRUE
  /\ UNCHANGED <<config, slice_count>>

\* Mutants: a slice that ends is not waited for again; the count starts over.
EndForGood(e) ==
  /\ state = "Recording" /\ MatchesEnd(e)
  /\ slice_count' = slice_count + 1
  /\ state' = IF config.multi_slice THEN "Waiting" ELSE "Done"
  /\ UNCHANGED <<config, saw_start>>
EndForgetsStart(e) ==
  /\ state = "Recording" /\ MatchesEnd(e)
  /\ slice_count' = slice_count + 1
  /\ state' = IF ~config.multi_slice THEN "Done"
              ELSE IF config.has_start THEN "Waiting" ELSE "Recording"
  /\ saw_start' = FALSE
  /\ UNCHANGED config

EndSlice(e) ==
  /\ state = "Recording" /\ MatchesEnd(e)
  /\ slice_count' = slice_count + 1
  /\ state' = IF ~config.multi_slice THEN "Done"
              ELSE IF config.has_start THEN "Waiting" ELSE "Recording"
  /\ UNCHANGED <<config, saw_start>>

Unmoved(e) ==
  /\ ~(state = "Waiting" /\ MatchesStart(e))
  /\ ~(state = "Recording" /\ MatchesEnd(e))
  /\ UNCHANGED filterVars

\* should_pass: what it does to the filter.
ShouldPass(e) == StartSlice(e) \/ EndSlice(e) \/ Unmoved(e)

FilterNext == \E e \in FilterEvents : ShouldPass(e)

FilterSpec == FilterInit /\ [][FilterNext]_filterVars

StartSymbolMissing == config.has_start /\ ~saw_start
=============================================================================
