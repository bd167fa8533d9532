------------------------ MODULE MCStackReconstructor ------------------------
(* Values for the constants of StackReconstructor: two functions and one     *)
(* branch kind for each arm of the switch.  Only a call reads its source;    *)
(* a trace start may carry a kind, a trace end ignores it.                   *)
EXTENDS StackReconstructor

CONSTANTS f, g, untraced, unknown

MCSymbols == {f, g}

MCBranch(kind, state, src, dst) ==
  [kind |-> kind, trace_state |-> state, src |-> src, dst |-> dst]

MCCalls == {MCBranch("Call", "None", s, d) : s, d \in MCSymbols}
MCOther(kinds, states, dsts) ==
  {MCBranch(k, s, unknown, d) : k \in kinds, s \in states, d \in dsts}
MCEnd == {MCBranch("None", "End", f, unknown)}
MCStarts == MCOther({"None"}, {"Start"}, MCSymbols)

MCBranches ==
  MCCalls \cup MCEnd \cup MCStarts
  \cup MCOther({"Return", "Jump", "Syscall"}, {"None"}, MCSymbols)
  \cup MCOther({"Sysret"}, {"None"}, {f})
  \cup MCOther({"Return"}, {"Start"}, {f})

MCSamples == {<<f>>, <<g, f, f>>}

\* By a step that two calls do not share evenly, and back by two such steps: to the
\* first event or, early in the trace, to a time before it.
MCSteps == {-6, 0, 3}
=============================================================================
