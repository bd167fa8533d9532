------------------------- MODULE MCTraceFilterSlices -------------------------
(* Values for the constants of TraceFilterSlices: every configuration, and  *)
(* events with neither marker, one, the other or both ("work" also matches  *)
(* a symbol work_end).                                                      *)
EXTENDS TraceFilterSlices

MCConfigs ==
  [has_start : BOOLEAN, has_end : BOOLEAN, multi_slice : BOOLEAN]

MCEvents ==
  {[branch |-> TRUE, symbols |-> s] :
     s \in {{"other"}, {"work", "other"}, {"done", "other"}, {"work_done"}}}
  \cup {[branch |-> FALSE, symbols |-> {}]}
=============================================================================
