--------------------------- MODULE MCRecordSession ---------------------------
(* Every configuration of the two commands, and of attach alone.             *)
EXTENDS RecordSession

MCOptions(commands) ==
  [command : commands, has_pids : BOOLEAN, full_execution : BOOLEAN,
   sampling : BOOLEAN, no_decode : BOOLEAN,
   has_intel_pt : BOOLEAN, snapshot_on_exit : BOOLEAN]

MCConfigs == MCOptions({"run", "attach"})
MCAttach  == {c \in MCOptions({"attach"}) : c.has_pids}
=============================================================================
