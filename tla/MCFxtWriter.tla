----------------------------- MODULE MCFxtWriter -----------------------------
(* Values for the constants of FxtWriterOrder.  The symbol long exceeds    *)
(* max_string_length_ and is stored truncated, as the very text of the     *)
(* symbol f; the other strings are the ones the writer makes up itself.    *)
EXTENDS FxtWriterOrder

CONSTANTS f, long, pid1, tid1, tid2, tid3, process, empty

MCStrings   == {empty, f, long, pid1, tid1, tid2, tid3, process}
MCCallerStrings == {empty, f, long, process}
MCEffective == [s \in MCStrings |-> IF s = long THEN f ELSE s]
MCThreads   == [pid : {1}, tid : 1..3]
MCPidName   == [p \in {1} |-> pid1]
MCTidName   == [t \in 1..3 |-> <<tid1, tid2, tid3>>[t]]
=============================================================================
