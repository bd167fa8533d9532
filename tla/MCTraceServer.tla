---------------------------- MODULE MCTraceServer ----------------------------
(* TraceServer needs no definitions for its constants: model values do.     *)
EXTENDS TraceServer
=============================================================================
