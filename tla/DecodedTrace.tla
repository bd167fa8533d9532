----------------------------- MODULE DecodedTrace -----------------------------
(***************************************************************************)
(* What decoding promises, whatever fails: the output grows as a prefix of *)
(* the trace of the text that has been read, and nothing in it is ever     *)
(* taken back.                                                             *)
(***************************************************************************)
EXTENDS Sequences, SequencesExt

CONSTANTS
  Lines,         \* the lines that there can be
  TraceOf(_, _)  \* the trace of a text, which is complete or not

VARIABLES
  text,   \* the lines that have been read
  ended,  \* there are no more
  trace   \* the output

Init == text = <<>> /\ ended = FALSE /\ trace = <<>>

Next ==
  /\ text' = text \/ (~ended /\ \E line \in Lines : text' = Append(text, line))
  /\ ended' \in {ended, TRUE}
  /\ IsPrefix(trace, trace') /\ IsPrefix(trace', TraceOf(text', ended'))

Spec == Init /\ [][Next]_<<text, ended, trace>>
=============================================================================
