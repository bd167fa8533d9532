--------------------------- MODULE MCStackContexts ---------------------------
(* Values for the constants of StackContexts: threads that are in f, in turn  *)
(* called by g, when their trace begins.                                     *)
EXTENDS StackContexts

CONSTANTS f, g, untraced, unknown

MCSymbols  == {f, g}
MCPrograms == {<<f>>, <<g, f>>}
MCOrdered  == {3}
=============================================================================
