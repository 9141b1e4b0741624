--------------------------- MODULE MCReadPointers ---------------------------
(* Small instances of ReadPointers.                                        *)
EXTENDS ReadPointers

CONSTANTS k1, k2, c1, c2
=============================================================================
