--------------------------- MODULE MCProcessRunner ---------------------------
(* ProcessRunner on a small instance: a leader with up to three descendants, *)
(* of which one may not be signalled.                                        *)
EXTENDS ProcessRunner

CONSTANTS k1, k2, k3
==============================================================================
