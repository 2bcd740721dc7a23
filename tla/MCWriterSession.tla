--------------------------- MODULE MCWriterSession ---------------------------
(* WriterSession on a small instance: a writer with up to two descendants.  *)
EXTENDS WriterSession

CONSTANTS k1, k2
==============================================================================
