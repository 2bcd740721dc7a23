------------------------------ MODULE MCEngine ------------------------------
(* Engine on a small instance: one run, two decide commands, one commit     *)
(* that passes the engine's checks and one that does not.                   *)
EXTENDS EngineProperties, TLC

CONSTANTS d1, d2, good, bad

MCSymmetry == Permutations({d1, d2})
=============================================================================
