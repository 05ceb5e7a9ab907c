--------------------------- MODULE MCRuntimeGate ---------------------------
(* Small instances of RuntimeGate for TLC.                                 *)
EXTENDS RuntimeGate, TLC

CONSTANTS j1, j2, p1, p2, r1, r2

GateSymmetry == Permutations({j1, j2}) \cup Permutations({p1, p2}) \cup Permutations({r1, r2})
=============================================================================
