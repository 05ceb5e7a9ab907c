-------------------------- MODULE MCOvertimeQueue --------------------------
(* An instance of OvertimeQueue for TLC. *)
EXTENDS OvertimeQueue, TLC

CONSTANTS o1, o2, q1, q2, t1, t2

\* Two offers that end at different times.
FinalTwo == o1 :> 1 @@ o2 :> 2
============================================================================
