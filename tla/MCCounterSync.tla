--------------------------- MODULE MCCounterSync ---------------------------
(* A small instance of CounterSync for TLC.                                 *)
EXTENDS CounterSync

\* One writer on each server, which races with the receiver there
OneEach == [s1 |-> "iran", s2 |-> "foreign"]
=============================================================================
