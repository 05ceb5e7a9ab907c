-------------------------- MODULE MCProcessOwner ---------------------------
(* A small instance of ProcessOwner for TLC.                               *)
EXTENDS ProcessOwner
=============================================================================
