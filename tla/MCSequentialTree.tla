-------------------------- MODULE MCSequentialTree --------------------------
(* SequentialTree on a handful of names. *)
EXTENDS SequentialTree

MCKeys == 1..4
=============================================================================
