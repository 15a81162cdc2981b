---------------------------- MODULE MCAcceptLoop ----------------------------
(* Small instances of AcceptLoop. *)
EXTENDS AcceptLoop, TLC

CONSTANTS c1, c2, c3

\* Connections can be exchanged for one another.
MCSymmetry == Permutations(Conns)
=============================================================================
