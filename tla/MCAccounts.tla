----------------------------- MODULE MCAccounts -----------------------------
(* A small instance of Accounts. *)
EXTENDS Accounts

CONSTANTS admin, seven, oo7, w1, w2

\* The user names 7 and 007 are the same number.
MCCanonical == [n \in {seven, oo7} |-> seven]
=============================================================================
