----------------------------- MODULE ByteStream -----------------------------
(***************************************************************************)
(* What the reads of a connection promise: the peer's bytes come back in   *)
(* order, each once, cut into strings; a newline at the end of a string is *)
(* dropped; and the end of the connection is reported after everything     *)
(* that the peer sent, unless the connection broke.                        *)
(***************************************************************************)
EXTENDS Integers, Sequences

CONSTANTS
  Bytes,    \* what a peer sends
  Newline,  \* '\n'
  Longest   \* the most a read asks for

VARIABLES
  stream,   \* what the peer has sent
  taken,    \* how much of it was returned
  strings,  \* the strings it was returned in
  reported, \* the end was reported
  broken    \* the connection broke

vars == <<stream, taken, strings, reported, broken>>

\* s without a newline at its end.
Chomp(s) ==
  IF s # << >> /\ s[Len(s)] = Newline THEN SubSeq(s, 1, Len(s) - 1) ELSE s

Init ==
  /\ stream = << >> /\ taken = 0 /\ strings = << >>
  /\ reported = FALSE /\ broken = FALSE

Send ==
  /\ stream' \in Seq(Bytes) /\ Len(stream) <= Len(stream')
  /\ SubSeq(stream', 1, Len(stream)) = stream
  /\ UNCHANGED <<taken, strings, reported, broken>>

Return ==
  /\ ~reported
  /\ taken' \in (taken + 1)..(taken + Longest) /\ taken' <= Len(stream)
  /\ strings' = Append(strings, Chomp(SubSeq(stream, taken + 1, taken')))
  /\ UNCHANGED <<stream, reported, broken>>

Report ==
  /\ taken = Len(stream) \/ broken
  /\ reported' = TRUE
  /\ UNCHANGED <<stream, taken, strings, broken>>

Break == broken' = TRUE /\ UNCHANGED <<stream, taken, strings, reported>>

Next == Send \/ Return \/ Report \/ Break

Spec == Init /\ [][Next]_vars
=============================================================================
