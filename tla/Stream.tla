------------------------------- MODULE Stream -------------------------------
(***************************************************************************)
(* One connection, from the bytes that its peer sends to the strings that  *)
(* SocketStream::read returns (src/socket_stream.cc, secure_socket.cc,     *)
(* socket.cc): select on the descriptor, then one SSL_read, or one recv,   *)
(* which waits without a limit.  TLS hands data out by whole records, and  *)
(* keeps what a read did not ask for in the SSL object, where select does  *)
(* not see it.                                                             *)
(*                                                                         *)
(* Positions in the stream count its bytes.  One thread reads at a time:   *)
(* the worker until the session is online, the poller from then on.        *)
(***************************************************************************)
EXTENDS Integers, Sequences

CONSTANTS
  Bytes,     \* what a peer sends
  Newline,   \* '\n'
  Texts,     \* what a peer may write in one piece: a record of TLS
  Sizes,     \* how much reads ask for
  Longest,   \* and at most
  MaxBytes   \* bound: the bytes a peer sends

ASSUME TextsAssumption == Texts \subseteq Seq(Bytes) \ {<< >>}
ASSUME SizesAssumption == Longest \in Nat /\ Sizes \subseteq 1..Longest
ASSUME BoundAssumption == MaxBytes \in Nat

VARIABLES
  secure,    \* a SecureSocket reads it, not a Socket
  stream,    \* what the peer has sent
  cuts,      \* the positions where its records end
  end,       \* how the peer has ended: "open", "closed" or "broken"
  arrived,   \* how much of the stream has reached this host
  endArrived,\* the end has, too
  opened,    \* how much the SSL object has decrypted
  taken,     \* how much was returned
  strings,   \* the strings it was returned in
  reads,     \* history: the positions after each of them
  reader,    \* where the reading thread is
  size       \* how much it asks for

peer == <<secure, stream, cuts, end>>
network == <<arrived, endArrived>>
result == <<opened, taken, strings, reads>>
vars == <<peer, network, result, reader, size>>

Init ==
  /\ secure \in BOOLEAN
  /\ stream = << >> /\ cuts = {} /\ end = "open"
  /\ arrived = 0 /\ endArrived = FALSE
  /\ opened = 0 /\ taken = 0 /\ strings = << >> /\ reads = {}
  /\ reader = "idle" /\ size \in Sizes

-----------------------------------------------------------------------------
(* The peer and the network.                                               *)

Send ==
  /\ end = "open"
  /\ \E t \in Texts :
       /\ Len(stream) + Len(t) <= MaxBytes
       /\ stream' = stream \o t
       /\ cuts' = cuts \cup {Len(stream) + Len(t)}
  /\ UNCHANGED <<secure, end, network, result, reader, size>>

\* In order, with close_notify or a FIN after the last byte; or not.
End ==
  /\ end = "open" /\ end' \in {"closed", "broken"}
  /\ UNCHANGED <<secure, stream, cuts, network, result, reader, size>>

Arrive ==
  /\ ~endArrived /\ arrived' \in (arrived + 1)..Len(stream)
  /\ UNCHANGED <<peer, endArrived, result, reader, size>>

\* What a broken connection has not carried until then is lost.
EndArrives ==
  /\ ~endArrived /\ endArrived' = TRUE
  /\ end = "broken" \/ (end = "closed" /\ arrived = Len(stream))
  /\ UNCHANGED <<peer, arrived, result, reader, size>>

-----------------------------------------------------------------------------
(* SocketStream::read(size, ttl).                                          *)

\* Mutant: an end alone is not noticed.
ReadableData == arrived > IF secure THEN opened ELSE taken

\* Something has arrived that was not read from the descriptor.
Readable == endArrived \/ arrived > IF secure THEN opened ELSE taken

Begin ==
  /\ reader = "idle"
  /\ reader' = "select" /\ size' \in Sizes
  /\ UNCHANGED <<peer, network, result>>

\* select comes back for the descriptor, or, after ttl, without it.
Select ==
  /\ reader = "select"
  /\ reader' = IF Readable THEN "recv" ELSE "idle"
  /\ UNCHANGED <<peer, network, result, size>>

-----------------------------------------------------------------------------
(* SecureSocket::recv and Socket::recv.                                    *)

\* s without a newline at its end.
Chomp(s) ==
  IF s # << >> /\ s[Len(s)] = Newline THEN SubSeq(s, 1, Len(s) - 1) ELSE s

\* Mutant: the last character of the buffer is kept for a 0.
UpToLess(p) == IF p - taken < size THEN p ELSE taken + size - 1

\* As much of the stream up to p as was asked for.
UpTo(p) == IF p - taken <= size THEN p ELSE taken + size

\* The stream up to p is there: return of it what was asked for.
Return(p) ==
  /\ taken' = UpTo(p)
  /\ strings' = Append(strings, Chomp(SubSeq(stream, taken + 1, taken')))
  /\ reads' = reads \cup {taken'}
  /\ reader' = "idle"

\* Some bytes of the last record were not asked for.
ReturnPending ==
  /\ reader = "recv" /\ secure /\ opened > taken
  /\ Return(opened)
  /\ UNCHANGED <<peer, network, opened, size>>

\* p is where the next record ends.
NextRecord(p) == p \in cuts /\ p > opened /\ \A q \in cuts : q <= opened \/ q >= p

\* Mutant: a record that has begun to arrive is there.
BegunRecord(p) == NextRecord(p)

ArrivedRecord(p) == NextRecord(p) /\ p <= arrived

\* The next record is there.
ReturnRecord ==
  /\ reader = "recv" /\ secure /\ opened = taken
  /\ \E p \in cuts : ArrivedRecord(p) /\ opened' = p /\ Return(p)
  /\ UNCHANGED <<peer, network, size>>

\* Without TLS whatever has arrived is there.
ReturnPlain ==
  /\ reader = "recv" /\ ~secure /\ arrived > taken
  /\ Return(arrived)
  /\ UNCHANGED <<peer, network, opened, size>>

\* Mutant: the end is looked at first.
EndedAnyhow == endArrived

\* Nothing is left but the end, and perhaps a part of a record.
Ended ==
  /\ endArrived
  /\ IF secure THEN opened = taken /\ cuts \cap (opened + 1)..arrived = {}
     ELSE arrived = taken

\* The end: ConnectionClosedException, or, when the connection broke, perhaps
\* an error, which reads as an empty string.
ReturnEnd ==
  /\ reader = "recv" /\ Ended
  /\ \/ reader' = "thrown"
     \/ end = "broken" /\ reader' = "idle"
  /\ UNCHANGED <<peer, network, result, size>>

Reader ==
  \/ Begin \/ Select
  \/ ReturnPending \/ ReturnRecord \/ ReturnPlain \/ ReturnEnd

Next == Send \/ End \/ Arrive \/ EndArrives \/ Reader

Spec == Init /\ [][Next]_vars

\* The caller reads again and again.
FairReads == Spec /\ WF_vars(Reader)

\* ... and what was sent arrives.
FairSpec == FairReads /\ WF_vars(Arrive) /\ WF_vars(EndArrives)

-----------------------------------------------------------------------------
(* Properties.                                                             *)

\* Types; nothing is decrypted or returned that has not arrived.
TypeOK ==
  /\ secure \in BOOLEAN
  /\ stream \in Seq(Bytes) /\ cuts \subseteq Nat
  /\ end \in {"open", "closed", "broken"}
  /\ arrived \in 0..Len(stream) /\ endArrived \in BOOLEAN
  /\ opened \in 0..arrived /\ taken \in 0..arrived
  /\ strings \in Seq(Seq(Bytes)) /\ reads \subseteq Nat
  /\ reader \in {"idle", "select", "recv", "thrown"}
  /\ size \in Sizes

Promise ==
  INSTANCE ByteStream WITH
    reported <- reader = "thrown", broken <- end = "broken"

\* Reads keep the promise of a stream: nothing is lost, doubled or reordered
\* between the network, the records, the rest that the SSL object keeps and the
\* strings, and a worker or the poller that is told of the end has been given
\* all that was sent before (secure_socket.cc 105-123, socket_stream.cc 74-81).
StreamKept == Promise!Spec

\* Every record is short enough for every read.
Short ==
  \A p \in cuts : \A s \in Sizes :
    \E q \in cuts \cup {0} : q < p /\ p - q <= s

\* One string for each record: what a peer writes in one piece is read in one
\* piece, neither cut nor joined to the next, as the regular expressions that
\* are matched against the whole string suppose (wheespa_server.cc 163-165,
\* headers/handle_received.hpp 43).  TLS grants it for records that no read is
\* too short for; a plain Socket never does.
OneStringEach == secure /\ Short => reads = {p \in cuts : p <= taken}

-----------------------------------------------------------------------------
(* Liveness.                                                               *)

\* Under FairSpec: the caller is told of an orderly end, whatever rest the SSL
\* object keeps from select until then.
EndNoticed == end = "closed" ~> reader = "thrown"

\* Under FairSpec: what is sent is read, unless a record is longer than a read;
\* the rest of such a record waits for the next one to arrive.
SentIsRead ==
  \A n \in 1..MaxBytes :
    Len(stream) >= n ~> taken >= n \/ (secure /\ ~Short) \/ end = "broken"

\* "ttl should be in seconds" (socket_stream.cc 58): under FairReads, a read
\* returns or throws, whatever the network does.
ReadReturns == reader = "recv" ~> reader # "recv"
=============================================================================
