---------------------------- MODULE StreamProofs ----------------------------
(***************************************************************************)
(* Proofs about Stream: that it keeps the promise of ByteStream, with and  *)
(* without TLS, and that TLS returns one string for each record, for all   *)
(* texts, sizes of reads and lengths of the stream.                        *)
(***************************************************************************)
EXTENDS Stream, TLAPS

\* Records end where the peer stopped writing, and what the SSL object has
\* opened is whole records.
Records ==
  /\ cuts \subseteq 1..Len(stream)
  /\ Len(stream) > 0 => Len(stream) \in cuts
  /\ opened \in cuts \cup {0}
  /\ secure => taken <= opened

\* The end arrives after the last byte, unless the connection breaks, and is
\* reported after the last byte was returned.
Endings ==
  /\ endArrived => end = "broken" \/ (end = "closed" /\ arrived = Len(stream))
  /\ reader = "thrown" => end = "broken" \/ (end = "closed" /\ taken = Len(stream))

\* The inductive invariant.
IInv == TypeOK /\ Records /\ Endings

\* A read goes on from where the last one stopped, and does not pass p.
LEMMA UpToBetween ==
  ASSUME IInv, NEW p \in Nat, p > taken
  PROVE  /\ UpTo(p) \in (taken + 1)..(taken + Longest)
         /\ UpTo(p) <= p
BY SizesAssumption DEF UpTo, IInv, TypeOK

\* What is returned is made of what was sent.
LEMMA ChompType ==
  ASSUME IInv, NEW m \in 1..(Len(stream) + 1), NEW n \in 0..Len(stream)
  PROVE  Chomp(SubSeq(stream, m, n)) \in Seq(Bytes)
<1> DEFINE s == SubSeq(stream, m, n)
<1>1. s \in Seq(Bytes)
  BY DEF IInv, TypeOK
<1> HIDE DEF s
<1>2. SubSeq(s, 1, Len(s) - 1) \in Seq(Bytes)
  BY <1>1
<1>3. Chomp(s) \in Seq(Bytes)
  BY <1>1, <1>2 DEF Chomp
<1> QED
  BY <1>3 DEF s

\* The three ways to return a string: p is what is there, TLS has opened up to q.
LEMMA ReturnCases ==
  ASSUME IInv, ReturnPending \/ ReturnRecord \/ ReturnPlain
  PROVE  \E p \in (taken + 1)..arrived :
           /\ Return(p)
           /\ secure => opened' = p
           /\ ~secure => opened' = opened
           /\ opened' \in cuts \cup {0} /\ opened' <= arrived
<1> USE DEF IInv, TypeOK, Records
<1>1. CASE ReturnPending
  BY <1>1 DEF ReturnPending
<1>2. CASE ReturnRecord
  BY <1>2 DEF ReturnRecord, ArrivedRecord, NextRecord
<1>3. CASE ReturnPlain
  BY <1>3 DEF ReturnPlain
<1> QED
  BY <1>1, <1>2, <1>3

\* Returning a string keeps the invariant.
LEMMA ReturnInv ==
  ASSUME IInv, ReturnPending \/ ReturnRecord \/ ReturnPlain
  PROVE  IInv'
<1>1. PICK p \in (taken + 1)..arrived :
        /\ Return(p)
        /\ secure => opened' = p
        /\ opened' \in cuts \cup {0} /\ opened' <= arrived
  BY ReturnCases
<1>2. UNCHANGED <<peer, network, size>> /\ reader = "recv"
  BY DEF ReturnPending, ReturnRecord, ReturnPlain
<1>3. taken' \in (taken + 1)..p
  BY <1>1, UpToBetween DEF Return, IInv, TypeOK
<1>4. strings' \in Seq(Seq(Bytes))
  <2>1. Chomp(SubSeq(stream, taken + 1, taken')) \in Seq(Bytes)
    <3>1. taken + 1 \in 1..(Len(stream) + 1) /\ taken' \in 0..Len(stream)
      BY <1>1, <1>3 DEF IInv, TypeOK
    <3> QED
      BY <3>1, ChompType
  <2> QED
    BY <1>1, <2>1 DEF Return, IInv, TypeOK
<1>5. TypeOK'
  <2>1. secure' = secure /\ stream' = stream /\ cuts' = cuts /\ end' = end /\ size' = size
    BY <1>2 DEF peer
  <2>2. arrived' = arrived /\ endArrived' = endArrived
    BY <1>2 DEF network
  <2>3. reads' \subseteq Nat /\ reader' = "idle"
    <3>1. reads \subseteq Nat /\ taken' \in Nat
      BY <1>3 DEF IInv, TypeOK
    <3> QED
      BY <1>1, <3>1 DEF Return
  <2>4. taken' \in 0..arrived /\ opened' \in 0..arrived
    BY <1>1, <1>3 DEF IInv, TypeOK
  <2> QED
    BY <1>4, <2>1, <2>2, <2>3, <2>4 DEF IInv, TypeOK
<1>6. Records' /\ Endings'
  BY <1>1, <1>2, <1>3 DEF Return, IInv, TypeOK, Records, Endings, peer, network
<1> QED
  BY <1>5, <1>6 DEF IInv

\* What a longer stream does to its length and its beginning.
LEMMA Longer ==
  ASSUME NEW s \in Seq(Bytes), NEW t \in Seq(Bytes)
  PROVE  /\ s \o t \in Seq(Bytes)
         /\ Len(s \o t) = Len(s) + Len(t)
         /\ SubSeq(s \o t, 1, Len(s)) = s
OBVIOUS

\* Everything else keeps it.
LEMMA OtherInv ==
  ASSUME IInv, Send \/ End \/ Arrive \/ EndArrives \/ Begin \/ Select \/ ReturnEnd
  PROVE  IInv'
<1>1. CASE Send
  <2>1. PICK t \in Texts : /\ stream' = stream \o t
                           /\ cuts' = cuts \cup {Len(stream) + Len(t)}
    BY <1>1 DEF Send
  <2>2. /\ stream' \in Seq(Bytes) /\ Len(stream) \in Nat /\ Len(stream') \in Nat
        /\ Len(stream') > Len(stream) /\ cuts' = cuts \cup {Len(stream')}
    <3>1. t \in Seq(Bytes) /\ t # << >> /\ stream \in Seq(Bytes)
      BY <2>1, TextsAssumption DEF IInv, TypeOK
    <3>2. Len(t) \in Nat /\ Len(t) > 0
      BY <3>1
    <3> QED
      BY <2>1, <3>1, <3>2, Longer
  <2>3. /\ secure' = secure
        /\ end = "open" /\ end' = end /\ arrived' = arrived /\ endArrived' = endArrived
        /\ opened' = opened /\ taken' = taken /\ strings' = strings /\ reads' = reads
        /\ reader' = reader /\ size' = size
    BY <1>1 DEF Send, network, result
  <2>4. TypeOK'
    <3>1. /\ arrived \in 0..Len(stream') /\ opened \in 0..arrived
          /\ taken \in 0..arrived
      BY <2>2 DEF IInv, TypeOK
    <3>2. cuts' \subseteq Nat
      BY <2>2 DEF IInv, TypeOK
    <3> QED
      BY <2>2, <2>3, <3>1, <3>2 DEF IInv, TypeOK
  <2>5. Records'
    <3>1. cuts' \subseteq 1..Len(stream')
      <4> SUFFICES ASSUME NEW p \in cuts' PROVE p \in 1..Len(stream')
        OBVIOUS
      <4>1. p \in 1..Len(stream) \/ p = Len(stream')
        BY <2>2 DEF IInv, Records
      <4> QED
        BY <2>2, <4>1
    <3>2. Len(stream') \in cuts' /\ opened \in cuts' \cup {0}
      BY <2>2 DEF IInv, Records
    <3> QED
      BY <2>3, <3>1, <3>2 DEF IInv, Records
  <2>6. Endings'
    BY <2>2, <2>3 DEF IInv, TypeOK, Endings
  <2> QED
    BY <2>4, <2>5, <2>6 DEF IInv
<1>2. CASE End
  BY <1>2 DEF End, IInv, TypeOK, Records, Endings, network, result
<1>3. CASE Arrive
  BY <1>3 DEF Arrive, IInv, TypeOK, Records, Endings, peer, result
<1>4. CASE EndArrives
  BY <1>4 DEF EndArrives, IInv, TypeOK, Records, Endings, peer, result
<1>5. CASE Begin \/ Select
  <2>1. /\ UNCHANGED <<peer, network, result>> /\ size' \in Sizes
        /\ reader' \in {"idle", "select", "recv"}
    BY <1>5 DEF Begin, Select, IInv, TypeOK
  <2> QED
    BY <2>1 DEF IInv, TypeOK, Records, Endings, peer, network, result
<1>6. CASE ReturnEnd
  <2>1. end # "broken" => taken = Len(stream)
    <3> SUFFICES ASSUME end # "broken" PROVE taken = Len(stream)
      OBVIOUS
    <3>1. arrived = Len(stream) /\ Ended
      BY <1>6 DEF ReturnEnd, Ended, IInv, Endings
    <3>2. CASE ~secure
      BY <3>1, <3>2 DEF Ended
    <3>3. CASE secure
      <4>1. taken = opened /\ Len(stream) \notin cuts \cap (opened + 1)..Len(stream)
        BY <3>1, <3>3 DEF Ended
      <4> QED
        BY <3>1, <4>1 DEF IInv, TypeOK, Records
    <3> QED
      BY <3>2, <3>3
  <2> QED
    BY <1>6, <2>1 DEF ReturnEnd, Ended, IInv, TypeOK, Records, Endings, peer, network, result
<1> QED
  BY <1>1, <1>2, <1>3, <1>4, <1>5, <1>6

\* The invariant holds at first and is kept by every step.
LEMMA Kept ==
  /\ Init => IInv
  /\ IInv /\ [Next]_vars => IInv'
<1>1. ASSUME Init PROVE IInv
  <2>1. stream \in Seq(Bytes) /\ Len(stream) = 0 /\ strings \in Seq(Seq(Bytes))
    BY <1>1 DEF Init
  <2>2. TypeOK
    <3>1. cuts \subseteq Nat /\ reads \subseteq Nat
      BY <1>1 DEF Init
    <3>2. arrived \in 0..Len(stream) /\ opened \in 0..arrived /\ taken \in 0..arrived
      BY <1>1, <2>1 DEF Init
    <3>3. /\ secure \in BOOLEAN
          /\ end = "open" /\ endArrived = FALSE /\ reader = "idle" /\ size \in Sizes
      BY <1>1 DEF Init
    <3> QED
      BY <2>1, <3>1, <3>2, <3>3 DEF TypeOK
  <2>3. Records /\ Endings
    BY <1>1, <2>1 DEF Init, Records, Endings
  <2> QED
    BY <2>2, <2>3 DEF IInv
<1>2. ASSUME IInv, UNCHANGED vars PROVE IInv'
  BY <1>2 DEF IInv, TypeOK, Records, Endings, vars, peer, network, result
<1> QED
  BY <1>1, <1>2, ReturnInv, OtherInv DEF Next, Reader

\* Types, and nothing is returned that has not been opened, nor opened that has
\* not arrived.
THEOREM TypeCorrect == Spec => []TypeOK
<1>1. IInv => TypeOK
  BY DEF IInv
<1> QED
  BY <1>1, Kept, PTL DEF Spec

\* What a step of the reader and its environment leaves alone, seen from outside.
LEMMA Unseen ==
  ASSUME UNCHANGED <<stream, taken, strings, end>>,
         (reader' = "thrown") = (reader = "thrown")
  PROVE  UNCHANGED Promise!vars
BY DEF Promise!vars

\* Every step is a step of the promised stream, or none that shows.
LEMMA StepPromised ==
  ASSUME IInv, [Next]_vars
  PROVE  [Promise!Next]_(Promise!vars)
<1>1. CASE Send
  <2>1. PICK t \in Texts : stream' = stream \o t
    BY <1>1 DEF Send
  <2>2. t \in Seq(Bytes) /\ stream \in Seq(Bytes)
    BY TextsAssumption DEF IInv, TypeOK
  <2>3. /\ stream' \in Seq(Bytes) /\ Len(stream) <= Len(stream')
        /\ SubSeq(stream', 1, Len(stream)) = stream
    <3>1. Len(t) \in Nat /\ Len(stream) \in Nat
      BY <2>2
    <3> QED
      BY <2>1, <2>2, <3>1, Longer
  <2>4. UNCHANGED <<taken, strings, end, reader>>
    BY <1>1 DEF Send, result
  <2>5. Promise!Send
    BY <2>3, <2>4 DEF Promise!Send
  <2> QED
    BY <2>5 DEF Promise!Next
<1>2. CASE End
  <2>1. UNCHANGED <<stream, taken, strings, reader>> /\ end = "open"
    BY <1>2 DEF End, result
  <2>2. CASE end' = "broken"
    <3>1. Promise!Break
      BY <2>1, <2>2 DEF Promise!Break
    <3> QED
      BY <3>1 DEF Promise!Next
  <2>3. CASE end' # "broken"
    BY <2>1, <2>3 DEF Promise!vars
  <2> QED
    BY <2>2, <2>3
<1>3. CASE Arrive \/ EndArrives \/ Begin \/ Select
  <2>1. UNCHANGED <<stream, taken, strings, end>>
    BY <1>3 DEF Arrive, EndArrives, Begin, Select, peer, result
  <2>2. (reader' = "thrown") = (reader = "thrown")
    BY <1>3 DEF Arrive, EndArrives, Begin, Select
  <2> QED
    BY <2>1, <2>2, Unseen
<1>4. CASE ReturnPending \/ ReturnRecord \/ ReturnPlain
  <2>1. PICK p \in (taken + 1)..arrived : Return(p)
    BY <1>4, ReturnCases
  <2>2. p \in Nat /\ p > taken /\ p <= Len(stream) /\ Len(stream) \in Nat
    BY DEF IInv, TypeOK
  <2>3. taken' \in (taken + 1)..(taken + Longest) /\ taken' <= Len(stream)
    <3>1. taken' = UpTo(p)
      BY <2>1 DEF Return
    <3>2. UpTo(p) <= p /\ UpTo(p) \in (taken + 1)..(taken + Longest)
      BY <2>2, UpToBetween
    <3>3. UpTo(p) \in Int
      BY <3>2, SizesAssumption DEF IInv, TypeOK
    <3> QED
      BY <2>2, <3>1, <3>2, <3>3
  <2>4. strings' = Append(strings, Promise!Chomp(SubSeq(stream, taken + 1, taken')))
    BY <2>1 DEF Return, Chomp, Promise!Chomp
  <2>5. UNCHANGED <<stream, end>> /\ reader = "recv" /\ reader' = "idle"
    BY <1>4, <2>1 DEF ReturnPending, ReturnRecord, ReturnPlain, Return, peer
  <2>6. Promise!Return
    BY <2>3, <2>4, <2>5 DEF Promise!Return
  <2> QED
    BY <2>6 DEF Promise!Next
<1>5. CASE ReturnEnd
  <2>1. UNCHANGED <<stream, taken, strings, end>> /\ reader = "recv"
    BY <1>5 DEF ReturnEnd, peer, result
  <2>2. CASE reader' = "thrown"
    <3>1. taken = Len(stream) \/ end = "broken"
      BY <1>5, <2>1, <2>2, OtherInv DEF IInv, Endings
    <3>2. Promise!Report
      BY <2>1, <2>2, <3>1 DEF Promise!Report
    <3> QED
      BY <3>2 DEF Promise!Next
  <2>3. CASE reader' # "thrown"
    BY <2>1, <2>3, Unseen
  <2> QED
    BY <2>2, <2>3
<1>6. CASE UNCHANGED vars
  BY <1>6, Unseen DEF vars, peer, result
<1> QED
  BY <1>1, <1>2, <1>3, <1>4, <1>5, <1>6 DEF Next, Reader

\* The reads of a connection, with and without TLS, keep the promise of a
\* stream: what the peer sent comes back in order, each byte once, and the end
\* after all of it.
THEOREM StreamImplemented == Spec => StreamKept
<1>1. Init => Promise!Init
  BY DEF Init, Promise!Init
<1>2. IInv /\ [Next]_vars => [Promise!Next]_(Promise!vars)
  BY StepPromised
<1> QED
  BY <1>1, <1>2, Kept, PTL DEF Spec, StreamKept, Promise!Spec

\* While the records are short, nothing is opened that is not returned.
Whole == secure /\ Short => opened = taken /\ reads = {p \in cuts : p <= taken}

\* A new record does not make an old one short.
LEMMA ShortBefore ==
  ASSUME IInv, Send, Short'
  PROVE  Short
<1>1. cuts' \subseteq cuts \cup {n \in Nat : n > Len(stream)}
  <2>1. PICK t \in Texts : cuts' = cuts \cup {Len(stream) + Len(t)}
    BY DEF Send
  <2>2. t \in Seq(Bytes) /\ t # << >> /\ Len(stream) \in Nat
    BY TextsAssumption DEF IInv, TypeOK
  <2>3. Len(t) \in Nat /\ Len(t) > 0
    BY <2>2
  <2> QED
    BY <2>1, <2>2, <2>3
<1> SUFFICES ASSUME NEW p \in cuts, NEW s \in Sizes
             PROVE  \E q \in cuts \cup {0} : q < p /\ p - q <= s
  BY DEF Short
<1>2. p \in cuts'
  BY DEF Send
<1>3. PICK q \in cuts' \cup {0} : q < p /\ p - q <= s
  BY <1>2 DEF Short
<1>4. p \in Nat /\ p <= Len(stream) /\ Len(stream) \in Nat
  BY DEF IInv, TypeOK, Records
<1>5. q \in cuts \cup {0}
  BY <1>1, <1>3, <1>4
<1> QED
  BY <1>3, <1>5

\* A read of a short record returns it whole.
LEMMA WholeRecord ==
  ASSUME IInv, Whole, secure, Short, ReturnRecord
  PROVE  Whole'
<1>1. PICK p \in cuts : NextRecord(p) /\ opened' = p /\ Return(p)
  BY DEF ReturnRecord, ArrivedRecord
<1>2. /\ opened = taken /\ reads = {r \in cuts : r <= taken}
      /\ cuts' = cuts /\ reader = "recv" /\ size \in Sizes
      /\ cuts \subseteq Nat /\ taken \in Nat /\ size \in Nat
  BY SizesAssumption DEF ReturnRecord, Whole, peer, IInv, TypeOK
<1>3. PICK q \in cuts \cup {0} : q < p /\ p - q <= size
  BY <1>2 DEF Short
<1>4. q <= taken
  BY <1>1, <1>2, <1>3 DEF NextRecord
<1>5. p - taken <= size
  BY <1>2, <1>3, <1>4
<1>6. taken' = p /\ reads' = reads \cup {p}
  BY <1>1, <1>5 DEF Return, UpTo
<1>7. ASSUME NEW r \in cuts PROVE r <= p <=> r <= taken \/ r = p
  <2>1. r \in Nat /\ p \in Nat /\ p > taken /\ (r <= taken \/ r >= p)
    BY <1>1, <1>2 DEF NextRecord
  <2> QED
    BY <1>2, <2>1
<1>8. reads' = {r \in cuts : r <= p}
  BY <1>2, <1>6, <1>7
<1> QED
  BY <1>1, <1>2, <1>6, <1>8 DEF Whole

\* Every step keeps the records whole.
LEMMA WholeKept ==
  ASSUME IInv, Whole, [Next]_vars
  PROVE  Whole'
<1> SUFFICES ASSUME secure', Short'
             PROVE  opened' = taken' /\ reads' = {p \in cuts' : p <= taken'}
  BY DEF Whole
<1>1. CASE Send
  <2>1. opened = taken /\ reads = {p \in cuts : p <= taken}
    BY <1>1, ShortBefore DEF Whole, Send
  <2>2. PICK t \in Texts : cuts' = cuts \cup {Len(stream) + Len(t)}
    BY <1>1 DEF Send
  <2>3. t \in Seq(Bytes) /\ t # << >> /\ Len(stream) \in Nat /\ taken \in Nat
    BY TextsAssumption DEF IInv, TypeOK
  <2>4. Len(t) \in Nat /\ Len(t) > 0 /\ taken <= Len(stream)
    BY <2>3 DEF IInv, TypeOK
  <2>5. ~(Len(stream) + Len(t) <= taken)
    BY <2>3, <2>4
  <2>6. UNCHANGED <<secure, opened, taken, reads>>
    BY <1>1 DEF Send, result
  <2> QED
    BY <2>1, <2>2, <2>5, <2>6
<1>2. CASE ReturnPending \/ ReturnRecord \/ ReturnPlain
  <2>1. cuts' = cuts /\ secure' = secure
    BY <1>2 DEF ReturnPending, ReturnRecord, ReturnPlain, peer
  <2>2. Short
    BY <2>1 DEF Short
  <2>3. opened = taken
    BY <2>1, <2>2 DEF Whole
  <2>4. ReturnRecord
    BY <1>2, <2>1, <2>3 DEF ReturnPending, ReturnPlain, IInv, TypeOK
  <2> QED
    BY <2>1, <2>2, <2>4, WholeRecord DEF Whole
<1>3. CASE End \/ Arrive \/ EndArrives \/ Begin \/ Select \/ ReturnEnd \/ UNCHANGED vars
  <2>1. UNCHANGED <<secure, cuts, opened, taken, reads>>
    BY <1>3 DEF End, Arrive, EndArrives, Begin, Select, ReturnEnd, vars, peer, result
  <2>2. Short
    BY <2>1 DEF Short
  <2> QED
    BY <2>1, <2>2 DEF Whole
<1> QED
  BY <1>1, <1>2, <1>3 DEF Next, Reader

\* Over TLS, a peer whose records no read is too short for is read one record
\* at a time: the commands and messages that the server matches as a whole
\* string are the ones the client wrote.
THEOREM OneStringTheorem == Spec => []OneStringEach
<1>1. Init => Whole
  BY DEF Init, Whole
<1>2. IInv /\ Whole /\ [Next]_vars => Whole'
  BY WholeKept
<1>3. Whole => OneStringEach
  BY DEF Whole, OneStringEach
<1> QED
  BY <1>1, <1>2, <1>3, Kept, PTL DEF Spec

=============================================================================
