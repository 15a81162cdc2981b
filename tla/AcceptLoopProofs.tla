-------------------------- MODULE AcceptLoopProofs --------------------------
(***************************************************************************)
(* Proofs about AcceptLoop: its safety properties, for any number of       *)
(* connections and descriptors.                                            *)
(***************************************************************************)
EXTENDS AcceptLoop, SequenceTheorems, FiniteSetTheorems, TLAPS

-----------------------------------------------------------------------------
(* Erasing an element of a vector.                                         *)

\* What is left when the n-th element is erased, and where it is.
LEMMA RemovalProperties ==
  ASSUME NEW S, NEW s \in Seq(S), NEW n \in 1..Len(s)
  PROVE  /\ RemoveAt(s, n) \in Seq(S)
         /\ Len(RemoveAt(s, n)) = Len(s) - 1
         /\ \A k \in 1..(Len(s) - 1) : RemoveAt(s, n)[k] = IF k < n THEN s[k] ELSE s[k + 1]
<1> DEFINE a == SubSeq(s, 1, n - 1)
           b == SubSeq(s, n + 1, Len(s))
<1>1. a \in Seq(S) /\ Len(a) = n - 1 /\ \A k \in 1..(n - 1) : a[k] = s[k]
  BY SubSeqProperties
<1>2. b \in Seq(S) /\ Len(b) = Len(s) - n /\ \A k \in 1..(Len(s) - n) : b[k] = s[n + k]
  BY SubSeqProperties
<1>3. /\ a \o b \in Seq(S) /\ Len(a \o b) = Len(a) + Len(b)
      /\ \A k \in 1..(Len(a) + Len(b)) : (a \o b)[k] = IF k <= Len(a) THEN a[k] ELSE b[k - Len(a)]
  BY <1>1, <1>2, ConcatProperties
<1>4. RemoveAt(s, n) = a \o b
  BY DEF RemoveAt
<1>5. Len(s) \in Nat
  OBVIOUS
<1> HIDE DEF a, b
<1>6. ASSUME NEW k \in 1..(Len(s) - 1)
      PROVE  (a \o b)[k] = IF k < n THEN s[k] ELSE s[k + 1]
  <2>1. CASE k < n
    BY <1>1, <1>2, <1>3, <1>5, <1>6, <2>1
  <2>2. CASE k >= n
    <3>1. (a \o b)[k] = b[k - (n - 1)]
      BY <1>1, <1>2, <1>3, <1>5, <1>6, <2>2
    <3>2. k - (n - 1) \in 1..(Len(s) - n) /\ n + (k - (n - 1)) = k + 1
      BY <1>5, <1>6, <2>2
    <3> QED
      BY <1>2, <2>2, <3>1, <3>2
  <2>3. k < n \/ k >= n
    BY <1>5, <1>6
  <2> QED
    BY <2>1, <2>2, <2>3, Zenon
<1> QED
  BY <1>1, <1>2, <1>3, <1>4, <1>5, <1>6

\* Nothing else is erased with it.
LEMMA RemovalKeeps ==
  ASSUME NEW S, NEW s \in Seq(S), NEW n \in 1..Len(s)
  PROVE  ToSet(s) \ ToSet(RemoveAt(s, n)) \subseteq {s[n]}
<1> SUFFICES ASSUME NEW k \in 1..Len(s), k # n
             PROVE  s[k] \in ToSet(RemoveAt(s, n))
  BY DEF ToSet
<1> DEFINE t == RemoveAt(s, n)
<1>1. /\ t \in Seq(S) /\ Len(t) = Len(s) - 1
      /\ \A j \in 1..(Len(s) - 1) : t[j] = IF j < n THEN s[j] ELSE s[j + 1]
  BY RemovalProperties, Zenon
<1> HIDE DEF t
<1>2. \A j \in 1..(Len(s) - 1) : t[j] \in ToSet(t)
  BY <1>1 DEF ToSet
<1>3. CASE k < n
  <2>1. k \in 1..(Len(s) - 1) /\ t[k] = s[k]
    BY <1>1, <1>3
  <2> QED
    BY <1>2, <2>1 DEF t
<1>4. CASE k > n
  <2>1. k - 1 \in 1..(Len(s) - 1) /\ t[k - 1] = s[k]
    BY <1>1, <1>4
  <2> QED
    BY <1>2, <2>1 DEF t
<1> QED
  BY <1>1, <1>3, <1>4

\* A longer vector loses no element.
LEMMA AppendKeeps ==
  ASSUME NEW S, NEW s \in Seq(S), NEW x \in S
  PROVE  ToSet(Append(s, x)) = ToSet(s) \cup {x}
BY AppendProperties DEF ToSet

-----------------------------------------------------------------------------
(* The inductive invariant.                                                *)

Passing == {"reap", "join", "erase"}

\* The indices noted in a pass grow, and each of them, counted as Erase counts,
\* is that of a joined thread.
PassInv ==
  IF pc \in Passing
  THEN /\ counter <= Len(to_erase)
       /\ \A k \in 1..Len(to_erase) :
            k > counter =>
              /\ Index(to_erase[k]) \in 1..Len(m_threads)
              /\ m_threads[Index(to_erase[k])] \in joined
       /\ \A k, l \in 1..Len(to_erase) : k < l => to_erase[k] < to_erase[l]
       /\ pc # "erase" => counter = 0 /\ \A k \in 1..Len(to_erase) : to_erase[k] < i
       /\ pc = "join" => i <= Len(m_futures)
  ELSE to_erase = << >> /\ counter = 0

\* A connection is in one place: not made, waiting, being accepted, served by a
\* worker, online.
ConnsInv ==
  /\ backlog \cap unmade = {}
  /\ \A c \in backlog \cup unmade : work[c] = "none" /\ c \notin open
  /\ \A c \in online : work[c] # "none"
  /\ pc \in {"handshake", "alloc", "spawn"} =>
       cur \in open \ (online \cup backlog \cup unmade) /\ work[cur] = "none"
  /\ pc = "spawn" => ab = cur

\* What was joined has ended, and what has not ended is kept.
ThreadsInv ==
  /\ \A c \in joined : Ended(c)
  /\ \A c \in Conns : work[c] \in {"running", "left", "flagged"} => c \in ToSet(m_threads)

\* How far the destructor has come.
EndInv ==
  /\ pc \in {"shutdown", "destroy", "exited"} => poller = "ended"
  /\ pc \in {"destroy", "exited"} =>
       \A k \in 1..Len(m_threads) : k < i => Ended(m_threads[k])
  /\ pc = "exited" => i > Len(m_threads)

\* A late connection is the only one, and the loop will not come to select again.
LateInv ==
  /\ late # {} => signal /\ pc \notin Passing \cup {"select"}
  /\ \A c, d \in late : c = d

IInv ==
  /\ TypeOK /\ InStep /\ NeverTerminates
  /\ PassInv /\ ConnsInv /\ ThreadsInv /\ EndInv /\ LateInv

-----------------------------------------------------------------------------
(* Every step keeps it.                                                    *)

\* Types.
LEMMA TypeStep ==
  ASSUME TypeOK, InStep, PassInv, ConnsInv, [Next]_vars
  PROVE  TypeOK'
<1> USE DEF TypeOK, loop, kept, heap, threads, sockets, world, history
<1>1. CASE TestSignal
  BY <1>1 DEF TestSignal, At, Ended, Stopping
<1>2. CASE Examine
  BY <1>2 DEF Examine, At
<1>3. CASE Join
  <2>1. i \in 1..Len(m_threads)
    BY <1>3 DEF Join, At, PassInv, Passing, InStep, InBlock
  <2>2. m_threads[i] \in Conns /\ to_erase' \in Seq(Nat \ {0})
    BY <1>3, <2>1, AppendProperties DEF Join
  <2> QED
    BY <1>3, <2>2 DEF Join, At
<1>4. CASE Joined
  BY <1>4 DEF Joined, At
<1>5. CASE Erase
  <2> DEFINE n == Index(to_erase[counter + 1])
  <2>1. counter + 1 \in 1..Len(to_erase) /\ m_futures = m_threads
    BY <1>5 DEF Erase, At, PassInv, Passing, InStep, InBlock
  <2>2. n \in 1..Len(m_threads)
    BY <1>5, <2>1 DEF Erase, At, PassInv, Passing
  <2>3. RemoveAt(m_threads, n) \in Seq(Conns)
    BY <2>2, RemovalProperties
  <2> QED
    BY <1>5, <2>1, <2>3 DEF Erase, At
<1>6. CASE Erased
  BY <1>6 DEF Erased, At
<1>7. CASE Select
  BY <1>7 DEF Select, At
<1>8. CASE SelectFull
  BY <1>8 DEF SelectFull, At
<1>9. CASE Alloc
  BY <1>9 DEF Alloc, At
<1>10. CASE Spawn
  <2>1. cur \in Conns /\ ab = cur /\ cur \in open
    BY <1>10 DEF Spawn, At, ConnsInv
  <2>2. m_futures' = Append(m_futures, ab) /\ m_threads' \in {m_threads, Append(m_threads, cur)}
    BY <1>10 DEF Spawn, Keep, KeepThread
  <2>3. Append(m_futures, ab) \in Seq(Conns) /\ Append(m_threads, cur) \in Seq(Conns)
    BY <2>1, AppendProperties
  <2>4. m_futures' \in Seq(Conns) /\ m_threads' \in Seq(Conns)
    BY <2>2, <2>3
  <2>5. flags' \in [Conns -> BOOLEAN] /\ work' \in [Conns -> {"none", "running", "left", "flagged", "ended"}]
    BY <1>10, <2>1 DEF Spawn
  <2> QED
    BY <1>10, <2>4, <2>5 DEF Spawn, At
<1>11. CASE JoinPoller
  BY <1>11 DEF JoinPoller, At
<1>12. CASE JoinRest
  BY <1>12 DEF JoinRest, At, Rest, Returns, Ended
<1>13. CASE Handshake
  BY <1>13 DEF Handshake, At
<1>14. CASE ShutdownLast \/ PollerLooks \/ PollerReturns
  BY <1>14 DEF ShutdownLast, PollerLooks, PollerReturns, At
<1>15. CASE Signal
  BY <1>15 DEF Signal
<1>16. ASSUME NEW c \in Conns, Connect(c) \/ Serve(c) \/ Finish(c)
      PROVE  TypeOK'
  <2>1. CASE Connect(c)
    BY <2>1 DEF Connect
  <2>2. CASE WorkerFlags(c)
    <3>1. flags' \in [Conns -> BOOLEAN] /\ work' \in [Conns -> {"none", "running", "left", "flagged", "ended"}]
      BY <2>2 DEF WorkerFlags
    <3> QED
      BY <2>2, <3>1 DEF WorkerFlags
  <2>3. CASE WorkerReturns(c)
    BY <2>3 DEF WorkerReturns
  <2>4. CASE PollerCloses(c)
    BY <2>4 DEF PollerCloses
  <2>5. CASE WorkerPublishes(c)
    BY <2>5 DEF WorkerPublishes
  <2>6. CASE WorkerLeaves(c)
    BY <2>6 DEF WorkerLeaves
  <2> QED
    BY <1>16, <2>1, <2>2, <2>3, <2>4, <2>5, <2>6 DEF Serve, Finish
<1>17. CASE UNCHANGED vars
  BY <1>17 DEF vars
<1> QED
  BY <1>1, <1>2, <1>3, <1>4, <1>5, <1>6, <1>7, <1>8, <1>9, <1>10, <1>11, <1>12,
     <1>13, <1>14, <1>15, <1>16, <1>17 DEF Next, Main

\* The vectors stay alike while the loop runs.
LEMMA InStepStep ==
  ASSUME TypeOK, InStep, ConnsInv, [Next]_vars
  PROVE  InStep'
<1> USE DEF TypeOK, InStep, InBlock, ConnsInv, loop, kept, heap, threads, sockets, world, history
<1>1. CASE TestSignal
  BY <1>1 DEF TestSignal, At, Ended, Stopping
<1>2. CASE Examine
  BY <1>2 DEF Examine, At
<1>3. CASE Join
  BY <1>3 DEF Join, At, Returns, Ended
<1>4. CASE Joined
  BY <1>4 DEF Joined, At
<1>5. CASE Erase
  BY <1>5 DEF Erase, At, Index
<1>6. CASE Erased
  BY <1>6 DEF Erased, At
<1>7. CASE Select
  BY <1>7 DEF Select, At
<1>8. CASE SelectFull
  BY <1>8 DEF SelectFull, At
<1>9. CASE Alloc
  BY <1>9 DEF Alloc, At
<1>10. CASE Spawn
  BY <1>10 DEF Spawn, At, Keep, KeepThread
<1>11. CASE JoinPoller
  BY <1>11 DEF JoinPoller, At
<1>12. CASE JoinRest
  BY <1>12 DEF JoinRest, At, Rest, Returns, Ended
<1>13. CASE Handshake
  BY <1>13 DEF Handshake, At
<1>14. CASE ShutdownLast \/ PollerLooks \/ PollerReturns
  BY <1>14 DEF ShutdownLast, PollerLooks, PollerReturns, At
<1>15. CASE Signal
  BY <1>15 DEF Signal
<1>16. ASSUME NEW c \in Conns, Connect(c) \/ Serve(c) \/ Finish(c)
      PROVE  InStep'
  <2>1. CASE Connect(c)
    BY <2>1 DEF Connect
  <2>2. CASE WorkerFlags(c)
    BY <2>2 DEF WorkerFlags, InBlock
  <2>3. CASE WorkerReturns(c)
    BY <2>3 DEF WorkerReturns
  <2>4. CASE PollerCloses(c)
    BY <2>4 DEF PollerCloses
  <2>5. CASE WorkerPublishes(c)
    BY <2>5 DEF WorkerPublishes
  <2>6. CASE WorkerLeaves(c)
    BY <2>6 DEF WorkerLeaves
  <2> QED
    BY <1>16, <2>1, <2>2, <2>3, <2>4, <2>5, <2>6 DEF Serve, Finish
<1>17. CASE UNCHANGED vars
  BY <1>17 DEF vars
<1> QED
  BY <1>1, <1>2, <1>3, <1>4, <1>5, <1>6, <1>7, <1>8, <1>9, <1>10, <1>11, <1>12,
     <1>13, <1>14, <1>15, <1>16, <1>17 DEF Next, Main

\* What a pass has noted stays true as the vectors shrink.
LEMMA PassStep ==
  ASSUME TypeOK, InStep, PassInv, [Next]_vars
  PROVE  PassInv'
<1> USE DEF TypeOK, PassInv, Passing, Index, loop, kept, heap, threads, sockets, world, history
<1>1. CASE TestSignal
  BY <1>1 DEF TestSignal, At, Ended, Stopping
<1>2. CASE Examine
  BY <1>2 DEF Examine, At
<1>3. CASE Join
  <2>1. i \in 1..Len(m_threads) /\ counter = 0 /\ to_erase' = Append(to_erase, i)
    BY <1>3 DEF Join, At, InStep, InBlock
  <2>2. /\ Len(to_erase') = Len(to_erase) + 1 /\ Len(to_erase) \in Nat
        /\ \A k \in 1..Len(to_erase) : to_erase'[k] = to_erase[k]
        /\ to_erase'[Len(to_erase) + 1] = i
    BY <2>1, AppendProperties
  <2>3. \A k \in 1..Len(to_erase) : to_erase[k] \in Int /\ to_erase[k] < i
    BY <1>3 DEF Join, At
  <2>4. \A k, l \in 1..Len(to_erase') : k < l => to_erase'[k] < to_erase'[l]
    <3>1. \A k, l \in 1..Len(to_erase) : k < l => to_erase[k] < to_erase[l]
      BY <1>3 DEF Join, At
    <3>2. ASSUME NEW k \in 1..Len(to_erase'), NEW l \in 1..Len(to_erase'), k < l
          PROVE  to_erase'[k] < to_erase'[l]
      <4> HIDE DEF TypeOK, PassInv
      <4>1. k \in 1..Len(to_erase) /\ (l \in 1..Len(to_erase) \/ l = Len(to_erase) + 1)
        BY <2>2, <3>2
      <4>2. CASE l \in 1..Len(to_erase)
        BY <2>2, <3>1, <3>2, <4>1, <4>2
      <4>3. CASE l = Len(to_erase) + 1
        BY <2>2, <2>3, <4>1, <4>3
      <4> QED
        BY <4>1, <4>2, <4>3
    <3> QED
      BY <3>2
  <2>5. \A k \in 1..Len(to_erase) :
          to_erase[k] \in 1..Len(m_threads) /\ m_threads[to_erase[k]] \in joined
    BY <1>3, <2>1, <2>3 DEF Join, At
  <2>6. \A k \in 1..Len(to_erase') :
          to_erase'[k] \in 1..Len(m_threads) /\ m_threads[to_erase'[k]] \in joined'
    BY <1>3, <2>1, <2>2, <2>5 DEF Join
  <2>7. \A k \in 1..Len(to_erase') : to_erase'[k] < i + 1 /\ to_erase'[k] - 0 = to_erase'[k]
    BY <2>1, <2>2, <2>3
  <2> QED
    BY <1>3, <2>1, <2>2, <2>4, <2>6, <2>7 DEF Join, At
<1>4. CASE Joined
  BY <1>4 DEF Joined, At
<1>5. CASE Erase
  <2> DEFINE n == Index(to_erase[counter + 1])
  <2>1. /\ counter + 1 \in 1..Len(to_erase) /\ pc = "erase" /\ m_futures = m_threads
        /\ n \in 1..Len(m_threads) /\ m_threads[n] \in joined
    BY <1>5 DEF Erase, At, PassInv, Passing, InStep, InBlock
  <2>2. m_threads' = RemoveAt(m_threads, n)
    BY <1>5 DEF Erase
  <2> HIDE DEF n
  <2>3. m_threads \in Seq(Conns) /\ Len(m_threads) \in Nat
    OBVIOUS
  <2>4. /\ Len(m_threads') = Len(m_threads) - 1
        /\ \A k \in 1..(Len(m_threads) - 1) :
             m_threads'[k] = IF k < n THEN m_threads[k] ELSE m_threads[k + 1]
    <3>1. n \in 1..Len(m_threads)
      BY <2>1
    <3> HIDE DEF TypeOK, PassInv
    <3>2. /\ Len(RemoveAt(m_threads, n)) = Len(m_threads) - 1
          /\ \A k \in 1..(Len(m_threads) - 1) :
               RemoveAt(m_threads, n)[k] = IF k < n THEN m_threads[k] ELSE m_threads[k + 1]
      BY <2>3, <3>1, RemovalProperties, Zenon
    <3> QED
      BY <2>2, <3>2, Zenon
  <2>5. UNCHANGED <<pc, to_erase, joined>> /\ counter' = counter + 1
    BY <1>5 DEF Erase
  <2>6. ASSUME NEW k \in 1..Len(to_erase), k > counter + 1
        PROVE  /\ to_erase[k] - (counter + 1) \in 1..Len(m_threads')
               /\ m_threads'[to_erase[k] - (counter + 1)] \in joined
    <3>1. /\ to_erase[k] - counter \in 1..Len(m_threads)
          /\ m_threads[to_erase[k] - counter] \in joined
      BY <2>1, <2>6
    <3>2. to_erase[counter + 1] < to_erase[k] /\ n = to_erase[counter + 1] - counter
      BY <2>1, <2>6 DEF n
    <3>3. /\ to_erase[k] \in Int /\ to_erase[counter + 1] \in Int
          /\ counter \in Int /\ n \in Int /\ Len(m_threads) \in Int
      BY <2>1, <2>6, <2>3
    <3> HIDE DEF TypeOK, PassInv, Index
    <3> DEFINE j == to_erase[k] - (counter + 1)
    <3>4. j \in 1..(Len(m_threads) - 1) /\ ~(j < n) /\ j + 1 = to_erase[k] - counter
      <4>1. j >= n /\ j + 1 = to_erase[k] - counter /\ j \in Int
        BY <3>2, <3>3
      <4>2. n >= 1 /\ j + 1 <= Len(m_threads)
        BY <2>1, <3>1, <4>1
      <4> QED
        BY <3>3, <4>1, <4>2
    <3> QED
      BY <2>4, <3>1, <3>4
  <2> QED
    BY <2>1, <2>5, <2>6
<1>6. CASE Erased
  BY <1>6 DEF Erased, At
<1>7. CASE Select
  BY <1>7 DEF Select, At
<1>8. CASE SelectFull
  BY <1>8 DEF SelectFull, At
<1>9. CASE Alloc
  BY <1>9 DEF Alloc, At
<1>10. CASE Spawn
  BY <1>10 DEF Spawn, At, Keep, KeepThread
<1>11. CASE JoinPoller
  BY <1>11 DEF JoinPoller, At
<1>12. CASE JoinRest
  BY <1>12 DEF JoinRest, At, Rest, Returns, Ended
<1>13. CASE Handshake
  BY <1>13 DEF Handshake, At
<1>14. CASE ShutdownLast \/ PollerLooks \/ PollerReturns
  BY <1>14 DEF ShutdownLast, PollerLooks, PollerReturns, At
<1>15. CASE Signal
  BY <1>15 DEF Signal
<1>16. ASSUME NEW c \in Conns, Connect(c) \/ Serve(c) \/ Finish(c)
      PROVE  PassInv'
  <2>1. CASE Connect(c)
    BY <2>1 DEF Connect
  <2>2. CASE WorkerFlags(c)
    BY <2>2 DEF WorkerFlags, InBlock
  <2>3. CASE WorkerReturns(c)
    BY <2>3 DEF WorkerReturns
  <2>4. CASE PollerCloses(c)
    BY <2>4 DEF PollerCloses
  <2>5. CASE WorkerPublishes(c)
    BY <2>5 DEF WorkerPublishes
  <2>6. CASE WorkerLeaves(c)
    BY <2>6 DEF WorkerLeaves
  <2> QED
    BY <1>16, <2>1, <2>2, <2>3, <2>4, <2>5, <2>6 DEF Serve, Finish
<1>17. CASE UNCHANGED vars
  BY <1>17 DEF vars
<1> QED
  BY <1>1, <1>2, <1>3, <1>4, <1>5, <1>6, <1>7, <1>8, <1>9, <1>10, <1>11, <1>12,
     <1>13, <1>14, <1>15, <1>16, <1>17 DEF Next, Main

\* A connection moves from one place to the next.
LEMMA ConnsStep ==
  ASSUME TypeOK, ConnsInv, [Next]_vars
  PROVE  ConnsInv'
<1> USE DEF TypeOK, ConnsInv, loop, kept, heap, threads, sockets, world, history
<1>1. CASE TestSignal
  BY <1>1 DEF TestSignal, At, Ended, Stopping
<1>2. CASE Examine
  BY <1>2 DEF Examine, At
<1>3. CASE Join
  BY <1>3 DEF Join, At, Returns, Ended
<1>4. CASE Joined
  BY <1>4 DEF Joined, At
<1>5. CASE Erase
  BY <1>5 DEF Erase, At, Index
<1>6. CASE Erased
  BY <1>6 DEF Erased, At
<1>7. CASE Select
  BY <1>7 DEF Select, At
<1>8. CASE SelectFull
  BY <1>8 DEF SelectFull, At
<1>9. CASE Alloc
  BY <1>9 DEF Alloc, At
<1>10. CASE Spawn
  BY <1>10 DEF Spawn, At, Keep, KeepThread
<1>11. CASE JoinPoller
  BY <1>11 DEF JoinPoller, At
<1>12. CASE JoinRest
  BY <1>12 DEF JoinRest, At, Rest, Returns, Ended
<1>13. CASE Handshake
  BY <1>13 DEF Handshake, At
<1>14. CASE ShutdownLast \/ PollerLooks \/ PollerReturns
  BY <1>14 DEF ShutdownLast, PollerLooks, PollerReturns, At
<1>15. CASE Signal
  BY <1>15 DEF Signal
<1>16. ASSUME NEW c \in Conns, Connect(c) \/ Serve(c) \/ Finish(c)
      PROVE  ConnsInv'
  <2>1. CASE Connect(c)
    BY <2>1 DEF Connect
  <2>2. CASE WorkerFlags(c)
    BY <2>2 DEF WorkerFlags, InBlock
  <2>3. CASE WorkerReturns(c)
    BY <2>3 DEF WorkerReturns
  <2>4. CASE PollerCloses(c)
    BY <2>4 DEF PollerCloses
  <2>5. CASE WorkerPublishes(c)
    BY <2>5 DEF WorkerPublishes
  <2>6. CASE WorkerLeaves(c)
    BY <2>6 DEF WorkerLeaves
  <2> QED
    BY <1>16, <2>1, <2>2, <2>3, <2>4, <2>5, <2>6 DEF Serve, Finish
<1>17. CASE UNCHANGED vars
  BY <1>17 DEF vars
<1> QED
  BY <1>1, <1>2, <1>3, <1>4, <1>5, <1>6, <1>7, <1>8, <1>9, <1>10, <1>11, <1>12,
     <1>13, <1>14, <1>15, <1>16, <1>17 DEF Next, Main

\* Threads are erased once they have ended.
LEMMA ThreadsStep ==
  ASSUME TypeOK, InStep, PassInv, ConnsInv, ThreadsInv, [Next]_vars
  PROVE  ThreadsInv'
<1> USE DEF TypeOK, ThreadsInv, Ended, loop, kept, heap, threads, sockets, world, history
<1>1. CASE TestSignal
  BY <1>1 DEF TestSignal, At, Ended, Stopping
<1>2. CASE Examine
  BY <1>2 DEF Examine, At
<1>3. CASE Join
  BY <1>3 DEF Join, At, Returns, Ended
<1>4. CASE Joined
  BY <1>4 DEF Joined, At
<1>5. CASE Erase
  <2> DEFINE n == Index(to_erase[counter + 1])
  <2>1. /\ counter + 1 \in 1..Len(to_erase) /\ pc = "erase" /\ m_futures = m_threads
        /\ n \in 1..Len(m_threads) /\ m_threads[n] \in joined
    BY <1>5 DEF Erase, At, PassInv, Passing, InStep, InBlock
  <2>2. m_threads' = RemoveAt(m_threads, n)
    BY <1>5 DEF Erase
  <2> HIDE DEF n
  <2>3. ToSet(m_threads) \ ToSet(m_threads') \subseteq joined
    BY <2>1, <2>2, RemovalKeeps
  <2> QED
    BY <1>5, <2>3 DEF Erase, At
<1>6. CASE Erased
  BY <1>6 DEF Erased, At
<1>7. CASE Select
  BY <1>7 DEF Select, At
<1>8. CASE SelectFull
  BY <1>8 DEF SelectFull, At
<1>9. CASE Alloc
  BY <1>9 DEF Alloc, At
<1>10. CASE Spawn
  <2>1. cur \in Conns /\ work[cur] = "none"
    BY <1>10 DEF Spawn, At, ConnsInv
  <2>2. /\ m_threads' \in {m_threads, Append(m_threads, cur)}
        /\ work' # work => m_threads' = Append(m_threads, cur) /\ work' = [work EXCEPT ![cur] = "running"]
    BY <1>10 DEF Spawn, KeepThread
  <2>3. ToSet(Append(m_threads, cur)) = ToSet(m_threads) \cup {cur}
    BY <2>1, AppendKeeps
  <2>4. ToSet(m_threads) \subseteq ToSet(m_threads') /\ (work' # work => cur \in ToSet(m_threads'))
    BY <2>2, <2>3
  <2>5. joined' = joined
    BY <1>10 DEF Spawn
  <2> QED
    BY <2>1, <2>2, <2>4, <2>5
<1>11. CASE JoinPoller
  BY <1>11 DEF JoinPoller, At
<1>12. CASE JoinRest
  BY <1>12 DEF JoinRest, At, Rest, Returns, Ended
<1>13. CASE Handshake
  BY <1>13 DEF Handshake, At
<1>14. CASE ShutdownLast \/ PollerLooks \/ PollerReturns
  BY <1>14 DEF ShutdownLast, PollerLooks, PollerReturns, At
<1>15. CASE Signal
  BY <1>15 DEF Signal
<1>16. ASSUME NEW c \in Conns, Connect(c) \/ Serve(c) \/ Finish(c)
      PROVE  ThreadsInv'
  <2>1. CASE Connect(c)
    BY <2>1 DEF Connect
  <2>2. CASE WorkerFlags(c)
    BY <2>2 DEF WorkerFlags, InBlock
  <2>3. CASE WorkerReturns(c)
    BY <2>3 DEF WorkerReturns
  <2>4. CASE PollerCloses(c)
    BY <2>4 DEF PollerCloses
  <2>5. CASE WorkerPublishes(c)
    BY <2>5 DEF WorkerPublishes
  <2>6. CASE WorkerLeaves(c)
    BY <2>6 DEF WorkerLeaves
  <2> QED
    BY <1>16, <2>1, <2>2, <2>3, <2>4, <2>5, <2>6 DEF Serve, Finish
<1>17. CASE UNCHANGED vars
  BY <1>17 DEF vars
<1> QED
  BY <1>1, <1>2, <1>3, <1>4, <1>5, <1>6, <1>7, <1>8, <1>9, <1>10, <1>11, <1>12,
     <1>13, <1>14, <1>15, <1>16, <1>17 DEF Next, Main

\* The destructor joins one thread after the other.
LEMMA EndStep ==
  ASSUME TypeOK, ConnsInv, EndInv, [Next]_vars
  PROVE  EndInv'
<1> USE DEF TypeOK, EndInv, Ended, loop, kept, heap, threads, sockets, world, history
<1>1. CASE TestSignal
  BY <1>1 DEF TestSignal, At, Ended, Stopping
<1>2. CASE Examine
  BY <1>2 DEF Examine, At
<1>3. CASE Join
  BY <1>3 DEF Join, At, Returns, Ended
<1>4. CASE Joined
  BY <1>4 DEF Joined, At
<1>5. CASE Erase
  BY <1>5 DEF Erase, At, Index
<1>6. CASE Erased
  BY <1>6 DEF Erased, At
<1>7. CASE Select
  BY <1>7 DEF Select, At
<1>8. CASE SelectFull
  BY <1>8 DEF SelectFull, At
<1>9. CASE Alloc
  BY <1>9 DEF Alloc, At
<1>10. CASE Spawn
  BY <1>10 DEF Spawn, At, Keep, KeepThread
<1>11. CASE JoinPoller
  BY <1>11 DEF JoinPoller, At
<1>12. CASE JoinRest
  BY <1>12 DEF JoinRest, At, Rest, Returns, Ended
<1>13. CASE Handshake
  BY <1>13 DEF Handshake, At
<1>14. CASE ShutdownLast \/ PollerLooks \/ PollerReturns
  BY <1>14 DEF ShutdownLast, PollerLooks, PollerReturns, At
<1>15. CASE Signal
  BY <1>15 DEF Signal
<1>16. ASSUME NEW c \in Conns, Connect(c) \/ Serve(c) \/ Finish(c)
      PROVE  EndInv'
  <2>1. CASE Connect(c)
    BY <2>1 DEF Connect
  <2>2. CASE WorkerFlags(c)
    BY <2>2 DEF WorkerFlags, InBlock
  <2>3. CASE WorkerReturns(c)
    BY <2>3 DEF WorkerReturns
  <2>4. CASE PollerCloses(c)
    BY <2>4 DEF PollerCloses
  <2>5. CASE WorkerPublishes(c)
    BY <2>5 DEF WorkerPublishes
  <2>6. CASE WorkerLeaves(c)
    BY <2>6 DEF WorkerLeaves
  <2> QED
    BY <1>16, <2>1, <2>2, <2>3, <2>4, <2>5, <2>6 DEF Serve, Finish
<1>17. CASE UNCHANGED vars
  BY <1>17 DEF vars
<1> QED
  BY <1>1, <1>2, <1>3, <1>4, <1>5, <1>6, <1>7, <1>8, <1>9, <1>10, <1>11, <1>12,
     <1>13, <1>14, <1>15, <1>16, <1>17 DEF Next, Main

\* The loop is not entered again after the signal.
LEMMA LateStep ==
  ASSUME TypeOK, LateInv, [Next]_vars
  PROVE  LateInv'
<1> USE DEF TypeOK, LateInv, Passing, loop, kept, heap, threads, sockets, world, history
<1>1. CASE TestSignal
  BY <1>1 DEF TestSignal, At, Ended, Stopping
<1>2. CASE Examine
  BY <1>2 DEF Examine, At
<1>3. CASE Join
  BY <1>3 DEF Join, At, Returns, Ended
<1>4. CASE Joined
  BY <1>4 DEF Joined, At
<1>5. CASE Erase
  BY <1>5 DEF Erase, At, Index
<1>6. CASE Erased
  BY <1>6 DEF Erased, At
<1>7. CASE Select
  BY <1>7 DEF Select, At
<1>8. CASE SelectFull
  BY <1>8 DEF SelectFull, At
<1>9. CASE Alloc
  BY <1>9 DEF Alloc, At
<1>10. CASE Spawn
  BY <1>10 DEF Spawn, At, Keep, KeepThread
<1>11. CASE JoinPoller
  BY <1>11 DEF JoinPoller, At
<1>12. CASE JoinRest
  BY <1>12 DEF JoinRest, At, Rest, Returns, Ended
<1>13. CASE Handshake
  BY <1>13 DEF Handshake, At
<1>14. CASE ShutdownLast \/ PollerLooks \/ PollerReturns
  BY <1>14 DEF ShutdownLast, PollerLooks, PollerReturns, At
<1>15. CASE Signal
  BY <1>15 DEF Signal
<1>16. ASSUME NEW c \in Conns, Connect(c) \/ Serve(c) \/ Finish(c)
      PROVE  LateInv'
  <2>1. CASE Connect(c)
    BY <2>1 DEF Connect
  <2>2. CASE WorkerFlags(c)
    BY <2>2 DEF WorkerFlags, InBlock
  <2>3. CASE WorkerReturns(c)
    BY <2>3 DEF WorkerReturns
  <2>4. CASE PollerCloses(c)
    BY <2>4 DEF PollerCloses
  <2>5. CASE WorkerPublishes(c)
    BY <2>5 DEF WorkerPublishes
  <2>6. CASE WorkerLeaves(c)
    BY <2>6 DEF WorkerLeaves
  <2> QED
    BY <1>16, <2>1, <2>2, <2>3, <2>4, <2>5, <2>6 DEF Serve, Finish
<1>17. CASE UNCHANGED vars
  BY <1>17 DEF vars
<1> QED
  BY <1>1, <1>2, <1>3, <1>4, <1>5, <1>6, <1>7, <1>8, <1>9, <1>10, <1>11, <1>12,
     <1>13, <1>14, <1>15, <1>16, <1>17 DEF Next, Main

\* Only joined threads are destroyed.
LEMMA FaultStep ==
  ASSUME TypeOK, InStep, PassInv, NeverTerminates, [Next]_vars
  PROVE  NeverTerminates'
<1> USE DEF TypeOK, NeverTerminates, loop, kept, heap, threads, sockets, world, history
<1>1. CASE TestSignal
  BY <1>1 DEF TestSignal, At, Ended, Stopping
<1>2. CASE Examine
  BY <1>2 DEF Examine, At
<1>3. CASE Join
  BY <1>3 DEF Join, At, Returns, Ended
<1>4. CASE Joined
  BY <1>4 DEF Joined, At
<1>5. CASE Erase
  <2> DEFINE n == Index(to_erase[counter + 1])
  <2>1. /\ counter + 1 \in 1..Len(to_erase) /\ pc = "erase" /\ m_futures = m_threads
        /\ n \in 1..Len(m_threads) /\ m_threads[n] \in joined
    BY <1>5 DEF Erase, At, PassInv, Passing, InStep, InBlock
  <2>2. m_threads' = RemoveAt(m_threads, n)
    BY <1>5 DEF Erase
  <2> HIDE DEF n
  <2>3. ToSet(m_threads) \ ToSet(m_threads') \subseteq joined
    BY <2>1, <2>2, RemovalKeeps
  <2> QED
    BY <1>5, <2>3 DEF Erase, At
<1>6. CASE Erased
  BY <1>6 DEF Erased, At
<1>7. CASE Select
  BY <1>7 DEF Select, At
<1>8. CASE SelectFull
  BY <1>8 DEF SelectFull, At
<1>9. CASE Alloc
  BY <1>9 DEF Alloc, At
<1>10. CASE Spawn
  BY <1>10 DEF Spawn, At, Keep, KeepThread
<1>11. CASE JoinPoller
  BY <1>11 DEF JoinPoller, At
<1>12. CASE JoinRest
  BY <1>12 DEF JoinRest, At, Rest, Returns, Ended
<1>13. CASE Handshake
  BY <1>13 DEF Handshake, At
<1>14. CASE ShutdownLast \/ PollerLooks \/ PollerReturns
  BY <1>14 DEF ShutdownLast, PollerLooks, PollerReturns, At
<1>15. CASE Signal
  BY <1>15 DEF Signal
<1>16. ASSUME NEW c \in Conns, Connect(c) \/ Serve(c) \/ Finish(c)
      PROVE  NeverTerminates'
  <2>1. CASE Connect(c)
    BY <2>1 DEF Connect
  <2>2. CASE WorkerFlags(c)
    BY <2>2 DEF WorkerFlags, InBlock
  <2>3. CASE WorkerReturns(c)
    BY <2>3 DEF WorkerReturns
  <2>4. CASE PollerCloses(c)
    BY <2>4 DEF PollerCloses
  <2>5. CASE WorkerPublishes(c)
    BY <2>5 DEF WorkerPublishes
  <2>6. CASE WorkerLeaves(c)
    BY <2>6 DEF WorkerLeaves
  <2> QED
    BY <1>16, <2>1, <2>2, <2>3, <2>4, <2>5, <2>6 DEF Serve, Finish
<1>17. CASE UNCHANGED vars
  BY <1>17 DEF vars
<1> QED
  BY <1>1, <1>2, <1>3, <1>4, <1>5, <1>6, <1>7, <1>8, <1>9, <1>10, <1>11, <1>12,
     <1>13, <1>14, <1>15, <1>16, <1>17 DEF Next, Main

-----------------------------------------------------------------------------
(* The theorems.                                                           *)

LEMMA InvInit == Init => IInv
<1> SUFFICES ASSUME Init
             PROVE  IInv
  OBVIOUS
<1> USE DEF Init
<1>1. TypeOK /\ InStep /\ NeverTerminates
  <2>1. << >> \in Seq(Conns) /\ << >> \in Seq(Nat \ {0})
    OBVIOUS
  <2>2. flags \in [Conns -> BOOLEAN] /\ work \in [Conns -> {"none", "running", "left", "flagged", "ended"}]
    OBVIOUS
  <2>3. m_futures \in Seq(Conns) /\ m_threads \in Seq(Conns) /\ to_erase \in Seq(Nat \ {0})
    BY <2>1
  <2>4. /\ i \in Nat \ {0} /\ counter \in Nat /\ cur \in Conns \cup {NoConn} /\ ab \in Conns \cup {NoConn}
        /\ open \subseteq Conns /\ online \subseteq open /\ backlog \subseteq Conns
        /\ unmade \subseteq Conns /\ joined \subseteq Conns
        /\ late \subseteq Conns /\ endedBefore \subseteq Conns
    OBVIOUS
  <2>5. TypeOK
    BY <2>2, <2>3, <2>4, Zenon DEF TypeOK
  <2> QED
    BY <2>5 DEF InStep, NeverTerminates
<1>2. PassInv /\ ConnsInv /\ ThreadsInv
  BY DEF PassInv, Passing, ConnsInv, ThreadsInv
<1>3. EndInv /\ LateInv
  BY DEF EndInv, LateInv
<1> QED
  BY <1>1, <1>2, <1>3 DEF IInv

LEMMA InvStep == IInv /\ [Next]_vars => IInv'
BY TypeStep, InStepStep, PassStep, ConnsStep, ThreadsStep, EndStep, LateStep, FaultStep
   DEF IInv

LEMMA Invariant == Spec => []IInv
BY InvInit, InvStep, PTL DEF Spec

\* What a reader wants of the invariant.
LEMMA InvImplies ==
  ASSUME IInv
  PROVE  TypeOK /\ InStep /\ NeverTerminates /\ WorkersKept /\ NothingOutlives /\ AtMostOneLate
<1> USE DEF IInv
<1>1. WorkersKept
  BY DEF ThreadsInv, WorkersKept, Ended
<1>2. NothingOutlives
  <2> SUFFICES ASSUME pc = "exited", NEW c \in Conns, work[c] \notin {"none", "ended"}
               PROVE  FALSE
    BY DEF NothingOutlives, EndInv, At
  <2>1. work[c] \in {"running", "left", "flagged"}
    BY DEF TypeOK
  <2>2. PICK k \in 1..Len(m_threads) : m_threads[k] = c
    BY <2>1 DEF ThreadsInv, ToSet, TypeOK
  <2>3. k < i
    BY DEF EndInv, TypeOK
  <2> QED
    BY <2>2, <2>3 DEF EndInv, Ended
<1>3. AtMostOneLate
  <2>1. CASE late = {}
    BY <2>1, FS_EmptySet DEF AtMostOneLate
  <2>2. CASE late # {}
    <3>1. PICK c : late = {c}
      BY <2>2 DEF LateInv
    <3> QED
      BY <3>1, FS_Singleton DEF AtMostOneLate
  <2> QED
    BY <2>1, <2>2
<1> QED
  BY <1>1, <1>2, <1>3

\* The variables keep their types.
THEOREM TypeCorrect == Spec => []TypeOK
BY Invariant, InvImplies, PTL

\* A flag and its thread have the same index as long as the loop runs, whatever
\* was erased before them.
THEOREM VectorsInStep == Spec => []InStep
BY Invariant, InvImplies, PTL

\* The clean-up never destroys a thread that was not joined, although it takes
\* the elements out one by one, at indices noted before.
THEOREM CleanupNeverTerminates == Spec => []NeverTerminates
BY Invariant, InvImplies, PTL

\* Every worker that still runs is in m_threads, whoever raised its flag.
THEOREM NoWorkerForgotten == Spec => []WorkersKept
BY Invariant, InvImplies, PTL

\* When the process exits no worker and no poller runs.
THEOREM ExitIsLast == Spec => []NothingOutlives
BY Invariant, InvImplies, PTL

\* After the signal one connection is accepted, at most.
THEOREM OneLateConnection == Spec => []AtMostOneLate
BY Invariant, InvImplies, PTL

=============================================================================
