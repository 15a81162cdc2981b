----------------------------- MODULE AcceptLoop -----------------------------
(***************************************************************************)
(* The main thread of the server (WheespaServer::start and its destructor, *)
(* src/wheespa_server.cc): it accepts connections, starts a worker thread  *)
(* for each, joins the workers that have raised their flag, and, after a   *)
(* signal, waits for every thread it started.  What workers do with their  *)
(* peers, and what the poller does in a pass, are module Sessions: here    *)
(* both take as long as they take, which may be for ever.                  *)
(*                                                                         *)
(* Flag and thread of a connection are both named by the connection.  ab,  *)
(* the local variable through which every worker raises its flag, is       *)
(* captured by reference: a worker raises the flag that ab points to when  *)
(* the worker is done, and ab ends with the loop's block.                  *)
(*                                                                         *)
(* A process may have so many descriptors open.  Those of connections are  *)
(* counted, and given back as workers and poller do in Sessions; one that  *)
(* nobody will ever close stays in the count.                              *)
(***************************************************************************)
EXTENDS Integers, Sequences, FiniteSets, SequencesExt

CONSTANTS
  Conns,     \* the connections that peers make
  MaxOpen,   \* bound: how many connections' descriptors can be open at a time
  NoConn     \* no connection

ASSUME ConnsAssumption == NoConn \notin Conns
ASSUME MaxOpenAssumption == MaxOpen \in Nat \ {0}

VARIABLES
  pc,        \* where the main thread is
  i,         \* the index its loops over the threads have come to
  to_erase,  \* the indices of the threads joined in this pass
  counter,   \* how many of them have been erased
  cur,       \* the connection being accepted
  ab,        \* whose flag ab points to
  flags,     \* the flags
  m_futures, \* whose flags the server keeps, oldest first
  m_threads, \* whose threads it keeps, oldest first
  joined,    \* the threads it has joined
  work,      \* where every worker thread is
  poller,    \* where the poller thread is
  open,      \* the connections whose descriptor is open
  online,    \* the connections that workers have left to the poller
  signal,    \* r_signal is set
  backlog,   \* connections that wait in the listen queue
  unmade,    \* connections that peers may still make
  fault,     \* what ended the process, if anything did
  late,      \* history: the connections accepted after the signal
  endedBefore \* history: the workers that had ended when this pass began

loop == <<i, to_erase, counter>>
kept == <<m_futures, m_threads, joined>>
heap == <<ab, flags>>
threads == <<work, poller>>
sockets == <<open, online>>
world == <<signal, backlog, unmade>>
history == <<late, endedBefore>>
vars == <<pc, loop, cur, heap, kept, threads, sockets, world, fault, history>>

Init ==
  /\ pc = "test" /\ i = 1 /\ to_erase = << >> /\ counter = 0
  /\ cur = NoConn /\ ab = NoConn
  /\ flags = [c \in Conns |-> FALSE]
  /\ m_futures = << >> /\ m_threads = << >> /\ joined = {}
  /\ work = [c \in Conns |-> "none"]
  /\ poller = "look" /\ open = {} /\ online = {} /\ signal = FALSE
  /\ backlog = {} /\ unmade = Conns
  /\ fault = "none"
  /\ late = {} /\ endedBefore = {}

At(l) == fault = "none" /\ pc = l

\* The block that holds ab is being executed.
InBlock ==
  pc \in {"test", "reap", "join", "erase", "select", "handshake", "alloc", "spawn"}

Ended(c) == work[c] = "ended"

-----------------------------------------------------------------------------
(* The world: peers that connect, and a signal.                            *)

Connect(c) ==
  /\ fault = "none" /\ c \in unmade
  /\ unmade' = unmade \ {c} /\ backlog' = backlog \cup {c}
  /\ UNCHANGED <<pc, loop, cur, heap, kept, threads, sockets, signal, fault, history>>

\* The signal interrupts select only if it comes while the main thread waits
\* there and if it is the main thread that it is delivered to.
Signal ==
  /\ fault = "none" /\ ~signal /\ signal' = TRUE
  /\ pc' \in IF pc = "select" THEN {"select", "test"} ELSE {pc}
  /\ endedBefore' = IF pc' = "test" THEN {} ELSE endedBefore
  /\ UNCHANGED <<loop, cur, heap, kept, threads, sockets, backlog, unmade, fault, late>>

-----------------------------------------------------------------------------
(* The main thread's loop.                                                 *)

\* Mutant: the loop does not look at r_signal.
NeverStopping == FALSE

Stopping == signal

TestSignal ==
  /\ At("test")
  /\ IF Stopping THEN pc' = "leave" /\ UNCHANGED endedBefore
     ELSE pc' = "reap" /\ endedBefore' = {c \in Conns : Ended(c)}
  /\ UNCHANGED <<loop, cur, heap, kept, threads, sockets, world, fault, late>>

\* Look at the next flag.
Examine ==
  /\ At("reap") /\ i <= Len(m_futures)
  /\ IF flags[m_futures[i]] THEN pc' = "join" /\ UNCHANGED i
     ELSE i' = i + 1 /\ UNCHANGED pc
  /\ UNCHANGED <<to_erase, counter, cur, heap, kept, threads, sockets, world, fault,
                 history>>

\* join() waits for the end of the thread.
Returns(c) == Ended(c)

\* Join the thread at the flag's index.
Join ==
  /\ At("join") /\ Returns(m_threads[i])
  /\ joined' = joined \cup {m_threads[i]}
  /\ to_erase' = Append(to_erase, i)
  /\ i' = i + 1 /\ pc' = "reap"
  /\ UNCHANGED <<counter, cur, heap, m_futures, m_threads, threads, sockets, world, fault,
                 history>>

\* All flags were looked at.
Joined ==
  /\ At("reap") /\ i > Len(m_futures)
  /\ i' = 1 /\ pc' = "erase"
  /\ UNCHANGED <<to_erase, counter, cur, heap, kept, threads, sockets, world, fault,
                 history>>

\* Mutant: counter is one ahead.
IndexAhead(j) == j - (counter + 1)

\* The index that a thread has by now: counter elements before it are erased.
Index(j) == j - counter

\* Erase what was joined, one after the other.  Destroying a thread that was
\* not terminates the process.
Erase ==
  /\ At("erase") /\ counter < Len(to_erase)
  /\ LET n == Index(to_erase[counter + 1])
     IN /\ m_futures' = RemoveAt(m_futures, n)
        /\ m_threads' = RemoveAt(m_threads, n)
  /\ fault' = IF ToSet(m_threads) \ ToSet(m_threads') \subseteq joined
              THEN "none" ELSE "terminate"
  /\ counter' = counter + 1
  /\ UNCHANGED <<pc, i, to_erase, cur, heap, joined, threads, sockets, world, history>>

\* Mutant: the loop continues when there was nothing to erase.
ErasedOrContinue ==
  /\ At("erase") /\ counter = Len(to_erase)
  /\ pc' = IF to_erase = << >> THEN "test" ELSE "select"
  /\ to_erase' = << >> /\ counter' = 0
  /\ UNCHANGED <<i, cur, heap, kept, threads, sockets, world, fault, history>>

Erased ==
  /\ At("erase") /\ counter = Len(to_erase)
  /\ to_erase' = << >> /\ counter' = 0 /\ pc' = "select"
  /\ UNCHANGED <<i, cur, heap, kept, threads, sockets, world, fault, history>>

Full == Cardinality(open) >= MaxOpen

\* select returns and accept takes a connection.
Select ==
  /\ At("select") /\ ~Full
  /\ \E c \in backlog :
       /\ cur' = c /\ backlog' = backlog \ {c} /\ open' = open \cup {c}
       /\ late' = IF signal THEN late \cup {c} ELSE late
  /\ pc' = "handshake" /\ endedBefore' = {}
  /\ UNCHANGED <<loop, heap, kept, threads, online, signal, unmade, fault>>

\* Mutant: accept is tried again until a descriptor is free.
SelectAgain == At("select") /\ Full /\ backlog # {} /\ UNCHANGED vars

\* select returns, but there is no descriptor for the connection, which stays
\* where it is.
SelectFull ==
  /\ At("select") /\ Full /\ backlog # {}
  /\ pc' = "test" /\ endedBefore' = {}
  /\ UNCHANGED <<loop, cur, heap, kept, threads, sockets, world, fault, late>>

\* Mutant: what accept returns is not looked at.
HandshakeUnchecked ==
  /\ At("handshake")
  /\ pc' = "alloc" /\ cur' \in {cur, NoConn}
  /\ UNCHANGED <<loop, heap, kept, threads, sockets, world, fault, history>>

\* SSL_accept waits for the peer, without a limit.  When it fails nobody closes
\* the descriptor.
Handshake ==
  /\ At("handshake")
  /\ \/ pc' = "alloc" /\ UNCHANGED cur
     \/ pc' = "test" /\ cur' = NoConn
  /\ UNCHANGED <<loop, heap, kept, threads, sockets, world, fault, history>>

\* A new flag, not initialised.
Alloc ==
  /\ At("alloc")
  /\ ab' = cur
  /\ \E b \in BOOLEAN : flags' = [flags EXCEPT ![cur] = b]
  /\ pc' = "spawn"
  /\ UNCHANGED <<loop, cur, kept, threads, sockets, world, fault, history>>

\* Mutant: the flag is kept at the wrong end.
KeepInFront == m_futures' = <<ab>> \o m_futures

Keep == m_futures' = Append(m_futures, ab)

\* Mutant: the thread is detached.
Detach == UNCHANGED m_threads

KeepThread == m_threads' = Append(m_threads, cur)

\* The flag is lowered and kept, and the worker starts; or the thread cannot
\* be created, and the exception ends the loop.
Spawn ==
  /\ At("spawn")
  /\ flags' = [flags EXCEPT ![ab] = FALSE]
  /\ Keep
  /\ cur' = NoConn
  /\ \/ /\ KeepThread
        /\ work' = [work EXCEPT ![cur] = "running"]
        /\ pc' = "test"
     \/ pc' = "leave" /\ UNCHANGED <<m_threads, work>>
  /\ UNCHANGED <<loop, ab, joined, poller, sockets, world, fault, history>>

-----------------------------------------------------------------------------
(* The end of start(), and the destructor.                                 *)

JoinPoller ==
  /\ At("leave") /\ poller = "ended"
  /\ pc' = "shutdown"
  /\ UNCHANGED <<loop, cur, heap, kept, threads, sockets, world, fault, history>>

\* m_si is shut down, which holds the SSL object of the last connection, or, when
\* there was none, whatever the memory held.  The peer of that connection may
\* be gone; or it may be awaited, since its worker has shut it down before.
ShutdownLast ==
  /\ At("shutdown")
  /\ pc' = "destroy" /\ i' = 1
  /\ fault' \in {"none", IF unmade \cup backlog = Conns THEN "wild" ELSE "sigpipe"}
  /\ UNCHANGED <<to_erase, counter, cur, heap, kept, threads, sockets, world, history>>

\* Mutant: the last thread is left out.
RestButOne == i < Len(m_threads)

Rest == i <= Len(m_threads)

\* The destructor joins every thread that is left.
JoinRest ==
  /\ At("destroy")
  /\ IF Rest
       THEN /\ Returns(m_threads[i])
            /\ joined' = joined \cup {m_threads[i]} /\ i' = i + 1 /\ UNCHANGED pc
       ELSE pc' = "exited" /\ UNCHANGED <<joined, i>>
  /\ UNCHANGED <<to_erase, counter, cur, heap, m_futures, m_threads, threads, sockets,
                 world, fault, history>>

-----------------------------------------------------------------------------
(* The other threads.                                                      *)

\* The worker puts its session into the tree, where the poller may find and end
\* it before the peer has been answered.
WorkerPublishes(c) ==
  /\ fault = "none" /\ work[c] = "running" /\ c \in open \ online
  /\ online' = online \cup {c}
  /\ UNCHANGED <<pc, loop, cur, heap, kept, threads, open, world, fault, history>>

\* The worker is done with its connection: what it has not published was shut
\* down, and is closed only if the peer's end had come before.
WorkerLeaves(c) ==
  /\ fault = "none" /\ work[c] = "running"
  /\ work' = [work EXCEPT ![c] = "left"]
  /\ \/ UNCHANGED open
     \/ c \notin online /\ open' = open \ {c}
  /\ UNCHANGED <<pc, loop, cur, heap, kept, poller, online, world, fault, history>>

\* Then it raises the flag that ab points to; when the block is left there is no
\* ab, and the write may go anywhere.
WorkerFlags(c) ==
  /\ fault = "none" /\ work[c] = "left"
  /\ work' = [work EXCEPT ![c] = "flagged"]
  /\ IF InBlock THEN flags' = [flags EXCEPT ![ab] = TRUE] /\ UNCHANGED fault
     ELSE fault' \in {"none", "dangling"} /\ UNCHANGED flags
  /\ UNCHANGED <<pc, loop, cur, ab, kept, poller, sockets, world, history>>

WorkerReturns(c) ==
  /\ fault = "none" /\ work[c] = "flagged"
  /\ work' = [work EXCEPT ![c] = "ended"]
  /\ UNCHANGED <<pc, loop, cur, heap, kept, poller, sockets, world, fault, history>>

\* In its pass the poller ends a session.
PollerCloses(c) ==
  /\ fault = "none" /\ poller = "pass" /\ c \in online
  /\ online' = online \ {c} /\ open' = open \ {c}
  /\ UNCHANGED <<pc, loop, cur, heap, kept, threads, world, fault, history>>

\* Mutant: the poller's loop has its condition the wrong way round.
PollerLeavesUnsignalled == ~signal

PollerLeaves == signal

\* The poller looks at r_signal before it begins a pass.
PollerLooks ==
  /\ fault = "none" /\ poller = "look"
  /\ poller' = IF PollerLeaves THEN "ended" ELSE "pass"
  /\ UNCHANGED <<pc, loop, cur, heap, kept, work, sockets, world, fault, history>>

\* Its pass is over.
PollerReturns ==
  /\ fault = "none" /\ poller = "pass" /\ poller' = "look"
  /\ UNCHANGED <<pc, loop, cur, heap, kept, work, sockets, world, fault, history>>

-----------------------------------------------------------------------------
\* What the main thread does without waiting for a peer.
Main ==
  \/ TestSignal \/ Examine \/ Join \/ Joined \/ Erase \/ Erased
  \/ Select \/ SelectFull \/ Alloc \/ Spawn \/ JoinPoller \/ JoinRest

\* What a worker and the poller do for, or because of, peers, and what a worker
\* does then.
Serve(c) == WorkerPublishes(c) \/ WorkerLeaves(c) \/ PollerCloses(c)
Finish(c) == WorkerFlags(c) \/ WorkerReturns(c)

Next ==
  \/ Main \/ Handshake \/ ShutdownLast \/ PollerLooks \/ PollerReturns \/ Signal
  \/ \E c \in Conns : Connect(c) \/ Serve(c) \/ Finish(c)

Spec == Init /\ [][Next]_vars

\* Threads that wait for no peer do run.  Nothing makes a peer connect, finish a
\* handshake, read what a worker, the poller or the last shutdown writes to it,
\* or send the rest of what it has begun: WorkerLeaves and PollerReturns may
\* never come (SSL_write, secure_socket.cc 132, 137, and SSL_read, 105).
FairSpec ==
  /\ Spec /\ WF_vars(Main) /\ WF_vars(PollerLooks)
  /\ \A c \in Conns : WF_vars(Finish(c))

-----------------------------------------------------------------------------
(* Properties.                                                             *)

\* Types.
TypeOK ==
  /\ pc \in {"test", "reap", "join", "erase", "select", "handshake", "alloc", "spawn",
             "leave", "shutdown", "destroy", "exited"}
  /\ i \in Nat \ {0} /\ to_erase \in Seq(Nat \ {0}) /\ counter \in Nat
  /\ cur \in Conns \cup {NoConn} /\ ab \in Conns \cup {NoConn}
  /\ flags \in [Conns -> BOOLEAN]
  /\ m_futures \in Seq(Conns) /\ m_threads \in Seq(Conns) /\ joined \subseteq Conns
  /\ work \in [Conns -> {"none", "running", "left", "flagged", "ended"}]
  /\ poller \in {"look", "pass", "ended"} /\ signal \in BOOLEAN
  /\ open \subseteq Conns /\ online \subseteq open
  /\ backlog \subseteq Conns /\ unmade \subseteq Conns
  /\ fault \in {"none", "terminate", "dangling", "wild", "sigpipe"}
  /\ late \subseteq Conns /\ endedBefore \subseteq Conns

\* Throughout the loop a flag and its thread have the same index, however many
\* were erased before them (wheespa_server.cc 121-133, 154, 156): otherwise the
\* loop would wait for one worker because another one is done.
InStep == InBlock => m_futures = m_threads

\* No thread object is destroyed while its thread was not joined, which would
\* terminate the process (wheespa_server.cc 128-133).
NeverTerminates == fault # "terminate"

\* Every worker that has not ended is in m_threads, where the destructor will
\* find it: whoever raised its flag, a worker is not forgotten.
WorkersKept ==
  fault = "none" =>
    \A c \in Conns :
      work[c] \in {"running", "left", "flagged"} => c \in ToSet(m_threads) \ joined

\* When the destructor is done no thread of the server runs any more
\* (wheespa_server.cc 205, headers/wheespa_server.hpp 49-54).
NothingOutlives ==
  At("exited") =>
    poller = "ended" /\ \A c \in Conns : work[c] \in {"none", "ended"}

\* After the signal at most one more connection is accepted: the one that wakes
\* a select that the signal did not interrupt (wheespa_server.cc 118, 135).
AtMostOneLate == IsFiniteSet(late) /\ Cardinality(late) <= 1

\* "This part is supposed to Manage memory" (wheespa_server.cc 119): when it is
\* passed, the thread of every worker that had ended before is given up.
EndedAreErased ==
  pc = "select" => ToSet(m_threads) \cap endedBefore = {}

-----------------------------------------------------------------------------
(* Liveness, under FairSpec.                                               *)

\* Every worker comes to an end with its peer.  In Sessions that is WorkerEnds:
\* it does if its peer reads, and if what a peer begins to send arrives whole.
WorkersLeave == \A c \in Conns : []<>(work[c] # "running")

\* If no handshake hangs for ever, and no worker, every connection that is made
\* is accepted sooner or later, unless descriptors run out, or the server is
\* told to stop, could not create a thread, or ends: the loop takes connections
\* however its joins, which go by flags that may be those of workers that still
\* run, are interleaved with new workers, and descriptors that sessions give
\* back serve it again.  One worker that waits for its peer for ever can hold
\* up all who come later: the loop joins it when another raises its flag
\* (wheespa_server.cc 122-123, 175, 195).
Accepted ==
  \A c \in Conns :
    []<>(pc # "handshake") /\ []<>~Full /\ WorkersLeave =>
      (c \in backlog ~> c \notin backlog \/ signal \/ ~InBlock \/ fault # "none")

\* A signal that select did not notice is noticed when the next connection has
\* come: the loop is left, even if no descriptor is free to take the connection,
\* if neither its handshake nor a worker that the loop joins waits for ever
\* (wheespa_server.cc 118-140).
SignalNoticed ==
  []<>(pc # "handshake") /\ WorkersLeave =>
    (signal /\ backlog # {} ~> ~InBlock \/ fault # "none")

\* Once the loop is left because of a signal, the process ends, if no worker, no
\* pass of the poller (PassEnds of Sessions says when) and no last shutdown
\* waits for a peer for ever (wheespa_server.cc 205, 207,
\* headers/wheespa_server.hpp 53).
Stops ==
  WorkersLeave /\ []<>(poller # "pass") /\ []<>(pc # "shutdown") =>
    (pc = "leave" /\ signal ~> pc = "exited" \/ fault # "none")
=============================================================================
