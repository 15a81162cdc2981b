---------------------------- MODULE Connections ----------------------------
(***************************************************************************)
(* Who may close a connection's descriptor: what the worker threads and    *)
(* the poller promise each other and the main thread.  At first it is its  *)
(* worker's own.  The worker may share it by putting its session into the  *)
(* tree, and does not close it from then on; the poller closes what is     *)
(* shared, and nothing else.  So a descriptor is closed once, or never.    *)
(*                                                                         *)
(* Sessions implements this with the workers' and the poller's steps.      *)
(***************************************************************************)
CONSTANT Conns

VARIABLES
  stage,   \* of each connection's worker: to be started, running, ended
  holder   \* who holds its descriptor: its worker alone, or the poller, too

vars == <<stage, holder>>

Init ==
  /\ stage = [c \in Conns |-> "none"]
  /\ holder = [c \in Conns |-> "worker"]

\* The worker starts.
Start(c) ==
  /\ stage[c] = "none"
  /\ stage' = [stage EXCEPT ![c] = "running"]
  /\ UNCHANGED holder

\* The worker puts the session into the tree.
Share(c) ==
  /\ stage[c] = "running" /\ holder[c] = "worker"
  /\ holder' = [holder EXCEPT ![c] = "poller"]
  /\ UNCHANGED stage

\* The worker has nothing more to do with the connection.  What it has not
\* shared it may close, or leave open for good.
End(c) ==
  /\ stage[c] = "running"
  /\ stage' = [stage EXCEPT ![c] = "ended"]
  /\ \/ UNCHANGED holder
     \/ holder[c] = "worker" /\ holder' = [holder EXCEPT ![c] = "closed"]

\* The poller ends the session.
Close(c) ==
  /\ holder[c] = "poller"
  /\ holder' = [holder EXCEPT ![c] = "closed"]
  /\ UNCHANGED stage

Next == \E c \in Conns : Start(c) \/ Share(c) \/ End(c) \/ Close(c)

Spec == Init /\ [][Next]_vars
=============================================================================
