\* Three connections, for one descriptor, under the fairness of the threads that
\* wait for no peer.
CONSTANTS
  c1 = c1
  c2 = c2
  c3 = c3
  Conns = {c1, c2, c3}
  NoConn = NoConn
  MaxOpen = 1
SPECIFICATION FairSpec
INVARIANTS
  TypeOK
  InStep
  NeverTerminates
  WorkersKept
  NothingOutlives
  AtMostOneLate
PROPERTIES
  Accepted
  SignalNoticed
  Stops

\* The server stops.
CHECK_DEADLOCK FALSE
