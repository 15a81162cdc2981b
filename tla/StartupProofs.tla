--------------------------- MODULE StartupProofs ---------------------------
(***************************************************************************)
(* Proofs about Startup: types, and that a server serves on its port       *)
(* unless rivaled or refused, for any number of processes, command lines   *)
(* and ports.                                                              *)
(***************************************************************************)
EXTENDS Startup, TLAPS

\* Sockets are bound, or refused, between bind and the end; serving ones listen
\* or not.
Sockets ==
  /\ \A p \in Procs :
       pc[p] \notin {"listen", "serving"} => bound[p] = NoPort /\ p \notin denied
  /\ \A p \in listening : pc[p] = "serving"

\* While it starts, and while it serves, a process without a rival finds its
\* port free, and then has it, if it was not refused.
Unrivaled ==
  \A p \in Procs \ rivaled :
    /\ pc[p] \in {"database", "resolve", "socket", "bind", "listen", "serving"} =>
         /\ Port(p) \notin used
         /\ \A r \in listening \ {p} : bound[r] # Port(p)
    /\ pc[p] = "listen" => bound[p] = IF p \in denied THEN NoPort ELSE Port(p)
    /\ pc[p] = "serving" =>
         /\ p \in listening
         /\ IF p \in denied THEN bound[p] \in Ephemeral ELSE bound[p] = Port(p)

\* The inductive invariant.
IInv == TypeOK /\ Sockets /\ Unrivaled

\* The port asked for is a port.
LEMMA PortType ==
  ASSUME TypeOK, NEW p \in Procs
  PROVE  Port(p) \in Ports
<1> DEFINE a == argv[p]
<1>1. CASE \E n \in DOMAIN a : LastPort(a, n)
  <2> DEFINE last == CHOOSE n \in DOMAIN a : LastPort(a, n)
  <2>1. last \in DOMAIN a /\ LastPort(a, last)
    BY <1>1
  <2>2. a[last] \in Options
    BY <2>1 DEF TypeOK
  <2>3. a[last].arg \in Ports
    BY <2>1, <2>2 DEF LastPort, Options
  <2> QED
    BY <1>1, <2>3 DEF Port, Asked
<1>2. CASE ~\E n \in DOMAIN a : LastPort(a, n)
  BY <1>2, PortsAssumption DEF Port, Asked
<1> QED
  BY <1>1, <1>2

\* The steps of a process that leave the ports of the host alone.
LEMMA StepQuiet ==
  ASSUME IInv, NEW p \in Procs,
         Start(p) \/ GetOpts(p) \/ PrepareDatabase(p) \/ Resolve(p) \/ OpenSocket(p)
  PROVE  IInv'
<1> USE DEF IInv, TypeOK, Goto, kernel, history
<1>1. CASE Start(p)
  <2>1. /\ UNCHANGED <<kernel, history>>
        /\ \A q \in Procs : pc'[q] = IF q = p THEN "options" ELSE pc[q]
        /\ \A q \in Procs \ {p} : argv'[q] = argv[q]
        /\ pc[p] \in {"none", "ended"}
    BY <1>1 DEF Start
  <2>2. \A q \in Procs \ {p} : Port(q)' = Port(q)
    BY <2>1 DEF Port
  <2>3. TypeOK'
    BY <1>1, ArgsAssumption DEF Start
  <2>4. Sockets'
    BY <2>1 DEF Sockets
  <2>5. Unrivaled'
    BY <2>1, <2>2 DEF Unrivaled
  <2> QED
    BY <2>3, <2>4, <2>5
<1>2. CASE GetOpts(p)
  <2>1. /\ UNCHANGED <<argv, kernel, denied>> /\ pc[p] = "options"
        /\ pc' \in {[pc EXCEPT ![p] = "database"], [pc EXCEPT ![p] = "ended"]}
        /\ rivaled' = IF Listened(Port(p)) THEN rivaled \cup {p} ELSE rivaled \ {p}
    BY <1>2 DEF GetOpts
  <2>2. \A q \in Procs : Port(q)' = Port(q)
    BY <2>1 DEF Port
  <2>3. TypeOK'
    BY <2>1
  <2>4. Sockets'
    BY <2>1 DEF Sockets
  <2>5. Unrivaled'
    BY <2>1, <2>2 DEF Unrivaled, Listened
  <2> QED
    BY <2>3, <2>4, <2>5
<1>3. CASE PrepareDatabase(p) \/ Resolve(p) \/ OpenSocket(p)
  <2>1. /\ UNCHANGED <<argv, kernel, history>>
        /\ pc[p] \in {"database", "resolve", "socket"}
        /\ \E l \in {"resolve", "socket", "bind", "ended"} : pc' = [pc EXCEPT ![p] = l]
    BY <1>3 DEF PrepareDatabase, Resolve, OpenSocket
  <2>2. \A q \in Procs : Port(q)' = Port(q)
    BY <2>1 DEF Port
  <2>3. TypeOK'
    BY <2>1
  <2>4. Sockets'
    BY <2>1 DEF Sockets
  <2>5. Unrivaled'
    BY <2>1, <2>2 DEF Unrivaled
  <2> QED
    BY <2>3, <2>4, <2>5
<1> QED
  BY <1>1, <1>2, <1>3

\* The steps on the ports, and those of other programs.
LEMMA StepPort ==
  ASSUME IInv, NEW p \in Procs, Bind(p) \/ Listen(p) \/ End(p)
  PROVE  IInv'
<1> USE DEF IInv, TypeOK, Goto, kernel, history
<1>1. \A q \in Procs : Port(q)' = Port(q)
  BY DEF Bind, Listen, End, Port
<1>2. CASE Bind(p)
  <2>1. TypeOK'
    <3>1. /\ pc' = [pc EXCEPT ![p] = "listen"] /\ UNCHANGED <<argv, used, lingering, rivaled>>
          /\ denied' \in {denied, denied \cup {p}} /\ listening' = listening /\ p \notin listening
      BY <1>2 DEF Bind, Sockets
    <3>2. bound' = bound \/ \E q \in Ports : bound' = [bound EXCEPT ![p] = q]
      BY <1>2, PortType DEF Bind
    <3> QED
      BY <3>1, <3>2
  <2>2. Sockets'
    BY <1>2 DEF Bind, Sockets
  <2>3. p \notin rivaled => Free(Port(p))
    BY <1>2 DEF Bind, Unrivaled, Free, Listened, Sockets
  <2>4. Unrivaled'
    BY <1>1, <1>2, <2>3 DEF Bind, Unrivaled, Sockets
  <2> QED
    BY <2>1, <2>2, <2>4
<1>3. CASE Listen(p)
  <2>1. TypeOK'
    BY <1>3, PortsAssumption DEF Listen, Rivals
  <2>2. Sockets'
    BY <1>3 DEF Listen, Sockets
  <2>3. p \notin listening
    BY <1>3 DEF Listen, Sockets
  <2>4. p \notin rivaled =>
          /\ bound[p] = IF p \in denied THEN NoPort ELSE Port(p)
          /\ Port(p) # NoPort /\ ~Listened(bound[p])
    BY <1>3, <2>3, PortType, PortsAssumption DEF Listen, Unrivaled, Listened
  <2>5. Unrivaled'
    BY <1>1, <1>3, <2>3, <2>4 DEF Listen, Unrivaled, Rivals, Sockets
  <2> QED
    BY <2>1, <2>2, <2>5
<1>4. CASE End(p)
  <2>1. TypeOK'
    BY <1>4 DEF End
  <2>2. Sockets'
    BY <1>4 DEF End, Sockets
  <2>3. Unrivaled'
    BY <1>1, <1>4 DEF End, Unrivaled
  <2> QED
    BY <2>1, <2>2, <2>3
<1> QED
  BY <1>2, <1>3, <1>4

LEMMA StepOthers ==
  ASSUME IInv, (\E q : Expire(q)) \/ (\E q \in Programs : Use(q)) \/ UNCHANGED vars
  PROVE  IInv'
<1> USE DEF IInv, TypeOK, kernel, history
<1>1. UNCHANGED <<pc, argv, bound, listening, denied>>
  BY DEF Expire, Use, vars
<1>2. \A q \in Procs : Port(q)' = Port(q)
  BY <1>1 DEF Port
<1>3. TypeOK'
  BY <1>1 DEF Expire, Use, vars
<1>4. Sockets'
  BY <1>1 DEF Sockets
<1>5. Unrivaled'
  BY <1>1, <1>2 DEF Expire, Use, vars, Unrivaled
<1> QED
  BY <1>3, <1>4, <1>5

LEMMA Invariant == Spec => []IInv
<1>1. Init => IInv
  BY PortsAssumption DEF Init, IInv, TypeOK, Sockets, Unrivaled
<1>2. IInv /\ [Next]_vars => IInv'
  BY StepQuiet, StepPort, StepOthers DEF Next, Process
<1> QED
  BY <1>1, <1>2, PTL DEF Spec

\* Types: in particular, whatever process, command line or kernel, only a
\* socket that is bound ever listens, although nobody looks at bind's result.
THEOREM TypeCorrect == Spec => []TypeOK
<1>1. IInv => TypeOK
  BY DEF IInv
<1> QED
  BY <1>1, Invariant, PTL

\* A server serves on its port unless somebody else listened there since it
\* began, or bind refused it the port; and then it serves on another.
THEOREM PortTheorem == Spec => []PortUnlessRivaled
<1>1. IInv => PortUnlessRivaled
  BY DEF IInv, Unrivaled, PortUnlessRivaled
<1> QED
  BY <1>1, Invariant, PTL
=============================================================================
