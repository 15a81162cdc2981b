------------------------------ MODULE Startup ------------------------------
(***************************************************************************)
(* Processes of the program on one host, from the command line to a        *)
(* listening server, and their ends (src/wheespa.cpp, wheespa_opts.cc, the *)
(* constructor of WheespaServer, socket_interface.cc).  Each process goes  *)
(* through it in one thread; they meet at the ports of the host, where     *)
(* other programs listen, too, and connections of an ended server linger.  *)
(* The results of bind and listen are not looked at.                       *)
(***************************************************************************)
EXTENDS Integers, Sequences

CONSTANTS
  Procs,      \* processes, each of which may be started again
  Args,       \* the command lines they are started with
  Ports,      \* ports that can be asked for
  DefaultPort,\* the port that WheespaOpts() sets
  Ephemeral,  \* ports that the kernel chooses from
  NoPort,     \* "no port"
  Programs    \* ports that other programs use now and then

\* Options as their descriptors name them; UNKNOWN stands for whatever the
\* parser refuses.
Options ==
  [index : {"PORT"}, arg : Ports] \cup
  [index : {"LISTEN", "HELP", "UNKNOWN", "VERBOSE"}, arg : {NoPort}]

ASSUME ArgsAssumption == Args \subseteq Seq(Options)
ASSUME PortsAssumption ==
  /\ DefaultPort \in Ports /\ Programs \subseteq Ports
  /\ NoPort \notin Ports \cup Ephemeral
  /\ Ports \cap Ephemeral = {}

VARIABLES
  pc,         \* where each process is
  argv,       \* its command line
  bound,      \* the port its socket is bound to
  listening,  \* the processes whose socket listens
  used,       \* the ports on which other programs listen
  lingering,  \* the ports of connections that an ended server leaves behind
  rivaled,    \* history: processes on whose port others listened since they began
  denied      \* history: processes to whom bind refused a port that was free

kernel == <<bound, listening, used, lingering>>
history == <<rivaled, denied>>
vars == <<pc, argv, kernel, history>>

Goto(p, l) == pc' = [pc EXCEPT ![p] = l]

Init ==
  /\ pc = [p \in Procs |-> "none"]
  /\ argv = [p \in Procs |-> << >>]
  /\ bound = [p \in Procs |-> NoPort]
  /\ listening = {} /\ used = {} /\ lingering = {}
  /\ rivaled = {} /\ denied = {}

-----------------------------------------------------------------------------
(* WheespaOpts.                                                            *)

Given(p, i) == \E n \in DOMAIN argv[p] : argv[p][n].index = i

\* The n-th option of a is its last -p.
LastPort(a, n) ==
  /\ a[n].index = "PORT"
  /\ \A m \in DOMAIN a : m > n => a[m].index # "PORT"

\* The port that a asks for, or the default.
Asked(a) ==
  IF \E n \in DOMAIN a : LastPort(a, n)
    THEN a[CHOOSE n \in DOMAIN a : LastPort(a, n)].arg
  ELSE DefaultPort

Port(p) == Asked(argv[p])

Listened(q) == q \in used \/ \E p \in listening : bound[p] = q

Start(p) ==
  /\ pc[p] \in {"none", "ended"}
  /\ \E a \in Args : argv' = [argv EXCEPT ![p] = a]
  /\ Goto(p, "options")
  /\ UNCHANGED <<kernel, history>>

\* -l sets listen, which is otherwise what the memory holds.  Without it the
\* process makes a client, which does nothing, or misses an address.
GetOpts(p) ==
  /\ pc[p] = "options"
  /\ IF Given(p, "HELP") \/ Given(p, "UNKNOWN") THEN Goto(p, "ended")
     ELSE Goto(p, "database") \/ (~Given(p, "LISTEN") /\ Goto(p, "ended"))
  /\ rivaled' = IF Listened(Port(p)) THEN rivaled \cup {p} ELSE rivaled \ {p}
  /\ UNCHANGED <<argv, kernel, denied>>

-----------------------------------------------------------------------------
(* The constructor of WheespaServer: first the database, then the socket.  *)

\* A file that cannot be opened is an exception, which main catches.
PrepareDatabase(p) ==
  /\ pc[p] = "database"
  /\ Goto(p, "resolve") \/ Goto(p, "ended")
  /\ UNCHANGED <<argv, kernel, history>>

\* An address that cannot be resolved leaves host_info undefined: the next line
\* reads through it.
Resolve(p) ==
  /\ pc[p] = "resolve"
  /\ Goto(p, "socket") \/ Goto(p, "ended")
  /\ UNCHANGED <<argv, kernel, history>>

\* Without a socket there is an exception.
OpenSocket(p) ==
  /\ pc[p] = "socket"
  /\ Goto(p, "bind") \/ Goto(p, "ended")
  /\ UNCHANGED <<argv, kernel, history>>

\* Mutant: without SO_REUSEADDR.
FreeOnce(q) == ~Listened(q) /\ q \notin lingering

\* With SO_REUSEADDR neither lingering connections nor another socket of this
\* program that does not listen yet are in the way.
Free(q) == ~Listened(q)

\* bind is refused a port that is not free, and may be refused any: one that only
\* root may have (EACCES), an address that is not this host's (EADDRNOTAVAIL),
\* a port that another program has bound without SO_REUSEADDR.  The socket
\* is then not bound, and nobody learns of it: the BindException is not thrown.
Bind(p) ==
  /\ pc[p] = "bind"
  /\ Goto(p, "listen")
  /\ \/ Free(Port(p)) /\ bound' = [bound EXCEPT ![p] = Port(p)] /\ UNCHANGED denied
     \/ ~Free(Port(p)) /\ UNCHANGED <<bound, denied>>
     \/ Free(Port(p)) /\ denied' = denied \cup {p} /\ UNCHANGED bound
  /\ UNCHANGED <<argv, listening, used, lingering, rivaled>>

\* The processes that want port q, other than p.
Rivals(q, p) == {r \in Procs \ {p} : Port(r) = q}

\* A socket that is not bound listens on a port that the kernel chooses; on one
\* that another has begun to listen on meanwhile, listen fails.
Listen(p) ==
  /\ pc[p] = "listen"
  /\ Goto(p, "serving")
  /\ IF bound[p] = NoPort
       THEN \E e \in Ephemeral : ~Listened(e) /\ bound' = [bound EXCEPT ![p] = e]
     ELSE UNCHANGED bound
  /\ IF Listened(bound[p]) THEN UNCHANGED <<listening, rivaled>>
     ELSE /\ listening' = listening \cup {p}
          /\ rivaled' = rivaled \cup Rivals(bound'[p], p)
  /\ UNCHANGED <<argv, used, lingering, denied>>

-----------------------------------------------------------------------------
\* Mutant: the kernel is not told.
EndUnnoticed(p) ==
  /\ pc[p] \notin {"none", "ended"}
  /\ Goto(p, "ended")
  /\ bound' = [bound EXCEPT ![p] = NoPort] /\ denied' = denied \ {p}
  /\ UNCHANGED <<argv, listening, used, lingering, rivaled>>

\* The process ends: start() returns after a signal, or it crashes, wherever
\* it is.  Some of its connections may linger.
End(p) ==
  /\ pc[p] \notin {"none", "ended"}
  /\ Goto(p, "ended")
  /\ bound' = [bound EXCEPT ![p] = NoPort] /\ denied' = denied \ {p}
  /\ listening' = listening \ {p}
  /\ \/ UNCHANGED lingering
     \/ p \in listening /\ lingering' = lingering \cup {bound[p]}
  /\ UNCHANGED <<argv, used, rivaled>>

Expire(q) ==
  /\ q \in lingering /\ lingering' = lingering \ {q}
  /\ UNCHANGED <<pc, argv, bound, listening, used, history>>

\* Another program begins or ceases to listen.
Use(q) ==
  /\ \/ /\ ~Listened(q) /\ used' = used \cup {q}
        /\ rivaled' = rivaled \cup {r \in Procs : Port(r) = q}
     \/ q \in used /\ used' = used \ {q} /\ UNCHANGED rivaled
  /\ UNCHANGED <<pc, argv, bound, listening, lingering, denied>>

Process(p) ==
  \/ Start(p) \/ GetOpts(p) \/ PrepareDatabase(p)
  \/ Resolve(p) \/ OpenSocket(p) \/ Bind(p) \/ Listen(p) \/ End(p)

Next ==
  \/ \E p \in Procs : Process(p)
  \/ \E q \in Ports \cup Ephemeral : Expire(q)
  \/ \E q \in Programs : Use(q)

Spec == Init /\ [][Next]_vars

-----------------------------------------------------------------------------
(* Properties.                                                             *)

\* Types; and only bound sockets listen.
TypeOK ==
  /\ pc \in [Procs -> {"none", "options", "database", "resolve", "socket", "bind",
                       "listen", "serving", "ended"}]
  /\ argv \in [Procs -> Seq(Options)]
  /\ bound \in [Procs -> Ports \cup Ephemeral \cup {NoPort}]
  /\ listening \subseteq {p \in Procs : bound[p] # NoPort}
  /\ used \subseteq Programs
  /\ lingering \subseteq Ports \cup Ephemeral
  /\ rivaled \subseteq Procs /\ denied \subseteq Procs

\* Unless somebody else listened on its port at some time since it began, a
\* server serves there: however it ended before, whatever connections linger,
\* and however many others bind the port without listening on it.  If bind was
\* refused the port although it was free, the server serves all the same, on
\* one that the kernel chooses.  It serves nowhere only with a rival
\* (wheespa_server.cc 14-17, socket_interface.cc 79-96).
PortUnlessRivaled ==
  \A p \in Procs \ rivaled : pc[p] = "serving" =>
    p \in listening /\ IF p \in denied THEN bound[p] \in Ephemeral ELSE bound[p] = Port(p)

\* A server serves on the "port to listen on" (wheespa_opts.cc 59).  When bind is
\* refused it serves elsewhere, and with a rival perhaps nowhere.
ListensOnPort ==
  \A p \in Procs : pc[p] = "serving" => p \in listening /\ bound[p] = Port(p)
=============================================================================
