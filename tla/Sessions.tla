------------------------------ MODULE Sessions ------------------------------
(***************************************************************************)
(* The server at work: one worker thread per accepted connection, which    *)
(* answers requests and puts the connection into the session tree, the     *)
(* poller thread, which walks the tree, reads from every session and       *)
(* handles what it reads, and the peers.  The workers' insert and remove   *)
(* hold the mutex mx; their find, and everything the poller does, hold     *)
(* nothing (src/wheespa_server.cc, handle_request.cc, handle_received.cc,  *)
(* binary_tree.cc).                                                        *)
(*                                                                         *)
(* A step reads or writes at most one field of one node of the tree that   *)
(* others may be changing: a key, a flag, a link, or the session that the  *)
(* node holds.  Local variables go back to their initial values where      *)
(* their scope ends.                                                       *)
(***************************************************************************)
EXTENDS SearchTree

CONSTANTS
  Conns,        \* the connections that are accepted, one worker each
  Names,        \* session keys, ordered as std::string orders them
  NoName,       \* the empty name
  Registered,   \* names with a row in table Registered
  Admins,       \* names with a row in table Administrators
  Requests,     \* what a peer may ask of its worker
  Messages,     \* what a peer may send once it is online
  Ends,         \* what peers may come to: to go in order ("closed") or not
                \* ("broken"), or not to read any more ("stalled")
  Nobody,       \* "no connection": nobody holds mx
  Absent,       \* in the directory: a connection that has not logged in
  Former        \* in the directory: a connection whose session has ended

RequestTypes == {"AdminLogin", "AnonymousConnect", "DisconnectLogin", "Login"}
MessageTypes ==
  {"ADMINISTRATE", "INTERNAL", "LIST_ONLINE", "EXTERNAL", "INVALID", "malformed"}

\* A WheespaConnected.
Session ==
  [sock_stream : Conns, key : Names, is_admin : BOOLEAN,
   registered : BOOLEAN, connect_to : Names \cup {NoName}]

NoSession ==
  [sock_stream |-> Nobody, key |-> NoName, is_admin |-> FALSE,
   registered |-> FALSE, connect_to |-> NoName]

ASSUME NamesAssumption == Names \subseteq Int /\ NoName \in Int
ASSUME AccountsAssumption == Registered \subseteq Names /\ Admins \subseteq Registered
ASSUME NobodyAssumption == Nobody \notin Conns
ASSUME RequestsAssumption ==
  Requests \subseteq [type : RequestTypes, key : Names, connect_to : Names \cup {NoName}]
ASSUME MessagesAssumption ==
  Messages \subseteq [type : MessageTypes, to : Names \cup {NoName}]
ASSUME EndsAssumption == Ends \subseteq {"closed", "broken", "stalled"}
ASSUME StandingAssumption == Absent # Former /\ {Absent, Former} \cap Session = {}

MaxRetries == 3   \* wheespa_server.cc 162

VARIABLES
  wpc,          \* where the worker of each connection is
  at,           \* the node its find or insert stands on
  retries,      \* the requests it has refused
  conn,         \* its m_conn, the WheespaConnected it inserts
  disconnect,   \* its disconnect_requested was assigned TRUE
  mx,           \* who holds the mutex
  ppc,          \* where the poller is
  pat,          \* the node it stands on (m_user)
  pmsg,         \* the message it handles, with the connection it came from
  pfound,       \* the node its find stands on
  pseen,        \* history: whose session was there when its find came to that node
  pto,          \* the connection it is about to write to
  peer,         \* the other end of each connection
  inbox,        \* what the other end sent and nobody has read
  closed,       \* the connections whose descriptor the server has closed
  fault,        \* the undefined behaviour that ended the process, if any
  evicted       \* history: connections whose session remove() took away

worker == <<wpc, at, retries, conn, disconnect>>
poller == <<ppc, pat, pmsg, pfound, pseen, pto>>
network == <<peer, inbox, closed>>
vars == <<tree, worker, mx, poller, network, fault, evicted>>

NoMessage == [type |-> "none", to |-> NoName]
NoMail == [type |-> "none", to |-> NoName, from |-> Nobody, anonymous |-> FALSE]

\* Who is at node p.
Owner(p) == data[p].sock_stream

Init ==
  /\ EmptyTree
  /\ wpc = [c \in Conns |-> "none"]
  /\ at = [c \in Conns |-> Root]
  /\ retries = [c \in Conns |-> 0]
  /\ conn = [c \in Conns |-> NoSession]
  /\ disconnect = [c \in Conns |-> FALSE]
  /\ mx = Nobody
  /\ ppc = "sleep" /\ pat = Root /\ pmsg = NoMail /\ pfound = Root /\ pseen = Nobody
  /\ pto = Nobody
  /\ peer = [c \in Conns |-> "open"]
  /\ inbox = [c \in Conns |-> NoMessage]
  /\ closed = {}
  /\ fault = "none"
  /\ evicted = {}

\* The worker of c, or the poller, is at l in a process that no undefined
\* behaviour has ended: nothing is said of what follows it.
At(c, l) == fault = "none" /\ wpc[c] = l
PollerAt(l) == fault = "none" /\ ppc = l

Goto(c, l) == wpc' = [wpc EXCEPT ![c] = l]
PollerGoto(l) == ppc' = l

\* A write waits for a peer that does not read.  To a peer that is gone it may
\* raise SIGPIPE, which nobody handles.  f is what comes of it otherwise.
WriteBefore(c, f) ==
  /\ peer[c] # "stalled"
  /\ fault' \in IF peer[c] = "open" THEN {f} ELSE {f, "pipe"}

Write(c) == WriteBefore(c, "none")

\* Some of the paths through the code write to the peer, others do not.
MayWrite(c) == Write(c) \/ UNCHANGED fault

-----------------------------------------------------------------------------
(* The peers, and the main thread's accept.                                *)

Accept(c) ==
  /\ At(c, "none")
  /\ Goto(c, "banner")
  /\ UNCHANGED <<tree, at, retries, conn, disconnect, mx, poller, network, fault,
                 evicted>>

\* The worker's requests are chosen where it reads them; this is what the
\* poller will read.
PeerSend(c) ==
  /\ At(c, "success") \/ At(c, "served")
  /\ peer[c] \in {"open", "stalled"} /\ inbox[c] = NoMessage
  /\ \E m \in Messages : inbox' = [inbox EXCEPT ![c] = m]
  /\ UNCHANGED <<tree, worker, mx, poller, peer, closed, fault, evicted>>

\* The peer stops to read, so that the buffers on the way to it are full; or it
\* goes: in order, with TLS close_notify, so that what it sent before
\* can be read, or in any other way, by which that may be lost.
PeerEnd(c) ==
  /\ fault = "none" /\ wpc[c] # "none" /\ peer[c] \in {"open", "stalled"}
  /\ \E e \in Ends :
       /\ peer' = [peer EXCEPT ![c] = e]
       /\ \/ UNCHANGED inbox
          \/ e = "broken" /\ inbox' = [inbox EXCEPT ![c] = NoMessage]
  /\ UNCHANGED <<tree, worker, mx, poller, closed, fault, evicted>>

\* It reads again.
PeerResume(c) ==
  /\ fault = "none" /\ peer[c] = "stalled"
  /\ peer' = [peer EXCEPT ![c] = "open"]
  /\ UNCHANGED <<tree, worker, mx, poller, inbox, closed, fault, evicted>>

Peer(c) == PeerSend(c) \/ PeerEnd(c) \/ PeerResume(c)

-----------------------------------------------------------------------------
(* The worker of connection c (wheespa_server.cc 156-196).                 *)

WriteBanner(c) ==
  /\ At(c, "banner")
  /\ Write(c)
  /\ Goto(c, "read")
  /\ UNCHANGED <<tree, at, retries, conn, disconnect, mx, poller, network, evicted>>

\* The read times out or fails, its text is no request, an exception leaves
\* the loop, or a Register is done, or refused and taken for done: in each case
\* the worker is finished.
ReadNoRequest(c) ==
  /\ At(c, "read")
  /\ MayWrite(c)
  /\ retries' = [retries EXCEPT ![c] = 0]
  /\ Goto(c, "shutdown")
  /\ UNCHANGED <<tree, at, conn, disconnect, mx, poller, network, evicted>>

\* Mutant: one try too many.
RefuseOnceMore(c) ==
  /\ At(c, "read")
  /\ MayWrite(c)
  /\ IF retries[c] < MaxRetries
       THEN retries' = [retries EXCEPT ![c] = @ + 1] /\ UNCHANGED wpc
       ELSE retries' = [retries EXCEPT ![c] = 0] /\ Goto(c, "shutdown")
  /\ UNCHANGED <<tree, at, conn, disconnect, mx, poller, network, evicted>>

\* handle() answers false, with or without a reply: another try if one is left.
ReadRefused(c) ==
  /\ At(c, "read")
  /\ MayWrite(c)
  /\ IF retries[c] + 1 < MaxRetries
       THEN retries' = [retries EXCEPT ![c] = @ + 1] /\ UNCHANGED wpc
       ELSE retries' = [retries EXCEPT ![c] = 0] /\ Goto(c, "shutdown")
  /\ UNCHANGED <<tree, at, conn, disconnect, mx, poller, network, evicted>>

\* Mutant: adminLogin does not ask table Administrators.
GrantUnranked(r) == r.type # "AnonymousConnect" => r.key \in Registered

\* login, adminLogin, disconnectLogin and anonymousConnect may answer true.
Grant(r) ==
  /\ r.type # "AnonymousConnect" => r.key \in Registered
  /\ r.type = "AdminLogin" => r.key \in Admins

\* What handle() leaves in m_conn.
Connected(c, r) ==
  [sock_stream |-> c, key |-> r.key, is_admin |-> r.type = "AdminLogin",
   registered |-> r.type # "AnonymousConnect",
   connect_to |-> IF r.type = "AnonymousConnect" THEN r.connect_to ELSE NoName]

\* handle() answers true.
ReadLogin(c) ==
  /\ At(c, "read")
  /\ \E r \in Requests :
       /\ Grant(r)
       /\ conn' = [conn EXCEPT ![c] = Connected(c, r)]
       /\ disconnect' = [disconnect EXCEPT ![c] = r.type = "DisconnectLogin"]
  /\ retries' = [retries EXCEPT ![c] = 0]
  /\ Goto(c, "find")
  /\ UNCHANGED <<tree, at, mx, poller, network, fault, evicted>>

\* find goes from node to node without the mutex, and reads the key of a node
\* twice, then its flag: others may come between any two of these reads.  It
\* steps down to the left, ...
FindLeft(c) ==
  /\ At(c, "find") /\ at[c] \in DOMAIN data
  /\ IF Key(at[c]) > conn[c].key
       THEN at' = [at EXCEPT ![c] = Append(@, "left")] /\ UNCHANGED wpc
       ELSE Goto(c, "less") /\ UNCHANGED at
  /\ UNCHANGED <<tree, retries, conn, disconnect, mx, poller, network, fault, evicted>>

\* ... or to the right, ...
FindRight(c) ==
  /\ At(c, "less")
  /\ IF Key(at[c]) < conn[c].key
       THEN at' = [at EXCEPT ![c] = Append(@, "right")] /\ Goto(c, "find")
       ELSE Goto(c, "flag") /\ UNCHANGED at
  /\ UNCHANGED <<tree, retries, conn, disconnect, mx, poller, network, fault, evicted>>

\* nullptr: the name is free.
FoundNothing(c) == Goto(c, "lock") /\ at' = [at EXCEPT ![c] = Root]

\* Mutant: find gives up at a flagged node.
FindNullOrFlagged(c) ==
  /\ At(c, "find") /\ at[c] \notin Live
  /\ FoundNothing(c)
  /\ UNCHANGED <<tree, retries, conn, disconnect, mx, poller, network, fault, evicted>>

\* ... and ends at a null link ...
FindNull(c) ==
  /\ At(c, "find") /\ at[c] \notin DOMAIN data
  /\ FoundNothing(c)
  /\ UNCHANGED <<tree, retries, conn, disconnect, mx, poller, network, fault, evicted>>

\* ... or a node, if it is not flagged.
FindFlag(c) ==
  /\ At(c, "flag")
  /\ IF at[c] \in overwrite THEN FoundNothing(c) ELSE Goto(c, "check") /\ UNCHANGED at
  /\ UNCHANGED <<tree, retries, conn, disconnect, mx, poller, network, fault, evicted>>

\* node_tmp->overwrite is read again.
CheckFound(c) ==
  /\ At(c, "check")
  /\ Goto(c, IF at[c] \in overwrite THEN "lock" ELSE "exists")
  /\ at' = [at EXCEPT ![c] = Root]
  /\ UNCHANGED <<tree, retries, conn, disconnect, mx, poller, network, fault, evicted>>

\* mx.lock(), before insert and before remove.
Lock(c) ==
  /\ \/ At(c, "lock") /\ Goto(c, "insert")
     \/ At(c, "unseat") /\ Goto(c, "remove")
  /\ mx = Nobody /\ mx' = c
  /\ UNCHANGED <<tree, at, retries, conn, disconnect, poller, network, fault, evicted>>

\* Mutant: without the unlock.
InsertedLocked(c) ==
  /\ at' = [at EXCEPT ![c] = Root]
  /\ Goto(c, "success")
  /\ UNCHANGED <<retries, conn, disconnect, mx, poller, network, fault, evicted>>

\* The session is in the tree: leave insert and unlock.
Inserted(c) ==
  /\ at' = [at EXCEPT ![c] = Root]
  /\ mx' = Nobody
  /\ Goto(c, "success")
  /\ UNCHANGED <<retries, conn, disconnect, poller, network, fault, evicted>>

\* insert into the empty tree.
InsertFirst(c) ==
  /\ At(c, "insert") /\ data = << >>
  /\ Link(Root, conn[c])
  /\ Inserted(c)

\* insert steps down.
InsertDown(c) ==
  /\ At(c, "insert") /\ at[c] \in DOMAIN data
  /\ ~CanLink(at[c], conn[c].key) /\ ~CanReuse(at[c], conn[c].key)
  /\ at' = [at EXCEPT ![c] = Toward(@, conn[c].key)]
  /\ UNCHANGED <<tree, wpc, retries, conn, disconnect, mx, poller, network, fault,
                 evicted>>

\* insert has come to a node that is not flagged and whose link is null ...
InsertLeaf(c) ==
  /\ At(c, "insert") /\ at[c] \in DOMAIN data
  /\ CanLink(at[c], conn[c].key)
  /\ Goto(c, "link")
  /\ UNCHANGED <<tree, at, retries, conn, disconnect, mx, poller, network, fault,
                 evicted>>

\* Mutant: always to the left.
InsertLinkLeft(c) ==
  /\ At(c, "link")
  /\ Link(Append(at[c], "left"), conn[c])
  /\ Inserted(c)

\* ... and links a new node, flagged or not by now.
InsertLink(c) ==
  /\ At(c, "link")
  /\ Link(Toward(at[c], conn[c].key), conn[c])
  /\ Inserted(c)

\* insert reuses a flagged node: first its data ...
InsertReuse(c) ==
  /\ At(c, "insert") /\ at[c] \in DOMAIN data
  /\ CanReuse(at[c], conn[c].key)
  /\ Assign(at[c], conn[c])
  /\ Goto(c, "clear")
  /\ UNCHANGED <<at, retries, conn, disconnect, mx, poller, network, fault, evicted>>

\* ... then its flag.
InsertClear(c) ==
  /\ At(c, "clear")
  /\ Clear(at[c])
  /\ Inserted(c)

\* insert follows the null link below an equal key: the process crashes.
InsertNull(c) ==
  /\ At(c, "insert") /\ data # << >> /\ at[c] \notin DOMAIN data
  /\ fault' = "null"
  /\ UNCHANGED <<tree, worker, mx, poller, network, evicted>>

\* Mutant: the worker does not return, but falls through to the shutdown.
SuccessFallsThrough(c) ==
  /\ At(c, "success")
  /\ Write(c)
  /\ Goto(c, "shutdown")
  /\ UNCHANGED <<tree, at, retries, conn, disconnect, mx, poller, network, evicted>>

\* The session is online before its peer is told.
WriteSuccess(c) ==
  /\ At(c, "success")
  /\ Write(c)
  /\ Goto(c, "served")
  /\ UNCHANGED <<tree, at, retries, conn, disconnect, mx, poller, network, evicted>>

\* Only disconnectLogin assigns disconnect_requested: after the other requests
\* it is whatever the memory holds.
WriteExists(c) ==
  /\ At(c, "exists")
  /\ Write(c)
  /\ \/ Goto(c, "unseat")
     \/ ~disconnect[c] /\ Goto(c, "shutdown")
  /\ UNCHANGED <<tree, at, retries, conn, disconnect, mx, poller, network, evicted>>

\* Mutant: the root goes, whatever was found.
RemoveRoot(c) ==
  /\ At(c, "remove")
  /\ IF Find(conn[c].key) = {} THEN UNCHANGED <<tree, evicted>>
     ELSE Mark(Root) /\ evicted' = evicted \cup {Owner(Root)}
  /\ mx' = Nobody
  /\ Goto(c, "shutdown")
  /\ UNCHANGED <<at, retries, conn, disconnect, poller, network, fault>>

\* remove(key), and unlock.  Under mx nobody changes a link or a key, so the
\* search is one step.
RemoveSession(c) ==
  /\ At(c, "remove")
  /\ \/ Find(conn[c].key) = {} /\ UNCHANGED <<tree, evicted>>
     \/ \E p \in Find(conn[c].key) :
          Mark(p) /\ evicted' = evicted \cup {Owner(p)}
  /\ mx' = Nobody
  /\ Goto(c, "shutdown")
  /\ UNCHANGED <<at, retries, conn, disconnect, poller, network, fault>>

\* SSL_shutdown writes close_notify, and answers 1 only when the peer's own has
\* been received: otherwise the descriptor is never closed.
Shutdown(c) ==
  /\ At(c, "shutdown")
  /\ Write(c)
  /\ \/ UNCHANGED closed
     \/ peer[c] = "closed" /\ closed' = closed \cup {c}
  /\ Goto(c, "finished")
  /\ UNCHANGED <<tree, at, retries, conn, disconnect, mx, poller, peer, inbox, evicted>>

Read(c) == ReadNoRequest(c) \/ ReadRefused(c) \/ ReadLogin(c)
Lookup(c) ==
  FindLeft(c) \/ FindRight(c) \/ FindNull(c) \/ FindFlag(c) \/ CheckFound(c)

Insert(c) ==
  \/ InsertFirst(c) \/ InsertDown(c) \/ InsertLeaf(c) \/ InsertLink(c)
  \/ InsertReuse(c) \/ InsertClear(c) \/ InsertNull(c)

Worker(c) ==
  \/ WriteBanner(c) \/ Read(c) \/ Lookup(c) \/ Lock(c) \/ Insert(c)
  \/ WriteSuccess(c) \/ WriteExists(c) \/ RemoveSession(c) \/ Shutdown(c)

-----------------------------------------------------------------------------
(* The poller (wheespa_server.cc 92-110): the walk.                        *)

\* The walk goes on to the first node of rest, or the pass is over.
Walk(rest) ==
  /\ IF rest = {} THEN PollerGoto("sleep") /\ pat' = Root
     ELSE PollerGoto("visit") /\ \E q \in rest : First(q, rest) /\ pat' = q
  /\ UNCHANGED <<tree, worker, mx, pmsg, pfound, pseen, pto, network, fault, evicted>>

PollerBegin == PollerAt("sleep") /\ Walk(DOMAIN data)

\* Between two visits the walk reads one null link, whenever that is.
PollerAdvance == PollerAt("advance") /\ Walk(After(pat))

\* Mutant: flagged nodes are visited like the others.
PollerVisitAll ==
  /\ PollerAt("visit")
  /\ PollerGoto("read")
  /\ UNCHANGED <<tree, worker, mx, pat, pmsg, pfound, pseen, pto, network, fault, evicted>>

\* Only a node that is not flagged is visited.
PollerVisit ==
  /\ PollerAt("visit")
  /\ PollerGoto(IF pat \in overwrite THEN "advance" ELSE "read")
  /\ UNCHANGED <<tree, worker, mx, pat, pmsg, pfound, pseen, pto, network, fault, evicted>>

\* read(2048, 0) returns what the peer sent, ...
ReadMessage(c) ==
  /\ c \notin closed /\ inbox[c] # NoMessage
  /\ pmsg' = [type |-> inbox[c].type, to |-> inbox[c].to, from |-> c,
               anonymous |-> FALSE]
  /\ inbox' = [inbox EXCEPT ![c] = NoMessage]
  /\ PollerGoto("handle")

\* Mutant: a limit of 0 means that there is none.
ReadWaits(c) == FALSE

\* ... or nothing: no data within 10 ms, or an error that is not an end, ...
ReadNothing(c) ==
  /\ c \in closed \/ (inbox[c] = NoMessage /\ peer[c] # "closed")
  /\ PollerGoto("advance")
  /\ UNCHANGED <<pmsg, inbox>>

\* ... or throws ConnectionClosedException.
ReadEnd(c) ==
  /\ c \notin closed /\ inbox[c] = NoMessage /\ peer[c] \in {"closed", "broken"}
  /\ pmsg' = [NoMail EXCEPT !.from = c]
  /\ PollerGoto("close")
  /\ UNCHANGED inbox

PollerRead ==
  /\ PollerAt("read")
  /\ \/ ReadMessage(Owner(pat)) \/ ReadNothing(Owner(pat)) \/ ReadEnd(Owner(pat))
  /\ UNCHANGED <<tree, worker, mx, pat, pfound, pseen, pto, peer, closed, fault, evicted>>

-----------------------------------------------------------------------------
(* The poller: HandleReceived.                                             *)

\* The m_conn_type that handle() switches on: text of another form leaves it
\* uninitialised.
Dispatch(t) == pmsg.type = "malformed" \/ pmsg.type = t

\* The handler returns.
Return ==
  /\ PollerGoto("advance")
  /\ pmsg' = NoMail /\ pfound' = Root /\ pseen' = Nobody /\ pto' = Nobody

\* The sender gets an answer.
Reply ==
  /\ PollerGoto("reply")
  /\ pto' = Owner(pat) /\ pseen' = Nobody /\ UNCHANGED <<pmsg, pfound>>

\* The constructor cannot open the database: the exception ends the session.
OpenFails == PollerGoto("close") /\ UNCHANGED <<pmsg, pfound, pseen, pto>>

\* The constructor tells the sender of text of another form, and of a command
\* that does not exist, before the message is handled all the same.
Complain ==
  IF pmsg.type \in {"malformed", "ADMINISTRATE"} THEN Write(Owner(pat))
  ELSE UNCHANGED fault

\* A registered user names the addressee in the message, an anonymous one
\* named it when connecting.
HandleInternal ==
  /\ Dispatch("INTERNAL")
  /\ pmsg' = [pmsg EXCEPT !.anonymous = ~data[pat].registered]
  /\ PollerGoto("find")
  /\ UNCHANGED <<pfound, pseen, pto>>

\* Some of an administrator's commands have no answer; none of them, nor their
\* refusal, touches the tree.
HandleAdmin ==
  /\ Dispatch("ADMINISTRATE")
  /\ Reply \/ (data[pat].is_admin /\ Return)

HandleOther == (Dispatch("INVALID") /\ Reply) \/ (Dispatch("EXTERNAL") /\ Return)

\* Mutant: anonymous users get the list as well.
ListForAll ==
  /\ Dispatch("LIST_ONLINE")
  /\ WriteBefore(Owner(pat), "freed") /\ UNCHANGED <<ppc, pmsg, pfound, pseen, pto>>

\* handleListOnline refuses anonymous users.  For the others it copies the
\* tree object, writes the list, and the copy's destructor deletes the root of
\* the original: from then on every walk starts in freed memory, and the
\* process counts as ended.
HandleListOnline ==
  /\ Dispatch("LIST_ONLINE")
  /\ IF data[pat].registered
       THEN WriteBefore(Owner(pat), "freed") /\ UNCHANGED <<ppc, pmsg, pfound, pseen, pto>>
       ELSE Complain /\ Reply

PollerHandle ==
  /\ PollerAt("handle")
  /\ \/ OpenFails /\ UNCHANGED fault
     \/ (HandleInternal \/ HandleAdmin \/ HandleOther) /\ Complain
     \/ HandleListOnline
  /\ UNCHANGED <<tree, worker, mx, pat, network, evicted>>

\* The key that find compares with: a reference, to the text received or into the
\* node of an anonymous sender, where it is read anew at each comparison.
Addressee == IF pmsg.anonymous THEN data[pat].connect_to ELSE pmsg.to

\* find, on behalf of handleInternal, as a worker's find.
PollerFindLeft ==
  /\ PollerAt("find") /\ pfound \in DOMAIN data
  /\ IF Key(pfound) > Addressee
       THEN pfound' = Append(pfound, "left") /\ UNCHANGED <<ppc, pseen>>
       ELSE PollerGoto("less") /\ pseen' = Owner(pfound) /\ UNCHANGED pfound
  /\ UNCHANGED <<pmsg, pto>>

PollerFindRight ==
  /\ PollerAt("less")
  /\ IF Key(pfound) < Addressee
       THEN pfound' = Append(pfound, "right") /\ PollerGoto("find") /\ pseen' = Nobody
       ELSE PollerGoto("flag") /\ UNCHANGED <<pfound, pseen>>
  /\ UNCHANGED <<pmsg, pto>>

PollerFindNull == PollerAt("find") /\ pfound \notin DOMAIN data /\ Reply

PollerFindFlag ==
  /\ PollerAt("flag")
  /\ IF pfound \in overwrite THEN Reply
     ELSE PollerGoto("check") /\ UNCHANGED <<pmsg, pfound, pseen, pto>>

PollerFind ==
  /\ PollerFindLeft \/ PollerFindRight \/ PollerFindNull \/ PollerFindFlag
  /\ UNCHANGED <<tree, worker, mx, pat, network, fault, evicted>>

\* The flag of the node found is read again.
PollerCheck ==
  /\ PollerAt("check")
  /\ IF pfound \in overwrite THEN Reply
     ELSE PollerGoto("deliver") /\ UNCHANGED <<pmsg, pfound, pseen, pto>>
  /\ UNCHANGED <<tree, worker, mx, pat, network, fault, evicted>>

\* Mutant: the stream is taken from the sender's own node.
DeliverBack ==
  /\ PollerAt("deliver")
  /\ pto' = Owner(pat)
  /\ PollerGoto("send")
  /\ UNCHANGED <<tree, worker, mx, pat, pmsg, pfound, pseen, network, fault, evicted>>

\* The text names data[pat].key as its sender; the stream is taken here, and
\* written to after a pause.
PollerDeliver ==
  /\ PollerAt("deliver")
  /\ pto' = Owner(pfound)
  /\ PollerGoto("send")
  /\ UNCHANGED <<tree, worker, mx, pat, pmsg, pfound, pseen, network, fault, evicted>>

\* The message (send) or the answer to its sender (reply) goes out.
PollerWrite ==
  /\ PollerAt("send") \/ PollerAt("reply")
  /\ Write(pto)
  /\ Return
  /\ UNCHANGED <<tree, worker, mx, pat, network, evicted>>

\* The exception handler closes the stream, ...
PollerClose ==
  /\ PollerAt("close")
  /\ closed' = closed \cup {Owner(pat)}
  /\ PollerGoto("mark")
  /\ UNCHANGED <<tree, worker, mx, pat, pmsg, pfound, pseen, pto, peer, inbox, fault,
                 evicted>>

\* Mutant: the node of the closed session is left as it is.
MarkNothing ==
  /\ PollerAt("mark")
  /\ Return
  /\ UNCHANGED <<tree, worker, mx, pat, network, fault, evicted>>

\* ... then flags the node.
PollerMark ==
  /\ PollerAt("mark")
  /\ Mark(pat)
  /\ Return
  /\ UNCHANGED <<worker, mx, pat, network, fault, evicted>>

Poller ==
  \/ PollerBegin \/ PollerAdvance \/ PollerVisit \/ PollerRead \/ PollerHandle
  \/ PollerFind \/ PollerCheck \/ PollerDeliver \/ PollerWrite
  \/ PollerClose \/ PollerMark

-----------------------------------------------------------------------------
Next ==
  \/ \E c \in Conns : Accept(c) \/ Peer(c) \/ Worker(c)
  \/ Poller

Spec == Init /\ [][Next]_vars

\* Threads that can run do run, and a worker's read times out after 90 s.
FairSpec == Spec /\ WF_vars(Poller) /\ \A c \in Conns : WF_vars(Worker(c))

-----------------------------------------------------------------------------
(* Properties.                                                             *)

WorkerPlaces ==
  {"none", "banner", "read", "find", "less", "flag", "check", "lock", "insert",
   "link", "clear", "success", "served", "exists", "unseat", "remove", "shutdown",
   "finished"}

PollerPlaces ==
  {"sleep", "advance", "visit", "read", "handle", "find", "less", "flag", "check",
   "deliver", "send", "reply", "close", "mark"}

\* Types.
TypeOK ==
  /\ DOMAIN data \subseteq Places /\ data \in [DOMAIN data -> Session]
  /\ overwrite \subseteq DOMAIN data
  /\ wpc \in [Conns -> WorkerPlaces]
  /\ at \in [Conns -> Places]
  /\ retries \in [Conns -> 0..(MaxRetries - 1)]
  /\ conn \in [Conns -> Session \cup {NoSession}]
  /\ disconnect \in [Conns -> BOOLEAN]
  /\ mx \in Conns \cup {Nobody}
  /\ ppc \in PollerPlaces
  /\ pat \in Places /\ pfound \in Places
  /\ pmsg \in [type : MessageTypes \cup {"none"}, to : Names \cup {NoName},
               from : Conns \cup {Nobody}, anonymous : BOOLEAN]
  /\ pseen \in Conns \cup {Nobody}
  /\ pto \in Conns \cup {Nobody}
  /\ peer \in [Conns -> {"open", "stalled", "closed", "broken"}]
  /\ inbox \in [Conns -> Messages \cup {NoMessage}]
  /\ closed \subseteq Conns
  /\ fault \in {"none", "null", "freed", "pipe"}
  /\ evicted \subseteq Conns

\* The directory that the tree holds (module Directory): a connection is in
\* it as long as a node that is not flagged holds it.
Online(c) == {p \in Live : Owner(p) = c}

OneOf(S) == CHOOSE p \in S : TRUE

Standing(c) ==
  IF Online(c) # {} THEN data[OneOf(Online(c))]
  ELSE IF wpc[c] \in {"success", "served"} THEN Former ELSE Absent

directory == [c \in Conns |-> Standing(c)]

Dir == INSTANCE Directory WITH session <- directory

\* The threads together keep the directory's promise: a connection comes
\* online once, under an identity it is entitled to, and no step but the one
\* that ends its session touches it, whoever reuses which node meanwhile.
DirectoryKept == Dir!Spec

\* How far the worker of c is, and who holds the descriptor of c.
Stage(c) ==
  CASE wpc[c] = "none" -> "none"
    [] wpc[c] \in {"served", "finished"} -> "ended"
    [] OTHER -> "running"

Holder(c) ==
  IF c \in closed THEN "closed"
  ELSE IF wpc[c] \in {"clear", "success", "served"} THEN "poller" ELSE "worker"

Con == INSTANCE Connections WITH
         stage <- [c \in Conns |-> Stage(c)], holder <- [c \in Conns |-> Holder(c)]

\* The threads keep to their agreement on descriptors: a worker closes its
\* connection only when it has not put it into the tree, and the poller only
\* when it has, whoever logs in, disconnects others and reuses nodes meanwhile
\* (wheespa_server.cc 101-104, 171-176, 194).
DescriptorsKept == Con!Spec

\* While the poller handles a message, or ends a session, the node it stands
\* on stays the session it read from: the sender's name, its rank and its
\* stream are taken from that node several steps after the read
\* (wheespa_server.cc 94-106, handle_received.cc 31-46).  Only remove() can
\* free the node under the poller, and only for the session it took away.
SenderStays ==
  ppc \in {"handle", "find", "less", "flag", "check", "deliver", "close", "mark"} =>
    /\ Owner(pat) = pmsg.from \/ pmsg.from \in evicted
    /\ pat \in Live \/ evicted # {}

\* The name that a message is meant for: that in its text, or that its anonymous
\* sender gave when connecting.
Meant == IF pmsg.anonymous THEN conn[pmsg.from].connect_to ELSE pmsg.to

\* A message goes out to a session of the name it is meant for, although find's
\* two looks at the key and its look at the flag, the check of the flag and the
\* taking of the stream are separate steps without the mutex, and the name itself
\* may be read from a node each time.  Two things can bring it to a session of
\* another name.  The session that was at the node when find came there has ended,
\* and a login has put another in its place in the midst of these steps; or
\* remove() has taken the sender's session away (handle_received.cc 34-40,
\* binary_tree.cc 47-50, 66-71).
ReachesAddressee ==
  ppc = "send" =>
    \/ conn[pto].key = Meant
    \/ pto # pseen /\ directory[pseen] = Former
    \/ pmsg.from \in evicted

\* No session is online over a closed descriptor, except between the two steps
\* of the poller's exception handler: the worker that published it leaves it
\* open, and the workers of others close their own (wheespa_server.cc 103, 104,
\* 194).  After a remove() the handler may close a newcomer's descriptor.
OnlineIsOpen ==
  \A p \in Live :
    Owner(p) \notin closed \/ (ppc = "mark" /\ pat = p) \/ evicted # {}

\* Nobody reads from, writes to or closes a descriptor that is closed already,
\* whose number the kernel may have given to another connection: each copy of a
\* SocketInterface is told of no close through another (wheespa_server.cc 103,
\* 143-150, 194).  Two things do: a worker that has yet to write its success, and,
\* after a remove(), the poller's reads and the messages it delivers.  No
\* descriptor is closed twice, and no answer is written to a closed one, even so.
UsedWhileOpen ==
  /\ ppc \in {"handle", "find", "less", "flag", "check", "deliver", "close"} =>
       Owner(pat) \notin closed
  /\ ppc = "reply" => pto \notin closed
  /\ \A c \in closed : wpc[c] \in {"clear", "success", "served", "finished"}
  /\ evicted = {} =>
       /\ ppc = "read" => Owner(pat) \notin closed
       /\ ppc = "send" => pto \notin closed
       /\ \A c \in closed : wpc[c] # "clear"

\* What is in use is open: by a session that is online, and by every step that a
\* worker or the poller takes with a descriptor (wheespa_server.cc 103, 104,
\* 143-150, 194).
OpenInUse == OnlineIsOpen /\ UsedWhileOpen

\* A session is taken away by another login under its own name, which gets
\* nothing for it but its end, and it is gone for good, although the node of the
\* name is searched anew after the peer was answered (wheespa_server.cc 169-183,
\* binary_tree.cc 119-124).
EvictedByNamesake ==
  \A c \in evicted :
    /\ wpc[c] \in {"success", "served"} /\ Online(c) = {}
    /\ \E d \in Conns \ {c} :
         conn[d].key = conn[c].key /\ wpc[d] \in {"shutdown", "finished"}

\* The places of a find.
Searching == {"find", "less", "flag"}

\* A find for key k that is at l and stands on p has not been led astray: p is on
\* the way of k, and what the find has made out about p's key is so.
OnCourse(l, p, k) ==
  /\ OnSearchPath(p, k)
  /\ l = "less" => Key(p) <= k
  /\ l = "flag" => Key(p) = k

\* A login gives a flagged node whose key this find has read another name.
RenamedOnWay(l, p) ==
  \E n \in 0..(IF l = "find" THEN Len(p) - 1 ELSE Len(p)) :
    LET passed == SubSeq(p, 1, n)
    IN passed \in overwrite /\ data'[passed].key # data[passed].key

\* A search that is on course when it takes this step.
FindAnswers ==
  /\ \A c \in Conns :
       wpc[c] \in Searching /\ OnCourse(wpc[c], at[c], conn[c].key) =>
         \/ /\ wpc'[c] \in Searching
            /\ OnCourse(wpc[c], at[c], conn[c].key)' \/ RenamedOnWay(wpc[c], at[c])
         \/ wpc'[c] = "lock" /\ Find(conn[c].key) = {}
         \/ wpc'[c] = "check" /\ Find(conn[c].key) = {at[c]}
  /\ ppc \in Searching /\ OnCourse(ppc, pfound, Addressee) =>
       \/ /\ ppc' \in Searching
          /\ \/ OnCourse(ppc, pfound, Addressee)' \/ RenamedOnWay(ppc, pfound)
             \/ Addressee' # Addressee
       \/ ppc' = "reply" /\ Find(Addressee) = {}
       \/ ppc' = "check" /\ Find(Addressee) = {pfound}

\* A find that takes many steps, while others insert, flag and reuse, answers
\* what one that took a single step would answer at its last, unless it was led
\* astray; and that takes a node whose key it has read and that is then given
\* another name, be it one that it has passed, or the one where it stands between
\* its looks at the key and at the flag.  A poller's find may also have its
\* key changed (binary_tree.cc 66-71, wheespa_server.cc 169, handle_received.cc
\* 34-37).
FindIsRight == [][FindAnswers]_vars

\* Who comes online by this step is in the tree where its name is searched, or
\* below a node of that name.
FoundOnline ==
  \A c \in Conns :
    wpc[c] # "success" /\ wpc'[c] = "success" =>
      \E p \in Live' :
        /\ Owner(p)' = c
        /\ \/ p \in Find(conn[c].key)'
           \/ \E n \in 0..(Len(p) - 1) : Key(SubSeq(p, 1, n))' = conn[c].key

\* A session that comes online can be found under its name at that moment,
\* unless insert has passed a node of that name on its way, although nodes were
\* flagged since find came by, and may be while insert goes down
\* (binary_tree.cc 37-55, wheespa_server.cc 169-173).
ComesOnlineFound == [][FoundOnline]_vars

\* What ends the process in this model, and who can have caused it, however the
\* threads interleave: insert follows a null link only when the name that it inserts is
\* in the tree already, by another worker's doing; the root is freed on behalf of
\* a registered user, or one whose session remove() took away; and SIGPIPE needs
\* a peer that is gone (wheespa_server.cc 169-174, binary_tree.cc 37-54,
\* handle_received.cc 119-137).  One more end is not modelled: the stream that
\* insert replaces in a node that remove() has flagged may be the one the poller is
\* using, and be freed under it (binary_tree.cc 49).
EndsExplained ==
  /\ fault = "null" =>
       \E c, d \in Conns :
         /\ c # d /\ conn[c].key = conn[d].key
         /\ wpc[c] = "insert" /\ wpc[d] \in {"success", "served"}
  /\ fault = "freed" => conn[pmsg.from].registered \/ pmsg.from \in evicted
  /\ fault = "pipe" => \E c \in Conns : peer[c] \in {"closed", "broken"}

-----------------------------------------------------------------------------
(* Liveness, under FairSpec.                                               *)

Ended == fault # "none"

\* From some time on the peer of c reads what is written to it, or is gone.  Of
\* what it sends itself this module has whole messages only, here and in the three
\* properties below: a record that has begun to arrive arrives whole, without
\* which SSL_read waits for ever (secure_socket.cc 105; ReadReturns of module
\* Stream).
Reads(c) == <>[](peer[c] # "stalled")

\* Every worker whose peer reads, and sends whole records, comes to its end: its
\* session is online or its thread is done with the connection, however many
\* workers want the mutex and however the tree grows below its search, and although
\* other workers, and the poller, may wait for ever for peers that do not read
\* (wheespa_server.cc 156-196).
WorkerEnds ==
  \A c \in Conns :
    Reads(c) => (wpc[c] = "banner" ~> wpc[c] \in {"served", "finished"} \/ Ended)

\* What a session's peer sends is read as long as the session is online, and a
\* session whose peer closed in order is taken out of the directory: the walk
\* comes back to every live node, whatever is inserted or reused meanwhile, as
\* long as every peer reads, and sends whole records: one that does not may hold
\* up the poller (secure_socket.cc 105, 132, wheespa_server.cc 93-106).
PollerAttends ==
  (\A d \in Conns : Reads(d)) =>
    \A c \in Conns :
      /\ (Online(c) # {} /\ inbox[c] # NoMessage) ~>
           (Online(c) = {} \/ inbox[c] = NoMessage \/ evicted # {} \/ Ended)
      /\ (Online(c) # {} /\ peer[c] = "closed") ~>
           (Online(c) = {} \/ evicted # {} \/ Ended)

\* Every pass of the poller comes to its end, however many sessions are silent
\* and whatever is inserted before the walk, as long as every peer reads, and sends
\* whole records: the poller then looks at r_signal, which module AcceptLoop has as
\* a condition (wheespa_server.cc 93-109, binary_tree.cc 90-97).
PassEnds ==
  (\A d \in Conns : Reads(d)) => []<>(ppc = "sleep" \/ Ended)
=============================================================================
