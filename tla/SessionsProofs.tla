--------------------------- MODULE SessionsProofs ---------------------------
(* Theorems about Sessions, for all connections, names, requests and        *)
(* messages.                                                                *)
EXTENDS Sessions, SearchTreeProofs, TLAPS

-----------------------------------------------------------------------------
(* Types.                                                                   *)

\* Where the steps that follow a node's address find a node: the addresses
\* they hold are not null, and what they insert is a session.
Grounded ==
  /\ ppc # "sleep" => pat \in DOMAIN data
  /\ ppc \in {"less", "flag", "check", "deliver"} => pfound \in DOMAIN data
  /\ ppc \in {"send", "reply"} => pto \in Conns
  /\ \A c \in Conns :
       /\ wpc[c] \in {"less", "flag", "link", "clear"} => at[c] \in DOMAIN data
       /\ wpc[c] \in {"insert", "link", "clear", "remove"} => mx = c
       /\ wpc[c] \notin {"none", "banner", "read", "shutdown", "finished"} =>
            conn[c] \in Session /\ conn[c].sock_stream = c

TypeInv == TypeOK /\ Grounded

\* A walk that is at a place goes to a place.
LEMMA TowardPlace ==
  ASSUME NEW p \in Places, NEW k
  PROVE  Toward(p, k) \in Places
BY DEF Toward, Side, Places, Sides

\* The links of a node are places.
LEMMA LinkPlaces ==
  ASSUME NEW p \in Places
  PROVE  Append(p, "left") \in Places /\ Append(p, "right") \in Places
BY DEF Places, Sides

\* m_node is a place.
LEMMA RootPlace == Root \in Places
BY DEF Root, Places

\* The typing invariant holds at first ...
LEMMA TypeInit == Init => TypeInv
<1> SUFFICES ASSUME Init PROVE TypeInv
  OBVIOUS
<1>1. data = << >> /\ overwrite = {} /\ DOMAIN data = {}
  BY DEF Init, EmptyTree
<1>2. data \in [DOMAIN data -> Session]
  BY <1>1
<1>3. TypeOK
  BY <1>1, <1>2, RootPlace
  DEF Init, TypeOK, WorkerPlaces, PollerPlaces, NoMail, NoMessage, MaxRetries
<1>4. Grounded
  BY DEF Init, Grounded
<1> QED
  BY <1>3, <1>4 DEF TypeInv

\* The steps of peers and of the accept keep the types.
LEMMA TypePeer ==
  ASSUME TypeInv, NEW c \in Conns, Accept(c) \/ Peer(c)
  PROVE  TypeInv'
<1>1. CASE Accept(c)
  BY <1>1 DEF TypeInv, TypeOK, Grounded, Accept, At, Goto, tree, poller, network, WorkerPlaces
<1>2. CASE PeerSend(c)
  BY <1>2 DEF TypeInv, TypeOK, Grounded, PeerSend, At, tree, worker, poller
<1>3. CASE PeerEnd(c)
  BY <1>3, EndsAssumption DEF TypeInv, TypeOK, Grounded, PeerEnd, tree, worker, poller
<1>4. CASE PeerResume(c)
  BY <1>4 DEF TypeInv, TypeOK, Grounded, PeerResume, tree, worker, poller
<1> QED
  BY <1>1, <1>2, <1>3, <1>4 DEF Peer

\* The steps of a worker that do not write to the tree keep the types.
LEMMA TypeWorkerOutside ==
  ASSUME TypeInv, NEW c \in Conns,
         WriteBanner(c) \/ Read(c) \/ Lookup(c) \/ Lock(c) \/ InsertDown(c)
           \/ InsertLeaf(c) \/ InsertNull(c) \/ WriteSuccess(c) \/ WriteExists(c)
           \/ Shutdown(c)
  PROVE  TypeInv'
<1> USE DEF TypeInv, TypeOK, Grounded, At, Goto, tree, worker, poller, network,
            WorkerPlaces
<1>1. CASE WriteBanner(c)
  BY <1>1 DEF WriteBanner, Write, WriteBefore
<1>2. CASE ReadNoRequest(c)
  BY <1>2 DEF ReadNoRequest, MayWrite, Write, WriteBefore, MaxRetries
<1>3. CASE ReadRefused(c)
  BY <1>3 DEF ReadRefused, MayWrite, Write, WriteBefore, MaxRetries
<1>4. CASE ReadLogin(c)
  <2>1. PICK r \in Requests :
          /\ conn' = [conn EXCEPT ![c] = Connected(c, r)]
          /\ disconnect' = [disconnect EXCEPT ![c] = r.type = "DisconnectLogin"]
    BY <1>4 DEF ReadLogin
  <2>2. Connected(c, r) \in Session /\ Connected(c, r).sock_stream = c
    BY RequestsAssumption DEF Connected, Session
  <2>3. /\ At(c, "read") /\ wpc' = [wpc EXCEPT ![c] = "find"]
        /\ retries' = [retries EXCEPT ![c] = 0]
        /\ UNCHANGED <<tree, at, mx, poller, network, fault, evicted>>
    BY <1>4 DEF ReadLogin
  <2>4. TypeOK'
    BY <2>1, <2>2, <2>3 DEF MaxRetries
  <2>5. Grounded'
    BY <2>1, <2>2, <2>3
  <2> QED
    BY <2>4, <2>5
<1>5. CASE FindLeft(c) \/ FindRight(c)
  <2>1. Append(at[c], "left") \in Places /\ Append(at[c], "right") \in Places
    BY LinkPlaces
  <2>2. /\ UNCHANGED <<tree, retries, conn, disconnect, mx, poller, network, fault, evicted>>
        /\ \E side \in Sides :
             \/ at' = [at EXCEPT ![c] = Append(at[c], side)] /\ wpc[c] = "find" /\ wpc' = wpc
             \/ /\ at' = [at EXCEPT ![c] = Append(at[c], side)]
                /\ wpc' = [wpc EXCEPT ![c] = "find"]
             \/ /\ at' = at /\ at[c] \in DOMAIN data
                /\ wpc[c] \in {"find", "less"}
                /\ \E l \in {"less", "flag"} : wpc' = [wpc EXCEPT ![c] = l]
    BY <1>5 DEF FindLeft, FindRight, Sides
  <2>3. wpc[c] \in {"find", "less"}
    BY <1>5 DEF FindLeft, FindRight
  <2>4. at' \in [Conns -> Places]
    <3> HIDE DEF TypeInv, Grounded, TypeOK, At, Goto
    <3>1. at \in [Conns -> Places]
      BY DEF TypeInv, TypeOK
    <3> QED
      BY <2>1, <2>2, <3>1 DEF Sides
  <2>5. wpc' \in [Conns -> WorkerPlaces]
    BY <2>2, <2>3
  <2>6. TypeOK'
    BY <2>2, <2>4, <2>5
  <2>7. Grounded'
    BY <2>2, <2>3
  <2> QED
    BY <2>6, <2>7
<1>6. CASE FindNull(c) \/ FindFlag(c)
  BY <1>6, RootPlace DEF FindNull, FindFlag, FoundNothing
<1>7. CASE CheckFound(c)
  <2>1. PICK l \in {"lock", "exists"} : wpc' = [wpc EXCEPT ![c] = l]
    BY <1>7 DEF CheckFound
  <2> QED
    BY <1>7, <2>1, RootPlace DEF CheckFound
<1>8. CASE Lock(c)
  BY <1>8, NobodyAssumption DEF Lock
<1>9. CASE InsertDown(c)
  <2>1. Toward(at[c], conn[c].key) \in Places
    BY TowardPlace
  <2> QED
    BY <1>9, <2>1 DEF InsertDown
<1>10. CASE InsertNull(c)
  BY <1>10 DEF InsertNull
<1>11. CASE WriteSuccess(c)
  BY <1>11 DEF WriteSuccess, Write, WriteBefore
<1>12. CASE WriteExists(c)
  BY <1>12 DEF WriteExists, Write, WriteBefore
<1>13. CASE Shutdown(c)
  BY <1>13 DEF Shutdown, Write, WriteBefore
<1>14. CASE InsertLeaf(c)
  BY <1>14 DEF InsertLeaf
<1> QED
  BY <1>1, <1>2, <1>3, <1>4, <1>5, <1>6, <1>7, <1>8, <1>9, <1>10, <1>11, <1>12,
     <1>13, <1>14 DEF Read, Lookup

\* The steps of a worker that write to the tree keep the types.
LEMMA TypeWorkerInside ==
  ASSUME TypeInv, NEW c \in Conns,
         InsertFirst(c) \/ InsertLink(c) \/ InsertReuse(c) \/ InsertClear(c)
           \/ RemoveSession(c)
  PROVE  TypeInv'
<1> USE DEF TypeInv, TypeOK, Grounded, At, Goto, tree, poller, network, WorkerPlaces
<1>1. CASE InsertFirst(c)
  BY <1>1, RootPlace DEF InsertFirst, Inserted, Link
<1>2. CASE InsertLink(c)
  <2>1. Toward(at[c], conn[c].key) \in Places
    BY TowardPlace
  <2>2. conn[c] \in Session
    BY <1>2 DEF InsertLink
  <2>3. /\ DOMAIN data' = DOMAIN data \cup {Toward(at[c], conn[c].key)}
        /\ data' \in [DOMAIN data' -> Session]
    BY <1>2, <2>2 DEF InsertLink, Link
  <2>4. TypeOK'
    BY <1>2, <2>1, <2>3, RootPlace DEF InsertLink, Inserted, Link
  <2>5. Grounded'
    BY <1>2, <2>3 DEF InsertLink, Inserted, Link
  <2> QED
    BY <2>4, <2>5
<1>3. CASE InsertReuse(c)
  BY <1>3 DEF InsertReuse, Assign
<1>4. CASE InsertClear(c)
  BY <1>4, RootPlace DEF InsertClear, Inserted, Clear
<1>5. CASE RemoveSession(c)
  BY <1>5 DEF RemoveSession, Mark, Find, Live, Owner, Session
<1> QED
  BY <1>1, <1>2, <1>3, <1>4, <1>5

\* The poller's steps keep the types.
LEMMA TypePoller ==
  ASSUME TypeInv, Poller
  PROVE  TypeInv'
<1> USE DEF TypeInv, TypeOK, Grounded, PollerAt, PollerGoto, tree, worker, network,
            PollerPlaces
<1>1. pat \in DOMAIN data => Owner(pat) \in Conns
  BY DEF Owner, Session
<1>2. CASE PollerBegin \/ PollerAdvance
  BY <1>2, RootPlace DEF PollerBegin, PollerAdvance, Walk, First, After
<1>3. CASE PollerVisit
  BY <1>3 DEF PollerVisit
<1>4. CASE PollerRead
  <2>1. PICK c \in Conns : c = Owner(pat)
    BY <1>1, <1>4 DEF PollerRead
  <2>2. CASE ReadMessage(c)
    BY <1>4, <2>1, <2>2, MessagesAssumption DEF PollerRead, ReadMessage, NoMessage
  <2>3. CASE ReadNothing(c)
    BY <1>4, <2>1, <2>3 DEF PollerRead, ReadNothing
  <2>4. CASE ReadEnd(c)
    BY <1>4, <2>1, <2>4 DEF PollerRead, ReadEnd, NoMail
  <2> QED
    BY <1>4, <2>1, <2>2, <2>3, <2>4 DEF PollerRead
<1>5. CASE PollerHandle
  <2>1. data[pat].registered \in BOOLEAN
    BY <1>5 DEF PollerHandle, Session
  <2>2. UNCHANGED <<tree, worker, mx, pat, network, evicted>> /\ pat \in DOMAIN data
    BY <1>5 DEF PollerHandle
  <2>3. CASE OpenFails /\ UNCHANGED fault
    BY <2>2, <2>3 DEF OpenFails
  <2>4. Complain => fault' \in {"none", "pipe"}
    BY <1>5 DEF Complain, Write, WriteBefore, PollerHandle
  <2>5. CASE HandleInternal /\ Complain
    <3>1. /\ pmsg' = [pmsg EXCEPT !.anonymous = ~data[pat].registered]
          /\ ppc' = "find" /\ UNCHANGED <<pfound, pseen, pto>> /\ fault' \in {"none", "pipe"}
      BY <2>4, <2>5 DEF HandleInternal
    <3> QED
      BY <2>1, <2>2, <3>1
  <2>6. ASSUME Reply \/ Return, Complain PROVE TypeOK' /\ Grounded'
    <3>1. fault' \in {"none", "pipe"} /\ Owner(pat) \in Conns
      BY <1>1, <2>2, <2>4, <2>6
    <3>2. CASE Reply
      BY <2>2, <3>1, <3>2 DEF Reply
    <3>3. CASE Return
      BY <2>2, <3>1, <3>3, RootPlace DEF Return, NoMail
    <3> QED
      BY <2>6, <3>2, <3>3
  <2>7. CASE (HandleAdmin \/ HandleOther) /\ Complain
    BY <2>6, <2>7 DEF HandleAdmin, HandleOther
  <2>8. CASE HandleListOnline
    BY <1>1, <2>2, <2>4, <2>8 DEF HandleListOnline, WriteBefore, Reply
  <2> QED
    BY <1>5, <2>3, <2>5, <2>7, <2>8 DEF PollerHandle
<1>6. CASE PollerFind
  <2>1. Append(pfound, "left") \in Places /\ Append(pfound, "right") \in Places
    BY LinkPlaces
  <2>2. CASE PollerFindLeft
    <3>1. Owner(pfound) \in Conns
      BY <2>2 DEF PollerFindLeft, Owner, Session
    <3> QED
      BY <1>6, <2>1, <2>2, <3>1 DEF PollerFind, PollerFindLeft
  <2>3. CASE PollerFindRight
    BY <1>6, <2>1, <2>3 DEF PollerFind, PollerFindRight
  <2>4. CASE PollerFindNull
    BY <1>1, <1>6, <2>4 DEF PollerFind, PollerFindNull, Reply
  <2>5. CASE PollerFindFlag
    BY <1>1, <1>6, <2>5 DEF PollerFind, PollerFindFlag, Reply
  <2> QED
    BY <1>6, <2>2, <2>3, <2>4, <2>5 DEF PollerFind
<1>7. CASE PollerCheck
  BY <1>1, <1>7 DEF PollerCheck, Reply
<1>8. CASE PollerDeliver
  BY <1>8 DEF PollerDeliver, Owner, Session
<1>9. CASE PollerWrite
  BY <1>9, RootPlace DEF PollerWrite, Write, WriteBefore, Return, NoMail
<1>10. CASE PollerClose
  BY <1>1, <1>10 DEF PollerClose
<1>11. CASE PollerMark
  BY <1>11, RootPlace DEF PollerMark, Mark, Return, NoMail
<1> QED
  BY <1>2, <1>3, <1>4, <1>5, <1>6, <1>7, <1>8, <1>9, <1>10, <1>11 DEF Poller

\* ... and every step of the system keeps it.
LEMMA TypeStep == TypeInv /\ [Next]_vars => TypeInv'
<1> SUFFICES ASSUME TypeInv, [Next]_vars PROVE TypeInv'
  OBVIOUS
<1>1. CASE Next
  BY <1>1, TypePeer, TypeWorkerOutside, TypeWorkerInside, TypePoller
  DEF Next, Worker, Insert
<1>2. CASE UNCHANGED vars
  BY <1>2 DEF vars, tree, worker, poller, network, TypeInv, TypeOK, Grounded
<1> QED
  BY <1>1, <1>2

\* Types, for every value of the constants.
THEOREM TypeCorrect == Spec => []TypeOK
<1>1. TypeInv => TypeOK
  BY DEF TypeInv
<1> QED
  BY <1>1, TypeInit, TypeStep, PTL DEF Spec

-----------------------------------------------------------------------------
(* Who is in the tree.                                                      *)

\* Workers that have an identity.
Identified ==
  {c \in Conns : wpc[c] \notin {"none", "banner", "read", "shutdown", "finished"}}

\* The workers whose connection is in a node of the tree.
Seated == {c \in Conns : wpc[c] \in {"clear", "success", "served"}}

\* A node holds what its owner's worker inserted, and nobody owns two nodes.
Ownership ==
  /\ \A p \in DOMAIN data : Owner(p) \in Seated /\ conn[Owner(p)] = data[p]
  /\ \A p, q \in DOMAIN data : Owner(p) = Owner(q) => p = q

\* Between the two halves of a reuse the node is its worker's, and still flagged.
HalfReused ==
  \A c \in Conns : wpc[c] = "clear" => at[c] \in overwrite /\ Owner(at[c]) = c

\* The link that insert has found to be null is null until it links there.
Linkable(c) ==
  Key(at[c]) # conn[c].key /\ Toward(at[c], conn[c].key) \notin DOMAIN data

Linking == \A c \in Conns : wpc[c] = "link" => Linkable(c)

\* An identity is one that the connection is entitled to.
Legitimate == \A c \in Identified : conn[c] \in Dir!Entitled(c)

IInv == TypeInv /\ Ownership /\ HalfReused /\ Linking /\ Legitimate

\* What login, adminLogin, disconnectLogin and anonymousConnect put into m_conn
\* is an identity that the directory allows.
LEMMA GrantEntitles ==
  ASSUME NEW c \in Conns, NEW r \in Requests, Grant(r)
  PROVE  Connected(c, r) \in Dir!Entitled(c)
BY RequestsAssumption, AccountsAssumption
DEF Grant, Connected, Dir!Entitled, RequestTypes

\* The inductive invariant holds at first.
LEMMA IInvInit == Init => IInv
<1> SUFFICES ASSUME Init PROVE IInv
  OBVIOUS
<1>1. DOMAIN data = {} /\ \A c \in Conns : wpc[c] = "none"
  BY DEF Init, EmptyTree
<1> QED
  BY <1>1, TypeInit DEF IInv, Ownership, HalfReused, Linking, Legitimate, Identified

\* A step that leaves the nodes, and puts the flag of none down, keeps the
\* invariant when no worker enters or leaves the tree by it.
LEMMA IInvFrame ==
  ASSUME IInv, TypeInv',
         data' = data, overwrite \subseteq overwrite',
         NEW c \in Conns,
         \A d \in Conns \ {c} : wpc'[d] = wpc[d] /\ conn'[d] = conn[d] /\ at'[d] = at[d],
         wpc[c] # "clear", wpc'[c] # "clear",
         wpc'[c] = "link" => Linkable(c) /\ at'[c] = at[c] /\ conn'[c] = conn[c],
         c \in Seated => wpc'[c] \in {"success", "served"} /\ conn'[c] = conn[c],
         c \in Identified' => conn'[c] \in Dir!Entitled(c)
  PROVE  IInv'
<1>1. Ownership'
  BY DEF IInv, TypeInv, Ownership, Seated, Owner
<1>2. HalfReused'
  BY DEF IInv, HalfReused, Owner
<1>3. Legitimate'
  BY DEF IInv, Legitimate, Identified
<1>4. Linking'
  BY DEF IInv, Linking, Linkable, Toward, Side, Key
<1> QED
  BY <1>1, <1>2, <1>3, <1>4 DEF IInv

\* The poller takes no part in it but for the flags, which it only raises.
LEMMA IInvPoller ==
  ASSUME IInv, TypeInv', Poller
  PROVE  IInv'
<1>1. UNCHANGED <<data, worker>> /\ overwrite \subseteq overwrite'
  BY DEF Poller, PollerBegin, PollerAdvance, Walk, PollerVisit, PollerRead, PollerHandle,
         PollerFind, PollerCheck, PollerDeliver, PollerWrite, PollerClose, PollerMark,
         Mark, tree
<1>2. Ownership'
  BY <1>1 DEF IInv, Ownership, Seated, Owner, worker
<1>3. HalfReused'
  BY <1>1 DEF IInv, HalfReused, Owner, worker
<1>4. Legitimate'
  BY <1>1 DEF IInv, Legitimate, Identified, worker
<1>5. Linking'
  BY <1>1 DEF IInv, Linking, Linkable, Toward, Side, Key, worker
<1> QED
  BY <1>2, <1>3, <1>4, <1>5 DEF IInv

\* Neither do accept and the peers.
LEMMA IInvPeer ==
  ASSUME IInv, TypeInv', NEW c \in Conns, Accept(c) \/ Peer(c)
  PROVE  IInv'
<1> USE DEF IInv, TypeInv, TypeOK, At, Goto, tree, worker
<1>1. CASE Accept(c)
  BY <1>1, IInvFrame DEF Accept, Seated, Identified
<1>2. CASE Peer(c)
  <2>1. UNCHANGED <<data, overwrite, wpc, at, conn>>
    BY <1>2 DEF Peer, PeerSend, PeerEnd, PeerResume
  <2> QED
    BY <2>1 DEF Ownership, HalfReused, Linking, Linkable, Toward, Side, Key, Legitimate,
                Seated, Identified, Owner
<1> QED
  BY <1>1, <1>2

\* The steps of a worker that put no session into the tree.
LEMMA IInvWorkerOutside ==
  ASSUME IInv, TypeInv', NEW c \in Conns,
         WriteBanner(c) \/ Read(c) \/ Lookup(c) \/ Lock(c) \/ InsertDown(c)
           \/ InsertLeaf(c) \/ InsertNull(c) \/ WriteSuccess(c) \/ WriteExists(c)
           \/ Shutdown(c) \/ RemoveSession(c)
  PROVE  IInv'
<1>1. CASE ReadLogin(c)
  <2>1. PICK r \in Requests : Grant(r) /\ conn' = [conn EXCEPT ![c] = Connected(c, r)]
    BY <1>1 DEF ReadLogin
  <2>2. Connected(c, r) \in Dir!Entitled(c)
    BY <2>1, GrantEntitles
  <2>3. conn'[c] \in Dir!Entitled(c)
    BY <2>1, <2>2 DEF IInv, TypeInv, TypeOK
  <2> QED
    BY <1>1, <2>1, <2>3, IInvFrame
    DEF ReadLogin, IInv, TypeInv, TypeOK, At, Goto, tree, Seated
<1>2. CASE ~ReadLogin(c) /\ ~InsertNull(c)
  <2>1. /\ data' = data /\ overwrite \subseteq overwrite' /\ conn' = conn
        /\ wpc[c] # "clear"
        /\ \E l : /\ wpc' = [wpc EXCEPT ![c] = l]
                  /\ wpc[c] \in {"success", "served"} => l = "served"
                  /\ l # "clear"
                  /\ l = "link" => Linkable(c) /\ at' = at
                  /\ wpc[c] \in {"none", "banner", "read", "shutdown", "finished"} =>
                       l \in {"banner", "read", "shutdown", "finished"}
        /\ \A d \in Conns \ {c} : at'[d] = at[d]
    <3> USE DEF IInv, TypeInv, TypeOK, At, Goto, tree
    <3>1. CASE WriteBanner(c)
      BY <3>1 DEF WriteBanner
    <3>2. CASE ReadNoRequest(c)
      BY <3>2 DEF ReadNoRequest
    <3>3. CASE ReadRefused(c)
      BY <3>3 DEF ReadRefused
    <3>4. CASE Lookup(c)
      BY <3>4 DEF Lookup, FindLeft, FindRight, FindNull, FindFlag,
         FoundNothing, CheckFound
    <3>5. CASE Lock(c)
      BY <3>5 DEF Lock
    <3>6. CASE InsertDown(c)
      BY <3>6 DEF InsertDown
    <3>7. CASE WriteSuccess(c)
      BY <3>7 DEF WriteSuccess
    <3>8. CASE WriteExists(c)
      BY <3>8 DEF WriteExists
    <3>9. CASE Shutdown(c)
      BY <3>9 DEF Shutdown
    <3>10. CASE RemoveSession(c)
      BY <3>10 DEF RemoveSession, Mark
    <3>11. CASE InsertLeaf(c)
      BY <3>11 DEF InsertLeaf, CanLink, Linkable
    <3> QED
      BY <1>2, <3>1, <3>2, <3>3, <3>4, <3>5, <3>6, <3>7, <3>8, <3>9, <3>10, <3>11 DEF Read
  <2> QED
    BY <2>1, IInvFrame DEF IInv, TypeInv, TypeOK, Seated, Identified, Legitimate
<1>3. CASE InsertNull(c)
  BY <1>3 DEF InsertNull, tree, worker, IInv, Ownership, HalfReused, Linking, Linkable,
              Toward, Side, Key, Legitimate, Seated, Identified, Owner
<1> QED
  BY <1>1, <1>2, <1>3

\* A new node for a connection that is in no other.
LEMMA IInvLink ==
  ASSUME IInv, TypeInv', NEW c \in Conns, NEW p \in Places, p \notin DOMAIN data,
         wpc[c] \in {"insert", "link"}, Link(p, conn[c]), Inserted(c)
  PROVE  IInv'
<1>1. /\ DOMAIN data' = DOMAIN data \cup {p} /\ data'[p] = conn[c]
      /\ \A q \in DOMAIN data : data'[q] = data[q]
      /\ overwrite' = overwrite /\ conn' = conn
      /\ wpc' = [wpc EXCEPT ![c] = "success"] /\ at' = [at EXCEPT ![c] = Root]
  BY DEF Link, Inserted, Goto
<1>2. conn[c].sock_stream = c
  BY DEF IInv, TypeInv, Grounded
<1>3. \A q \in DOMAIN data : Owner(q) # c
  BY DEF IInv, Ownership, Seated
<1>4. Ownership'
  BY <1>1, <1>2, <1>3 DEF IInv, TypeInv, TypeOK, Ownership, Seated, Owner
<1>5. HalfReused'
  BY <1>1 DEF IInv, TypeInv, TypeOK, HalfReused, Owner
<1>6. Legitimate'
  BY <1>1 DEF IInv, TypeInv, TypeOK, Legitimate, Identified
\* c holds mx, so nobody else is about to link a node.
<1>7. \A d \in Conns : wpc'[d] # "link"
  BY <1>1 DEF IInv, TypeInv, TypeOK, Grounded
<1> QED
  BY <1>4, <1>5, <1>6, <1>7 DEF IInv, Linking

\* The four ways in which insert puts a session into the tree keep it.
LEMMA IInvInsert ==
  ASSUME IInv, TypeInv', NEW c \in Conns,
         InsertFirst(c) \/ InsertLink(c) \/ InsertReuse(c) \/ InsertClear(c)
  PROVE  IInv'
<1> USE DEF IInv, TypeInv, TypeOK, At, Goto
<1>1. CASE InsertFirst(c)
  <2>1. Root \notin DOMAIN data
    BY <1>1 DEF InsertFirst
  <2> QED
    BY <1>1, <2>1, RootPlace, IInvLink DEF InsertFirst
<1>2. CASE InsertLink(c)
  <2>1. Toward(at[c], conn[c].key) \in Places
    BY TowardPlace
  <2>2. Toward(at[c], conn[c].key) \notin DOMAIN data
    BY <1>2 DEF InsertLink, Linking, Linkable
  <2> QED
    BY <1>2, <2>1, <2>2, IInvLink DEF InsertLink
<1>3. CASE InsertReuse(c)
  \* c holds mx, so no other worker is halfway through a reuse.
  <2>1. /\ at[c] \in overwrite /\ data' = [data EXCEPT ![at[c]] = conn[c]]
        /\ UNCHANGED <<overwrite, conn, at>>
        /\ wpc[c] = "insert" /\ wpc' = [wpc EXCEPT ![c] = "clear"]
    BY <1>3 DEF InsertReuse, Assign, CanReuse
  <2>2. conn[c].sock_stream = c /\ \A d \in Conns : wpc[d] \notin {"link", "clear"}
    BY <2>1 DEF Grounded
  <2>3. \A q \in DOMAIN data : Owner(q) # c
    BY <2>1 DEF Ownership, Seated
  <2>4. DOMAIN data' = DOMAIN data /\ data'[at[c]] = conn[c]
        /\ \A q \in DOMAIN data \ {at[c]} : data'[q] = data[q]
    BY <2>1
  <2>5. Ownership'
    BY <2>1, <2>2, <2>3, <2>4 DEF Ownership, Seated, Owner
  <2>6. HalfReused'
    BY <2>1, <2>2, <2>4 DEF HalfReused, Owner
  <2>7. Legitimate'
    BY <2>1 DEF Legitimate, Identified
  <2>8. Linking'
    BY <2>1, <2>2 DEF Linking
  <2> QED
    BY <2>5, <2>6, <2>7, <2>8
<1>4. CASE InsertClear(c)
  \* c holds mx, so the node whose flag goes down is nobody else's.
  <2>1. /\ UNCHANGED <<data, conn>> /\ overwrite' = overwrite \ {at[c]}
        /\ wpc[c] = "clear" /\ wpc' = [wpc EXCEPT ![c] = "success"]
        /\ at' = [at EXCEPT ![c] = Root]
    BY <1>4 DEF InsertClear, Clear, Inserted
  <2>2. \A d \in Conns \ {c} : wpc[d] # "clear"
    BY <2>1 DEF Grounded
  <2>3. Ownership'
    BY <2>1 DEF Ownership, Seated, Owner
  <2>4. HalfReused'
    BY <2>1, <2>2 DEF HalfReused, Owner
  <2>5. Legitimate'
    BY <2>1 DEF Legitimate, Identified
  <2>6. Linking'
    BY <2>1 DEF Linking, Linkable, Toward, Side, Key
  <2> QED
    BY <2>3, <2>4, <2>5, <2>6
<1> QED
  BY <1>1, <1>2, <1>3, <1>4

\* Every step keeps the inductive invariant.
LEMMA IInvStep == IInv /\ [Next]_vars => IInv'
<1> SUFFICES ASSUME IInv, [Next]_vars PROVE IInv'
  OBVIOUS
<1>1. TypeInv'
  BY TypeStep DEF IInv
<1>2. CASE Next
  BY <1>1, <1>2, IInvPoller, IInvPeer, IInvWorkerOutside, IInvInsert
  DEF Next, Worker, Insert
<1>3. CASE UNCHANGED vars
  BY <1>1, <1>3 DEF vars, tree, worker, IInv, Ownership, HalfReused, Linking, Linkable,
                    Toward, Side, Key, Legitimate, Seated, Identified, Owner
<1> QED
  BY <1>2, <1>3

\* No connection is in two nodes, a node holds what its worker was granted,
\* and a reuse that is half done is nobody else's.
THEOREM Invariant == Spec => []IInv
BY IInvInit, IInvStep, PTL DEF Spec

-----------------------------------------------------------------------------
(* What a step of a peer or a worker may do, whichever it is.               *)

\* It is nobody else's, and where c is in the tree it only goes forward.
Moves(c) ==
  /\ UNCHANGED poller
  /\ \A d \in Conns \ {c} : wpc'[d] = wpc[d] /\ conn'[d] = conn[d] /\ at'[d] = at[d]
  /\ wpc[c] # "read" => conn'[c] = conn[c]
  /\ wpc[c] = "clear" => wpc'[c] \in {"clear", "success"}
  /\ wpc[c] = "success" => wpc'[c] \in {"success", "served"}
  /\ wpc[c] = "shutdown" => wpc'[c] \in {"shutdown", "finished"}
  /\ wpc[c] \in {"served", "finished"} => wpc'[c] = wpc[c]
  /\ wpc'[c] = "served" => wpc[c] \in {"success", "served"}
  /\ wpc'[c] \in {"clear", "success"} => wpc[c] \in {wpc'[c], "insert", "link", "clear"}
  /\ wpc[c] = "none" => wpc'[c] \in {"none", "banner"}
  /\ wpc'[c] = "none" => wpc[c] = "none"
  /\ wpc'[c] = "finished" => wpc[c] \in {"shutdown", "finished"}

\* It writes to the node that insert stands on, or links one.
Writes(c) ==
  /\ \A p \in DOMAIN data :
       /\ p \in DOMAIN data'
       /\ \/ data'[p] = data[p]
          \/ /\ wpc[c] = "insert" /\ wpc'[c] = "clear"
             /\ p = at[c] /\ p \in overwrite /\ data'[p] = conn[c]
  /\ \A p \in DOMAIN data' \ DOMAIN data :
       wpc[c] \in {"insert", "link"} /\ wpc'[c] = "success" /\ data'[p] = conn[c]
  /\ \/ overwrite \subseteq overwrite'
     \/ wpc[c] = "clear" /\ wpc'[c] = "success" /\ overwrite' = overwrite \ {at[c]}

\* It closes the connection of a worker that has not published it, and takes a
\* session away when remove finds one.
Leaves(c) ==
  /\ closed' = closed \/ (wpc[c] = "shutdown" /\ wpc'[c] = "finished" /\ closed' = closed \cup {c})
  /\ evicted' = evicted \/ RemoveSession(c)

LEMMA StepEffect ==
  ASSUME IInv, NEW c \in Conns, Accept(c) \/ Peer(c) \/ Worker(c)
  PROVE  Moves(c) /\ Writes(c) /\ Leaves(c)
<1>1. /\ wpc \in [Conns -> WorkerPlaces] /\ at \in [Conns -> Places]
      /\ conn \in [Conns -> Session \cup {NoSession}] /\ overwrite \subseteq DOMAIN data
  BY DEF IInv, TypeInv, TypeOK
<1> USE DEF At, Goto
<1>2. ASSUME UNCHANGED <<tree, closed, evicted>> PROVE Writes(c) /\ Leaves(c)
  BY <1>2 DEF tree, Writes, Leaves
<1>3. CASE Accept(c)
  BY <1>1, <1>2, <1>3 DEF Accept, network, Moves
<1>4. CASE Peer(c)
  BY <1>1, <1>2, <1>4 DEF Peer, PeerSend, PeerEnd, PeerResume, worker, Moves
<1>5. CASE Read(c)
  BY <1>1, <1>2, <1>5 DEF Read, ReadNoRequest, ReadRefused, ReadLogin, network, Moves
<1>6. CASE Lookup(c)
  BY <1>1, <1>2, <1>6 DEF Lookup, FindLeft, FindRight, FindNull, FindFlag,
         FoundNothing, CheckFound, network, Moves
<1>7. CASE WriteBanner(c) \/ Lock(c)
  BY <1>1, <1>2, <1>7 DEF WriteBanner, Lock, network, Moves
<1>8. CASE WriteSuccess(c) \/ WriteExists(c)
  BY <1>1, <1>2, <1>8 DEF WriteSuccess, WriteExists, network, Moves
<1>9. CASE InsertDown(c) \/ InsertLeaf(c) \/ InsertNull(c)
  BY <1>1, <1>2, <1>9 DEF InsertDown, InsertLeaf, InsertNull, worker, network, Moves
<1>10. CASE Shutdown(c)
  BY <1>1, <1>10 DEF Shutdown, tree, Moves, Writes, Leaves
<1>11. CASE RemoveSession(c)
  <2>1. /\ UNCHANGED <<data, poller, closed, at, conn>> /\ overwrite \subseteq overwrite'
        /\ wpc[c] = "remove" /\ wpc' = [wpc EXCEPT ![c] = "shutdown"]
    BY <1>11 DEF RemoveSession, Mark, tree, network
  <2> QED
    BY <1>1, <1>11, <2>1 DEF Moves, Writes, Leaves
<1>12. CASE InsertClear(c)
  BY <1>1, <1>12 DEF InsertClear, Clear, Inserted, network, Moves, Writes, Leaves
<1>13. CASE InsertReuse(c)
  <2>1. /\ data' = [data EXCEPT ![at[c]] = conn[c]] /\ at[c] \in overwrite
        /\ UNCHANGED <<overwrite, at, conn, poller, closed, evicted>>
        /\ wpc[c] = "insert" /\ wpc' = [wpc EXCEPT ![c] = "clear"]
    BY <1>13 DEF InsertReuse, Assign, CanReuse, network
  <2> QED
    BY <1>1, <2>1 DEF Moves, Writes, Leaves
<1>14. CASE InsertFirst(c) \/ InsertLink(c)
  <2>1. PICK q : /\ data' = [p \in DOMAIN data \cup {q} |-> IF p = q THEN conn[c] ELSE data[p]]
                 /\ q \notin DOMAIN data /\ overwrite' = overwrite
    <3>1. CASE InsertFirst(c)
      <4>1. data = << >> /\ Link(Root, conn[c])
        BY <3>1 DEF InsertFirst
      <4>2. Root \notin DOMAIN data
        BY <4>1
      <4> QED
        BY <4>1, <4>2 DEF Link
    <3>2. CASE InsertLink(c)
      BY <3>2 DEF InsertLink, IInv, Linking, Linkable, Link
    <3> QED
      BY <1>14, <3>1, <3>2
  <2>2. /\ UNCHANGED <<conn, poller, closed, evicted>>
        /\ wpc[c] \in {"insert", "link"} /\ wpc' = [wpc EXCEPT ![c] = "success"]
        /\ at' = [at EXCEPT ![c] = Root]
    BY <1>14 DEF InsertFirst, InsertLink, Inserted, network
  <2> QED
    BY <1>1, <2>1, <2>2 DEF Moves, Writes, Leaves
<1> HIDE DEF At, Goto
<1> QED
  BY <1>3, <1>4, <1>5, <1>6, <1>7, <1>8, <1>9, <1>10, <1>11, <1>12, <1>13, <1>14
  DEF Worker, Insert

\* What the poller's steps, and those of nobody, leave to the others.
LEMMA PollerEffect ==
  ASSUME Poller \/ UNCHANGED vars
  PROVE  UNCHANGED <<data, worker, mx, evicted>> /\ overwrite \subseteq overwrite'
BY DEF Poller, PollerBegin, PollerAdvance, Walk, PollerVisit, PollerRead, PollerHandle,
       PollerFind, PollerCheck, PollerDeliver, PollerWrite, PollerClose, PollerMark,
       Mark, tree, vars

-----------------------------------------------------------------------------
(* The tree implements the directory.                                       *)

\* CHOOSE from a set that is not empty.
LEMMA OneOfIn == ASSUME NEW S, S # {} PROVE OneOf(S) \in S
BY DEF OneOf

\* A connection in a live node stands as what the node holds.
LEMMA StandingOnline ==
  ASSUME Ownership, NEW p \in Live
  PROVE  Standing(Owner(p)) = data[p]
<1>1. p \in Online(Owner(p)) /\ OneOf(Online(Owner(p))) \in Online(Owner(p))
  BY OneOfIn DEF Online
<1>2. \A q \in Online(Owner(p)) : q = p
  BY DEF Online, Ownership, Live
<1> QED
  BY <1>1, <1>2 DEF Standing

\* A step that keeps the live nodes and what they hold keeps the standing of
\* every connection whose worker does not come to, or leave, its end.
LEMMA StandingKept ==
  ASSUME NEW c, Live' = Live, \A p \in Live : data'[p] = data[p],
         wpc'[c] \in {"success", "served"} <=> wpc[c] \in {"success", "served"}
  PROVE  Standing(c)' = Standing(c)
<1>1. Online(c)' = Online(c)
  BY DEF Online, Owner
<1>2. CASE Online(c) = {}
  BY <1>1, <1>2 DEF Standing
<1>3. CASE Online(c) # {}
  <2>1. OneOf(Online(c)) \in Live
    BY <1>3, OneOfIn DEF Online
  <2>2. data'[OneOf(Online(c)')] = data[OneOf(Online(c))]
    BY <1>1, <2>1
  <2>3. Standing(c) = data[OneOf(Online(c))]
    BY <1>3 DEF Standing
  <2>4. Standing(c)' = data'[OneOf(Online(c)')]
    BY <1>1, <1>3 DEF Standing
  <2> QED
    BY <2>2, <2>3, <2>4
<1> QED
  BY <1>2, <1>3

\* The session of c becomes visible at place p.
LEMMA BecomesOnline ==
  ASSUME IInv, IInv', NEW c \in Conns, NEW p,
         p \notin Live, Live' = Live \cup {p}, \A q \in Live : data'[q] = data[q],
         Owner(p)' = c, wpc[c] \in {"insert", "link", "clear"},
         wpc' = [wpc EXCEPT ![c] = "success"],
         \A q \in Live : Owner(q) # c
  PROVE  Dir!Register(c)
<1>1. Standing(c) = Absent
  BY DEF Standing, Online
<1>2. Standing(c)' = data'[p]
  <2>1. Online(c)' = {p}
    BY DEF Online, Owner
  <2>2. OneOf(Online(c)') = p
    BY <2>1, OneOfIn
  <2> QED
    BY <2>1, <2>2 DEF Standing
<1>3. data'[p] \in Dir!Entitled(c)
  <2>1. p \in DOMAIN data'
    BY DEF Live
  <2>2. data'[p] = conn'[c] /\ c \in Identified'
    BY <2>1 DEF IInv, TypeInv, TypeOK, Ownership, Owner, Identified
  <2> QED
    BY <2>2 DEF IInv, Legitimate
<1>4. ASSUME NEW d \in Conns \ {c} PROVE Standing(d)' = Standing(d)
  <2>1. Online(d)' = Online(d)
    BY <1>4 DEF Online, Owner
  <2>2. wpc'[d] = wpc[d]
    BY <1>4 DEF IInv, TypeInv, TypeOK
  <2>3. CASE Online(d) = {}
    BY <2>1, <2>2, <2>3 DEF Standing
  <2>4. CASE Online(d) # {}
    <3>1. OneOf(Online(d)) \in Live
      BY <2>4, OneOfIn DEF Online
    <3>2. data'[OneOf(Online(d)')] = data[OneOf(Online(d))]
      BY <2>1, <3>1
    <3>3. Standing(d) = data[OneOf(Online(d))]
      BY <2>4 DEF Standing
    <3>4. Standing(d)' = data'[OneOf(Online(d)')]
      BY <2>1, <2>4 DEF Standing
    <3> QED
      BY <3>2, <3>3, <3>4
  <2> QED
    BY <2>3, <2>4
<1>5. directory' = [directory EXCEPT ![c] = directory'[c]]
  BY <1>4 DEF directory
<1> QED
  BY <1>1, <1>2, <1>3, <1>5 DEF Dir!Register, Dir!Becomes, directory

\* The node at p is flagged.
LEMMA GoesOffline ==
  ASSUME IInv, NEW p \in DOMAIN data, Mark(p),
         \A d \in Conns : wpc'[d] \in {"success", "served"} <=>
                          wpc[d] \in {"success", "served"}
  PROVE  [Dir!Next]_directory
<1>1. data' = data /\ Live' = Live \ {p} /\ Owner(p) \in Conns
  BY DEF Mark, Live, IInv, Ownership, Seated
<1>2. CASE p \notin Live
  BY <1>1, <1>2, StandingKept DEF directory
<1>3. CASE p \in Live
  <2>0. PICK c \in Conns : c = Owner(p)
    BY <1>1
  <2>1. Standing(c) = data[p]
    BY <1>3, <2>0, StandingOnline DEF IInv
  <2>2. wpc[c] \in {"success", "served"}
    BY <1>3, <2>0 DEF IInv, TypeInv, TypeOK, Ownership, Seated, HalfReused, Live
  <2>3. data[p] \in Dir!Entitled(c)
    BY <2>0, <2>2 DEF IInv, Ownership, Legitimate, Identified
  <2>4. Standing(c)' = Former
    <3>1. Online(c)' = {}
      BY <1>1, <2>0 DEF Online, Owner, IInv, Ownership, Live
    <3> QED
      BY <2>2, <3>1 DEF Standing
  <2>5. ASSUME NEW d \in Conns \ {c} PROVE Standing(d)' = Standing(d)
    <3>1. Online(d)' = Online(d)
      BY <1>1, <2>0, <2>5 DEF Online, Owner
    <3> QED
      BY <1>1, <2>5, <3>1 DEF Standing
  <2>6. directory' = [directory EXCEPT ![c] = Former]
    BY <1>1, <2>4, <2>5 DEF directory
  <2> QED
    BY <1>1, <2>1, <2>3, <2>6 DEF Dir!Next, Dir!Drop, Dir!Becomes, directory
<1> QED
  BY <1>2, <1>3

\* A step that leaves the tree, and moves no worker to or from its end.
LEMMA DirectoryFrame ==
  ASSUME UNCHANGED tree,
         \A d \in Conns : wpc'[d] \in {"success", "served"} <=>
                          wpc[d] \in {"success", "served"}
  PROVE  UNCHANGED directory
<1>1. Live' = Live /\ \A p \in Live : data'[p] = data[p]
  BY DEF tree, Live
<1>2. \A d \in Conns : Standing(d)' = Standing(d)
  BY <1>1, StandingKept
<1> QED
  BY <1>2 DEF directory

\* A worker's step is a step of the directory, or none.
LEMMA DirectoryWorker ==
  ASSUME IInv, IInv', NEW c \in Conns, Worker(c)
  PROVE  [Dir!Next]_directory
<1> USE DEF IInv, TypeInv, TypeOK, At, Goto
<1>1. CASE InsertFirst(c)
  <2>0. DOMAIN data = {} /\ data' = [q \in {Root} |-> conn[c]] /\ overwrite' = overwrite
        /\ conn[c].sock_stream = c
    <3>1. DOMAIN data = {}
      BY <1>1 DEF InsertFirst
    <3>2. data' = [q \in DOMAIN data \cup {Root} |-> IF q = Root THEN conn[c] ELSE data[q]]
          /\ overwrite' = overwrite
      BY <1>1 DEF InsertFirst, Link
    <3>3. conn[c].sock_stream = c
      BY <1>1 DEF InsertFirst, Grounded
    <3> HIDE DEF IInv, TypeInv, TypeOK, At, Goto
    <3> QED
      BY <3>1, <3>2, <3>3
  <2>1. Root \notin Live /\ Live' = Live \cup {Root} /\ Owner(Root)' = c
        /\ \A q \in Live : data'[q] = data[q] /\ Owner(q) # c
    BY <2>0 DEF Live, Owner
  <2> QED
    BY <1>1, <2>1, BecomesOnline DEF InsertFirst, Inserted, Dir!Next
<1>2. CASE InsertLink(c)
  <2> DEFINE p == Toward(at[c], conn[c].key)
  <2>0. p \notin DOMAIN data /\ data' = [q \in DOMAIN data \cup {p} |->
                                           IF q = p THEN conn[c] ELSE data[q]]
        /\ overwrite' = overwrite /\ wpc[c] = "link"
        /\ wpc' = [wpc EXCEPT ![c] = "success"]
    BY <1>2 DEF InsertLink, Linking, Linkable, Link, Inserted
  <2>1. PICK place : place = p
    OBVIOUS
  <2>2. place \notin Live /\ Live' = Live \cup {place} /\ Owner(place)' = c
        /\ \A q \in Live : data'[q] = data[q] /\ Owner(q) # c
    BY <2>0, <2>1 DEF Live, Owner, Grounded, Ownership, Seated
  <2> QED
    BY <2>0, <2>2, BecomesOnline DEF Dir!Next
<1>3. CASE InsertClear(c)
  <2>1. PICK place \in overwrite : place = at[c] /\ Owner(place) = c
    BY <1>3 DEF InsertClear, HalfReused
  <2>2. place \notin Live /\ Live' = Live \cup {place} /\ Owner(place)' = c
        /\ \A q \in Live : data'[q] = data[q] /\ Owner(q) # c
    BY <1>3, <2>1 DEF InsertClear, Clear, Live, Owner, Ownership
  <2> QED
    BY <1>3, <2>2, BecomesOnline DEF InsertClear, Inserted, Dir!Next
<1>4. CASE InsertReuse(c)
  <2>1. Live' = Live /\ \A p \in Live : data'[p] = data[p]
    BY <1>4 DEF InsertReuse, Assign, CanReuse, Live
  <2>2. \A d \in Conns : wpc'[d] \in {"success", "served"} <=>
                         wpc[d] \in {"success", "served"}
    BY <1>4 DEF InsertReuse
  <2>3. \A d \in Conns : Standing(d)' = Standing(d)
    BY <2>1, <2>2, StandingKept
  <2> QED
    BY <2>3 DEF directory
<1>5. CASE RemoveSession(c)
  <2>1. \A d \in Conns : wpc'[d] \in {"success", "served"} <=>
                         wpc[d] \in {"success", "served"}
    BY <1>5 DEF RemoveSession
  <2>2. CASE UNCHANGED tree
    BY <2>1, <2>2, DirectoryFrame
  <2>3. CASE \E p \in Find(conn[c].key) : Mark(p)
    BY <2>1, <2>3, GoesOffline DEF Find, Live
  <2> QED
    BY <1>5, <2>2, <2>3 DEF RemoveSession
<1>6. CASE WriteBanner(c) \/ Read(c) \/ Lookup(c) \/ Lock(c) \/ InsertDown(c)
           \/ InsertLeaf(c) \/ InsertNull(c) \/ WriteSuccess(c) \/ WriteExists(c)
           \/ Shutdown(c)
  <2>1. UNCHANGED tree
    BY <1>6 DEF WriteBanner, Read, ReadNoRequest, ReadRefused, ReadLogin, Lookup,
                FindLeft, FindRight, FindNull, FindFlag,
         FoundNothing, CheckFound, Lock, InsertDown, InsertLeaf, InsertNull,
                WriteSuccess, WriteExists, Shutdown
  <2>2. \A d \in Conns : wpc'[d] \in {"success", "served"} <=>
                         wpc[d] \in {"success", "served"}
    BY <1>6 DEF WriteBanner, Read, ReadNoRequest, ReadRefused, ReadLogin, Lookup,
                FindLeft, FindRight, FindNull, FindFlag,
         FoundNothing, CheckFound, Lock, InsertDown, InsertLeaf, InsertNull,
                WriteSuccess, WriteExists, Shutdown, worker
  <2> QED
    BY <2>1, <2>2, DirectoryFrame
<1> QED
  BY <1>1, <1>2, <1>3, <1>4, <1>5, <1>6 DEF Worker, Insert

\* So is a step of the poller, of accept and of a peer.
LEMMA DirectoryOthers ==
  ASSUME IInv, NEW c, (c \in Conns /\ (Accept(c) \/ Peer(c))) \/ Poller
  PROVE  [Dir!Next]_directory
<1>1. CASE PollerMark
  <2>1. pat \in DOMAIN data /\ Mark(pat) /\ wpc' = wpc
    BY <1>1 DEF PollerMark, PollerAt, worker, IInv, TypeInv, Grounded
  <2> QED
    BY <2>1, GoesOffline
<1>2. CASE Poller /\ ~PollerMark
  <2>1. UNCHANGED <<tree, wpc>>
    BY <1>2 DEF Poller, PollerBegin, PollerAdvance, Walk, PollerVisit, PollerRead,
                PollerHandle, PollerFind, PollerCheck, PollerDeliver, PollerWrite,
                PollerClose, worker
  <2> QED
    BY <2>1, DirectoryFrame
<1>3. CASE c \in Conns /\ (Accept(c) \/ Peer(c))
  <2>1. UNCHANGED tree /\ \A d \in Conns : wpc'[d] \in {"success", "served"} <=>
                                           wpc[d] \in {"success", "served"}
    BY <1>3 DEF Accept, Peer, PeerSend, PeerEnd, PeerResume, At, Goto, worker, IInv, TypeInv, TypeOK
  <2> QED
    BY <2>1, DirectoryFrame
<1> QED
  BY <1>1, <1>2, <1>3

\* The threads keep the directory's promise, however many connections there
\* are and whatever they ask.
THEOREM DirectoryImplemented == Spec => DirectoryKept
<1>1. Init => Dir!Init
  <2> SUFFICES ASSUME Init PROVE Dir!Init
    OBVIOUS
  <2>1. Live = {} /\ \A c \in Conns : wpc[c] = "none"
    BY DEF Init, EmptyTree, Live
  <2>2. ASSUME NEW c \in Conns PROVE Standing(c) = Absent
    BY <2>1 DEF Standing, Online
  <2> QED
    BY <2>2 DEF Dir!Init, directory
<1>2. IInv /\ IInv' /\ [Next]_vars => [Dir!Next]_directory
  <2> SUFFICES ASSUME IInv, IInv', [Next]_vars PROVE [Dir!Next]_directory
    OBVIOUS
  <2>1. CASE Next
    BY <2>1, DirectoryWorker, DirectoryOthers DEF Next
  <2>2. CASE UNCHANGED vars
    BY <2>2, DirectoryFrame DEF vars, worker
  <2> QED
    BY <2>1, <2>2
<1> QED
  BY <1>1, <1>2, Invariant, PTL DEF Spec, DirectoryKept, Dir!Spec

-----------------------------------------------------------------------------
(* The sender under the poller.                                             *)

\* Where the poller relies on the node it stands on.
Relying ==
  {"read", "handle", "find", "less", "flag", "check", "deliver", "close", "mark"}

\* The node is live, or remove() took its session away, or its next session is
\* half way into it; and what was read came from it or from a session taken away.
SenderInv ==
  ppc \in Relying =>
    /\ \/ pat \in Live
       \/ /\ evicted # {}
          /\ \/ Owner(pat) \in evicted
             \/ wpc[Owner(pat)] = "clear" /\ at[Owner(pat)] = pat
    /\ ppc # "read" => Owner(pat) = pmsg.from \/ pmsg.from \in evicted

\* The poller's steps keep what it relies on.
LEMMA SenderPoller ==
  ASSUME IInv, SenderInv, Poller
  PROVE  SenderInv'
<1> USE DEF IInv, TypeInv, TypeOK, Grounded, SenderInv, Relying, PollerAt, PollerGoto,
            tree, worker, Live, Owner
<1>1. CASE PollerBegin \/ PollerAdvance
  BY <1>1 DEF PollerBegin, PollerAdvance, Walk
<1>2. CASE PollerVisit
  BY <1>2 DEF PollerVisit
<1>3. CASE PollerRead
  BY <1>3 DEF PollerRead, ReadMessage, ReadNothing, ReadEnd, NoMail
<1>4. CASE PollerHandle
  BY <1>4 DEF PollerHandle, OpenFails, HandleInternal, HandleAdmin, HandleOther,
              HandleListOnline, Reply, Return
<1>5. CASE PollerFind \/ PollerCheck \/ PollerDeliver
  BY <1>5 DEF PollerFind, PollerFindLeft, PollerFindRight, PollerFindNull, PollerFindFlag,
              PollerCheck, PollerDeliver, Reply
<1>6. CASE PollerWrite \/ PollerMark
  BY <1>6 DEF PollerWrite, PollerMark, Return
<1>7. CASE PollerClose
  BY <1>7 DEF PollerClose
<1> QED
  BY <1>1, <1>2, <1>3, <1>4, <1>5, <1>6, <1>7 DEF Poller

\* So do the steps of everybody else, taken under its feet.
LEMMA SenderOthers ==
  ASSUME IInv, SenderInv, NEW c \in Conns, Accept(c) \/ Peer(c) \/ Worker(c)
  PROVE  SenderInv'
<1> USE DEF IInv, TypeInv, TypeOK, At, Goto
<1>1. UNCHANGED <<ppc, pat, pmsg>>
  BY DEF Accept, Peer, PeerSend, PeerEnd, PeerResume, Worker, WriteBanner, Read, ReadNoRequest,
         ReadRefused, ReadLogin, Lookup, FindLeft, FindRight, FindNull, FindFlag,
         FoundNothing, CheckFound, Lock, Insert,
         InsertFirst, InsertDown, InsertLeaf, InsertLink, InsertReuse, InsertClear, Inserted,
         InsertNull, WriteSuccess, WriteExists, RemoveSession, Shutdown, poller
<1>2. CASE InsertReuse(c)
  \* Nobody else is half way into the node, so its last session was taken away.
  <2>1. /\ data' = [data EXCEPT ![at[c]] = conn[c]] /\ at[c] \in overwrite
        /\ UNCHANGED <<overwrite, at, evicted>>
        /\ wpc[c] = "insert" /\ wpc' = [wpc EXCEPT ![c] = "clear"]
    BY <1>2 DEF InsertReuse, Assign, CanReuse
  <2>2. \A d \in Conns : wpc[d] # "clear"
    BY <2>1 DEF Grounded
  <2>3. conn[c].sock_stream = c
    BY <2>1 DEF Grounded
  <2>4. CASE pat # at[c]
    BY <1>1, <2>1, <2>2, <2>4 DEF SenderInv, Live, Owner, Ownership, Seated, Grounded,
                                  Relying
  <2>5. CASE pat = at[c]
    BY <1>1, <2>1, <2>2, <2>3, <2>5
    DEF SenderInv, Live, Owner, Ownership, Seated, Grounded, Relying
  <2> QED
    BY <2>4, <2>5
<1>3. CASE InsertFirst(c) \/ InsertLink(c)
  <2>1. /\ \A p \in DOMAIN data : p \in DOMAIN data' /\ data'[p] = data[p]
        /\ overwrite' = overwrite /\ evicted' = evicted /\ wpc[c] \in {"insert", "link"}
        /\ \A d \in Conns \ {c} : wpc'[d] = wpc[d] /\ at'[d] = at[d]
    BY <1>3 DEF InsertFirst, InsertLink, Linking, Linkable, Link, Inserted
  <2> QED
    BY <1>1, <2>1 DEF SenderInv, Live, Owner, Ownership, Seated, Grounded, Relying
<1>4. CASE InsertClear(c)
  <2>1. /\ data' = data /\ overwrite' = overwrite \ {at[c]} /\ evicted' = evicted
        /\ \A d \in Conns \ {c} : wpc'[d] = wpc[d] /\ at'[d] = at[d]
    BY <1>4 DEF InsertClear, Clear, Inserted
  <2> QED
    BY <1>1, <2>1 DEF SenderInv, Live, Owner, Ownership, Seated, Grounded, Relying
<1>5. CASE RemoveSession(c)
  <2>1. /\ data' = data /\ at' = at /\ wpc[c] = "remove"
        /\ \A d \in Conns \ {c} : wpc'[d] = wpc[d]
        /\ evicted \subseteq evicted'
        /\ \/ overwrite' = overwrite
           \/ \E p \in Live : overwrite' = overwrite \cup {p} /\ Owner(p) \in evicted'
    BY <1>5 DEF RemoveSession, Mark, tree, Find
  <2> QED
    BY <1>1, <2>1 DEF SenderInv, Live, Owner, Ownership, Seated, Grounded, Relying
<1>6. CASE (~Insert(c) /\ ~RemoveSession(c)) \/ InsertDown(c) \/ InsertLeaf(c)
           \/ InsertNull(c)
  <2> DEFINE Kept == /\ UNCHANGED <<data, overwrite, evicted>> /\ wpc[c] # "clear"
                     /\ \A d \in Conns \ {c} : wpc'[d] = wpc[d] /\ at'[d] = at[d]
  <2>1. ASSUME Accept(c) PROVE Kept
    BY <2>1 DEF Accept, tree
  <2>2. ASSUME Peer(c), wpc[c] # "clear" PROVE Kept
    BY <2>2 DEF Peer, PeerSend, PeerEnd, PeerResume, tree, worker
  <2>3. ASSUME InsertDown(c) \/ InsertLeaf(c) \/ InsertNull(c) PROVE Kept
    BY <2>3 DEF InsertDown, InsertLeaf, InsertNull, tree, worker
  <2>4. ASSUME Read(c) \/ Lookup(c) PROVE Kept
    BY <2>4 DEF Read, ReadNoRequest, ReadRefused, ReadLogin, Lookup, FindLeft, FindRight, FindNull, FindFlag,
         FoundNothing, CheckFound, tree
  <2>5. ASSUME WriteBanner(c) \/ Lock(c) \/ WriteSuccess(c) \/ WriteExists(c) \/ Shutdown(c)
        PROVE  Kept
    BY <2>5 DEF WriteBanner, Lock, WriteSuccess, WriteExists, Shutdown, tree
  <2>6. CASE Peer(c) /\ wpc[c] = "clear"
    BY <1>1, <2>6 DEF Peer, PeerSend, PeerEnd, PeerResume, tree, worker, SenderInv, Live, Owner, Relying
  <2>7. CASE Kept
    BY <1>1, <2>7 DEF SenderInv, Live, Owner, Ownership, Seated, Grounded, Relying
  <2> HIDE DEF IInv, TypeInv, TypeOK, At, Goto, Kept
  <2>8. \/ Accept(c) \/ Peer(c) \/ InsertDown(c) \/ InsertLeaf(c) \/ InsertNull(c)
        \/ Read(c) \/ Lookup(c) \/ WriteBanner(c) \/ Lock(c) \/ WriteSuccess(c)
        \/ WriteExists(c) \/ Shutdown(c)
    BY <1>6 DEF Worker
  <2> QED
    BY <2>1, <2>2, <2>3, <2>4, <2>5, <2>6, <2>7, <2>8
<1>7. \/ InsertReuse(c) \/ InsertFirst(c) \/ InsertLink(c) \/ InsertClear(c)
      \/ RemoveSession(c) \/ InsertDown(c) \/ InsertLeaf(c) \/ InsertNull(c)
      \/ ~Insert(c) /\ ~RemoveSession(c)
  BY DEF Insert
<1> HIDE DEF IInv, TypeInv, TypeOK, At, Goto
<1> QED
  BY <1>2, <1>3, <1>4, <1>5, <1>6, <1>7

\* Every step keeps it.
LEMMA SenderStep == IInv /\ SenderInv /\ [Next]_vars => SenderInv'
<1> SUFFICES ASSUME IInv, SenderInv, [Next]_vars PROVE SenderInv'
  OBVIOUS
<1>1. CASE Next
  BY <1>1, SenderPoller, SenderOthers DEF Next
<1>2. CASE UNCHANGED vars
  BY <1>2 DEF vars, tree, worker, poller, SenderInv, Live, Owner, Relying
<1> QED
  BY <1>1, <1>2

\* The sender named in a message, and the session that ends, are those that
\* were read from, unless remove() took that session away meanwhile.
THEOREM SenderTheorem == Spec => []SenderStays
<1>1. Init => SenderInv
  BY DEF Init, SenderInv, Relying
<1>2. SenderInv => SenderStays
  BY DEF SenderInv, SenderStays, Relying
<1> QED
  BY <1>1, <1>2, SenderStep, Invariant, PTL DEF Spec

-----------------------------------------------------------------------------
(* Descriptors.                                                             *)

\* Whatever remove() takes away: what the poller handles or ends, or is about to
\* answer, is a connection in the tree that is open, and only connections that
\* have been in the tree, or were refused, are closed.
CloseInv ==
  /\ ppc \in {"handle", "find", "less", "flag", "check", "deliver", "close"} =>
       Owner(pat) \notin closed
  /\ ppc = "reply" => pto \notin closed /\ pto \in Seated
  /\ \A c \in closed : wpc[c] \in {"clear", "success", "served", "finished"}

\* The poller closes what it stands on, which is in the tree.
LEMMA ClosePoller ==
  ASSUME IInv, CloseInv, Poller
  PROVE  CloseInv'
<1> USE DEF CloseInv, PollerAt, PollerGoto
<1>1. UNCHANGED <<data, wpc>>
  BY DEF Poller, PollerBegin, PollerAdvance, Walk, PollerVisit, PollerRead, PollerHandle,
         PollerFind, PollerCheck, PollerDeliver, PollerWrite, PollerClose, PollerMark,
         Mark, tree, worker
<1>2. ppc # "sleep" => Owner(pat) \in Seated
  BY DEF IInv, TypeInv, Grounded, Ownership
<1>3. pat' = pat => Owner(pat)' = Owner(pat)
  BY <1>1 DEF Owner
<1>4. Seated' = Seated
  BY <1>1 DEF Seated
<1>5. CASE PollerBegin \/ PollerAdvance \/ PollerVisit
  BY <1>1, <1>5 DEF PollerBegin, PollerAdvance, Walk, PollerVisit, network
<1>6. CASE PollerRead
  BY <1>1, <1>3, <1>6 DEF PollerRead, ReadMessage, ReadNothing, ReadEnd
<1>7. CASE PollerHandle
  BY <1>1, <1>2, <1>3, <1>4, <1>7
  DEF PollerHandle, OpenFails, HandleInternal, HandleAdmin, HandleOther,
      HandleListOnline, Reply, Return, network
<1>8. CASE PollerFind \/ PollerCheck \/ PollerDeliver
  BY <1>1, <1>2, <1>3, <1>4, <1>8
  DEF PollerFind, PollerFindLeft, PollerFindRight, PollerFindNull, PollerFindFlag,
      PollerCheck, PollerDeliver, Reply, network
<1>9. CASE PollerWrite \/ PollerMark
  BY <1>1, <1>9 DEF PollerWrite, PollerMark, Return, network
<1>10. CASE PollerClose
  <2>1. closed' = closed \cup {Owner(pat)} /\ ppc = "close" /\ ppc' = "mark"
    BY <1>10 DEF PollerClose
  <2> QED
    BY <1>1, <1>2, <2>1 DEF Seated
<1> QED
  BY <1>5, <1>6, <1>7, <1>8, <1>9, <1>10 DEF Poller

\* A worker that puts its connection into the node that the poller stands on has
\* not closed it, and one that closes its connection has not put it anywhere.
LEMMA CloseOthers ==
  ASSUME IInv, CloseInv, NEW c \in Conns, Accept(c) \/ Peer(c) \/ Worker(c)
  PROVE  CloseInv'
<1>1. Moves(c) /\ Writes(c) /\ Leaves(c)
  BY StepEffect
<1>2. UNCHANGED <<ppc, pat, pto>>
  BY <1>1 DEF Moves, poller
<1>3. closed' = closed \/ (wpc[c] = "shutdown" /\ wpc'[c] = "finished" /\ closed' = closed \cup {c})
  BY <1>1 DEF Leaves
<1>4. /\ \A d \in Conns \ {c} : wpc'[d] = wpc[d]
      /\ wpc[c] \in {"clear", "success", "served", "finished"} =>
           wpc'[c] \in {"clear", "success", "served", "finished"}
      /\ c \in Seated => wpc'[c] \in {"clear", "success", "served"}
  BY <1>1 DEF Moves, Seated
<1>5. closed \subseteq Conns
  BY DEF IInv, TypeInv, TypeOK
<1>6. \A d \in closed' : wpc'[d] \in {"clear", "success", "served", "finished"}
  BY <1>3, <1>4, <1>5 DEF CloseInv
<1>7. ppc = "reply" => pto \notin closed' /\ pto \in Seated'
  BY <1>3, <1>4 DEF CloseInv, Seated
<1>8. ASSUME ppc \in {"handle", "find", "less", "flag", "check", "deliver", "close"}
      PROVE  Owner(pat)' \notin closed'
  <2>1. pat \in DOMAIN data /\ Owner(pat) \in Seated /\ Owner(pat) \notin closed
    BY <1>8 DEF IInv, TypeInv, Grounded, Ownership, CloseInv
  <2>2. CASE data'[pat] = data[pat]
    BY <1>2, <1>3, <2>1, <2>2 DEF Owner, Seated
  <2>3. CASE wpc[c] = "insert" /\ data'[pat] = conn[c]
    <3>1. conn[c].sock_stream = c /\ c \notin closed /\ closed' = closed
      BY <1>3, <2>3 DEF IInv, TypeInv, Grounded, CloseInv
    <3> QED
      BY <1>2, <2>3, <3>1 DEF Owner
  <2> QED
    BY <1>1, <2>1, <2>2, <2>3 DEF Writes
<1> QED
  BY <1>2, <1>6, <1>7, <1>8 DEF CloseInv

LEMMA CloseAlways == Spec => []CloseInv
<1>1. Init => CloseInv
  BY DEF Init, CloseInv
<1>2. IInv /\ CloseInv /\ [Next]_vars => CloseInv'
  <2> SUFFICES ASSUME IInv, CloseInv, [Next]_vars PROVE CloseInv'
    OBVIOUS
  <2>1. CASE Next
    BY <2>1, ClosePoller, CloseOthers DEF Next
  <2>2. CASE UNCHANGED vars
    BY <2>2 DEF vars, tree, worker, poller, network, CloseInv, Owner, Seated
  <2> QED
    BY <2>1, <2>2
<1> QED
  BY <1>1, <1>2, Invariant, PTL DEF Spec

\* As long as remove() has taken no session away: the connections that are
\* closed have been online or were refused, what the poller stands on, has found
\* or is about to write to is online and open, and so is every session but the
\* one that it is about to flag.
OpenInv ==
  evicted = {} =>
    /\ \A c \in closed : wpc[c] \in {"success", "served", "finished"}
    /\ ppc \in Relying => pat \in Live
    /\ ppc \in {"check", "deliver"} => pfound \in Live
    /\ ppc \in {"send", "reply"} => pto \notin closed /\ wpc[pto] \in {"success", "served"}
    /\ \A p \in Live : Owner(p) \in closed => ppc = "mark" /\ pat = p

\* The worker of a live session has published it.
LEMMA LivePublished ==
  ASSUME IInv, NEW p \in Live
  PROVE  Owner(p) \in Conns /\ wpc[Owner(p)] \in {"success", "served"}
<1>1. p \in DOMAIN data /\ p \notin overwrite /\ Owner(p) \in Seated
  BY DEF IInv, Ownership, Live
<1>2. wpc[Owner(p)] # "clear"
  <2> SUFFICES ASSUME wpc[Owner(p)] = "clear" PROVE FALSE
    OBVIOUS
  <2>1. at[Owner(p)] \in overwrite /\ Owner(at[Owner(p)]) = Owner(p)
    BY <1>1 DEF IInv, HalfReused, Seated
  <2>2. at[Owner(p)] \in DOMAIN data
    BY <2>1 DEF IInv, TypeInv, TypeOK
  <2>3. at[Owner(p)] = p
    BY <1>1, <2>1, <2>2 DEF IInv, Ownership
  <2> QED
    BY <1>1, <2>1, <2>3
<1> QED
  BY <1>1, <1>2 DEF Seated

\* The poller's steps: it closes what it then flags.
LEMMA OpenPoller ==
  ASSUME IInv, OpenInv, Poller
  PROVE  OpenInv'
<1> USE DEF OpenInv, Relying, PollerAt, PollerGoto, Live
<1>1. UNCHANGED <<data, wpc>>
  BY DEF Poller, PollerBegin, PollerAdvance, Walk, PollerVisit, PollerRead, PollerHandle,
         PollerFind, PollerCheck, PollerDeliver, PollerWrite, PollerClose, PollerMark,
         Mark, tree, worker
<1>2. \A p \in DOMAIN data : Owner(p)' = Owner(p)
  BY <1>1 DEF Owner
<1>3. \A p \in DOMAIN data \ overwrite : wpc[Owner(p)] \in {"success", "served"}
  BY LivePublished
<1>4. CASE PollerBegin \/ PollerAdvance
  BY <1>1, <1>2, <1>4 DEF PollerBegin, PollerAdvance, Walk, tree, network
<1>5. CASE PollerVisit
  BY <1>1, <1>2, <1>5 DEF PollerVisit, tree, network, IInv, TypeInv, Grounded
<1>6. CASE PollerRead
  BY <1>1, <1>2, <1>6 DEF PollerRead, ReadMessage, ReadNothing, ReadEnd, tree
<1>7. CASE PollerHandle
  BY <1>1, <1>2, <1>3, <1>7
  DEF PollerHandle, OpenFails, HandleInternal, HandleAdmin, HandleOther,
      HandleListOnline, Reply, Return, tree, network
<1>8. CASE PollerFind \/ PollerCheck
  BY <1>1, <1>2, <1>3, <1>8
  DEF PollerFind, PollerFindLeft, PollerFindRight, PollerFindNull, PollerFindFlag,
      PollerCheck, Reply, tree, network, IInv, TypeInv, Grounded
<1>9. CASE PollerDeliver
  BY <1>1, <1>2, <1>3, <1>9 DEF PollerDeliver, tree, network
<1>10. CASE PollerWrite
  BY <1>1, <1>2, <1>10 DEF PollerWrite, Return, tree, network
<1>11. CASE PollerClose
  <2>1. /\ closed' = closed \cup {Owner(pat)} /\ ppc = "close" /\ ppc' = "mark"
        /\ UNCHANGED <<overwrite, pat, evicted>>
    BY <1>11 DEF PollerClose, tree
  <2>2. \A p \in DOMAIN data : Owner(p) = Owner(pat) /\ pat \in DOMAIN data => p = pat
    BY DEF IInv, Ownership
  <2> QED
    BY <1>1, <1>2, <1>3, <2>1, <2>2
<1>12. CASE PollerMark
  BY <1>1, <1>2, <1>12 DEF PollerMark, Mark, Return, network
<1> QED
  BY <1>4, <1>5, <1>6, <1>7, <1>8, <1>9, <1>10, <1>11, <1>12 DEF Poller

\* A step of c that closes nothing and flags nothing keeps the descriptors open,
\* when the nodes that are live by it are live already, or are c's, and c is
\* open and stays where it was published.
LEMMA OpenFrame ==
  ASSUME IInv, OpenInv, NEW c \in Conns,
         UNCHANGED <<poller, closed, evicted>>,
         evicted = {} =>
           /\ Live \subseteq Live'
           /\ \A p \in Live : Owner(p)' = Owner(p)
           /\ \A p \in Live' : p \in Live \/ (Owner(p)' = c /\ c \notin closed),
         \A d \in Conns \ {c} : wpc'[d] = wpc[d],
         wpc[c] \in {"success", "served"} => wpc'[c] \in {"success", "served"},
         wpc[c] = "finished" => wpc'[c] = "finished"
  PROVE  OpenInv'
BY DEF OpenInv, Relying, poller, IInv, TypeInv, TypeOK, Grounded

\* The steps of everybody else.
LEMMA OpenOthers ==
  ASSUME IInv, OpenInv, NEW c \in Conns, Accept(c) \/ Peer(c) \/ Worker(c)
  PROVE  OpenInv'
<1> USE DEF At, Goto
<1>1. wpc \in [Conns -> WorkerPlaces] /\ at \in [Conns -> Places]
      /\ overwrite \subseteq DOMAIN data
  BY DEF IInv, TypeInv, TypeOK
<1>2. evicted = {} /\ wpc[c] \in {"insert", "link", "clear"} => c \notin closed
  BY DEF OpenInv
<1>3. CASE InsertReuse(c)
  <2>1. /\ data' = [data EXCEPT ![at[c]] = conn[c]] /\ at[c] \in overwrite
        /\ UNCHANGED <<overwrite, poller, closed, evicted>>
        /\ wpc[c] = "insert" /\ wpc' = [wpc EXCEPT ![c] = "clear"]
    BY <1>3 DEF InsertReuse, Assign, CanReuse, network
  <2>2. Live' = Live /\ \A p \in Live : Owner(p)' = Owner(p)
    BY <2>1 DEF Live, Owner
  <2> QED
    BY <1>1, <2>1, <2>2, OpenFrame
<1>4. CASE InsertFirst(c) \/ InsertLink(c)
  <2>1. PICK q : data' = [p \in DOMAIN data \cup {q} |-> IF p = q THEN conn[c] ELSE data[p]]
                 /\ q \notin DOMAIN data /\ overwrite' = overwrite
    <3>1. CASE InsertFirst(c)
      <4>1. data = << >> /\ Link(Root, conn[c])
        BY <3>1 DEF InsertFirst
      <4>2. Root \notin DOMAIN data
        BY <4>1
      <4> QED
        BY <4>1, <4>2 DEF Link
    <3>2. CASE InsertLink(c)
      <4>1. Linkable(c) /\ Link(Toward(at[c], conn[c].key), conn[c])
        BY <3>2 DEF InsertLink, IInv, Linking
      <4> QED
        BY <4>1 DEF Linkable, Link
    <3> QED
      BY <1>4, <3>1, <3>2
  <2>2. /\ UNCHANGED <<poller, closed, evicted>>
        /\ wpc[c] \in {"insert", "link"} /\ wpc' = [wpc EXCEPT ![c] = "success"]
    BY <1>4 DEF InsertFirst, InsertLink, Inserted, network
  <2>3. conn[c].sock_stream = c
    BY <2>2 DEF IInv, TypeInv, Grounded
  <2>4. /\ Live \subseteq Live' /\ \A p \in Live : Owner(p)' = Owner(p)
        /\ \A p \in Live' : p \in Live \/ Owner(p)' = c
    BY <2>1, <2>3 DEF Live, Owner
  <2> QED
    BY <1>1, <1>2, <2>2, <2>4, OpenFrame
<1>5. CASE InsertClear(c)
  <2>1. /\ data' = data /\ overwrite' = overwrite \ {at[c]}
        /\ UNCHANGED <<poller, closed, evicted>>
        /\ wpc[c] = "clear" /\ wpc' = [wpc EXCEPT ![c] = "success"]
    BY <1>5 DEF InsertClear, Clear, Inserted, network
  <2>2. Owner(at[c]) = c
    BY <2>1 DEF IInv, HalfReused
  <2>3. /\ Live \subseteq Live' /\ \A p \in Live : Owner(p)' = Owner(p)
        /\ \A p \in Live' : p \in Live \/ Owner(p)' = c
    BY <2>1, <2>2 DEF Live, Owner
  <2> QED
    BY <1>1, <1>2, <2>1, <2>3, OpenFrame
<1>6. CASE RemoveSession(c)
  <2>1. /\ UNCHANGED <<data, poller, closed>>
        /\ wpc[c] = "remove" /\ wpc' = [wpc EXCEPT ![c] = "shutdown"]
        /\ evicted' = {} => evicted = {} /\ overwrite' = overwrite
    BY <1>6 DEF RemoveSession, Mark, tree, network
  <2>2. CASE evicted' # {}
    BY <2>2 DEF OpenInv
  <2>3. CASE evicted' = {}
    <3>1. Live' = Live /\ \A p \in Live : Owner(p)' = Owner(p)
      BY <2>1, <2>3 DEF Live, Owner
    <3> QED
      BY <1>1, <2>1, <2>3, <3>1, OpenFrame
  <2> QED
    BY <2>2, <2>3
<1>7. CASE Shutdown(c)
  <2>1. /\ UNCHANGED <<tree, poller, evicted>> /\ closed' \subseteq closed \cup {c}
        /\ wpc[c] = "shutdown" /\ wpc' = [wpc EXCEPT ![c] = "finished"]
    BY <1>7 DEF Shutdown
  <2>2. Live' = Live /\ \A p \in Live : Owner(p)' = Owner(p) /\ Owner(p) # c
    <3>1. Live' = Live /\ \A p \in Live : Owner(p)' = Owner(p)
      BY <2>1 DEF Live, Owner, tree
    <3>2. \A p \in Live : Owner(p) # c
      BY <2>1, LivePublished
    <3> QED
      BY <3>1, <3>2
  <2> QED
    BY <1>1, <2>1, <2>2 DEF OpenInv, Relying, poller, IInv, TypeInv, TypeOK, Grounded
<1>8. CASE (~Insert(c) /\ ~RemoveSession(c) /\ ~Shutdown(c)) \/ InsertDown(c)
           \/ InsertLeaf(c) \/ InsertNull(c)
  <2> DEFINE Kept == /\ UNCHANGED <<tree, poller, closed, evicted>>
                     /\ \A d \in Conns \ {c} : wpc'[d] = wpc[d]
                     /\ wpc[c] \in {"success", "served"} => wpc'[c] \in {"success", "served"}
                     /\ wpc[c] = "finished" => wpc'[c] = "finished"
  <2>1. ASSUME Accept(c) PROVE Kept
    BY <1>1, <2>1 DEF Accept, network
  <2>2. ASSUME Peer(c) PROVE Kept
    BY <1>1, <2>2 DEF Peer, PeerSend, PeerEnd, PeerResume, worker
  <2>3. ASSUME InsertDown(c) \/ InsertLeaf(c) \/ InsertNull(c) PROVE Kept
    BY <1>1, <2>3 DEF InsertDown, InsertLeaf, InsertNull, worker, network
  <2>4. ASSUME Read(c) \/ Lookup(c) PROVE Kept
    BY <1>1, <2>4 DEF Read, ReadNoRequest, ReadRefused, ReadLogin, Lookup, FindLeft, FindRight, FindNull, FindFlag,
         FoundNothing, CheckFound, network
  <2>5. ASSUME WriteBanner(c) \/ Lock(c) \/ WriteSuccess(c) \/ WriteExists(c)
        PROVE  Kept
    BY <1>1, <2>5 DEF WriteBanner, Lock, WriteSuccess, WriteExists, network
  <2>6. CASE Kept
    <3>1. Live' = Live /\ \A p \in Live : Owner(p)' = Owner(p)
      BY <2>6 DEF Live, Owner, tree
    <3> QED
      BY <2>6, <3>1, OpenFrame
  <2> HIDE DEF At, Goto, Kept
  <2>7. \/ Accept(c) \/ Peer(c) \/ InsertDown(c) \/ InsertLeaf(c) \/ InsertNull(c)
        \/ Read(c) \/ Lookup(c) \/ WriteBanner(c) \/ Lock(c) \/ WriteSuccess(c)
        \/ WriteExists(c)
    BY <1>8 DEF Worker
  <2> QED
    BY <2>1, <2>2, <2>3, <2>4, <2>5, <2>6, <2>7
<1> HIDE DEF At, Goto
<1>9. \/ InsertReuse(c) \/ InsertFirst(c) \/ InsertLink(c) \/ InsertClear(c)
      \/ RemoveSession(c) \/ Shutdown(c) \/ InsertDown(c) \/ InsertLeaf(c) \/ InsertNull(c)
      \/ ~Insert(c) /\ ~RemoveSession(c) /\ ~Shutdown(c)
  BY DEF Insert
<1> QED
  BY <1>3, <1>4, <1>5, <1>6, <1>7, <1>8, <1>9

\* The descriptors' invariant holds in every reachable state.
LEMMA OpenAlways == Spec => [](IInv /\ OpenInv)
<1>1. Init => OpenInv
  BY DEF Init, EmptyTree, OpenInv, Relying, Live
<1>2. IInv /\ OpenInv /\ [Next]_vars => OpenInv'
  <2> SUFFICES ASSUME IInv, OpenInv, [Next]_vars PROVE OpenInv'
    OBVIOUS
  <2>1. CASE Next
    BY <2>1, OpenPoller, OpenOthers DEF Next
  <2>2. CASE UNCHANGED vars
    BY <2>2 DEF vars, tree, worker, poller, network, OpenInv, Live, Owner, Relying
  <2> QED
    BY <2>1, <2>2
<1> QED
  BY <1>1, <1>2, Invariant, PTL DEF Spec

\* No descriptor is closed twice, and no answer goes to a closed one; and nobody
\* uses one at all, unless remove() took a session away or a worker has yet to
\* write its success.
THEOREM OpenTheorem == Spec => []UsedWhileOpen
<1>1. ASSUME IInv, OpenInv, CloseInv PROVE UsedWhileOpen
  <2>1. ASSUME evicted = {}, ppc = "read" PROVE Owner(pat) \notin closed
    BY <1>1, <2>1 DEF OpenInv, Relying
  <2>2. ASSUME evicted = {}
        PROVE  /\ ppc = "send" => pto \notin closed
               /\ \A c \in closed : wpc[c] # "clear"
    BY <1>1, <2>2 DEF OpenInv
  <2> QED
    BY <1>1, <2>1, <2>2 DEF CloseInv, UsedWhileOpen
<1> QED
  BY <1>1, OpenAlways, CloseAlways, PTL

\* Every session is online over an open descriptor, but for the one that the
\* poller is about to flag.
THEOREM OnlineTheorem == Spec => []OnlineIsOpen
<1>1. OpenInv => OnlineIsOpen
  BY DEF OpenInv, OnlineIsOpen
<1> QED
  BY <1>1, OpenAlways, PTL

\* What is in use is open, by a session that is online or by a step that a worker
\* or the poller takes, but for the exceptions that the two properties name.
THEOREM InUseTheorem == Spec => []OpenInUse
<1>1. OnlineIsOpen /\ UsedWhileOpen => OpenInUse
  BY DEF OpenInUse
<1> QED
  BY <1>1, OnlineTheorem, OpenTheorem, PTL

-----------------------------------------------------------------------------
(* The addressee.                                                           *)

Published == {c \in Conns : wpc[c] \in {"success", "served"}}

\* A connection that is published, and in no live node, does not come back.
LEMMA GoneForGood ==
  ASSUME IInv, NEW c \in Conns, wpc[c] \in {"success", "served"}, Online(c) = {},
         [Next]_vars
  PROVE  /\ wpc'[c] \in {"success", "served"} /\ conn'[c] = conn[c]
         /\ Online(c)' = {}
<1>1. CASE Poller \/ UNCHANGED vars
  BY <1>1, PollerEffect DEF worker, Online, Live, Owner
<1>2. ASSUME NEW e \in Conns, Accept(e) \/ Peer(e) \/ Worker(e)
      PROVE  /\ wpc'[c] \in {"success", "served"} /\ conn'[c] = conn[c]
             /\ Online(c)' = {}
  <2>1. Moves(e) /\ Writes(e)
    BY <1>2, StepEffect
  <2>2. wpc'[c] \in {"success", "served"} /\ conn'[c] = conn[c]
    BY <2>1 DEF Moves
  <2>3. ASSUME NEW p \in Online(c)' PROVE FALSE
    <3>1. p \in DOMAIN data' /\ p \notin overwrite' /\ data'[p].sock_stream = c
      BY <2>3 DEF Online, Live, Owner
    <3>2. wpc[e] \in {"insert", "link"} => conn[e].sock_stream = e /\ e # c
      BY DEF IInv, TypeInv, Grounded
    <3>3. p \in DOMAIN data /\ data'[p] = data[p]
      BY <2>1, <3>1, <3>2 DEF Writes
    <3>4. p \in overwrite /\ Owner(p) = c
      BY <3>1, <3>3 DEF Online, Live, Owner
    <3>5. wpc[e] = "clear" /\ p = at[e]
      BY <2>1, <3>1, <3>4 DEF Writes
    <3> QED
      BY <3>4, <3>5 DEF IInv, HalfReused
  <2> QED
    BY <2>2, <2>3
<1> QED
  BY <1>1, <1>2 DEF Next

\* c has been online, and is not any more.
Lost(c) == c \in Published /\ Online(c) = {}

\* Where the poller stands on a node that its find may have to answer, or is about
\* to write to the session that it took there.
Choosing == {"less", "flag", "check", "deliver", "send"}

\* Whose session it is at now.
Chosen == IF ppc = "send" THEN pto ELSE Owner(pfound)

\* It is the one that was there when find came, whose key is then what find has
\* made out, or the one that was there is gone for good; as long as the sender
\* was not taken away.
AddressInv ==
  ppc \in Choosing /\ pmsg.from \notin evicted =>
    /\ pmsg.from \in Seated
    /\ IF Chosen = pseen
         THEN /\ pseen \in Seated
              /\ IF ppc = "less" THEN conn[pseen].key <= Meant ELSE conn[pseen].key = Meant
         ELSE Lost(pseen)

\* While the sender's session is at its node, the name that find reads anew each
\* time is the one meant.
LEMMA AddresseeIsMeant ==
  ASSUME IInv, SenderInv, ppc \in Relying \ {"read"}, pmsg.from \notin evicted
  PROVE  Addressee = Meant /\ pmsg.from \in Seated /\ Meant \in Int
<1>1. pat \in DOMAIN data /\ Owner(pat) = pmsg.from
  BY DEF SenderInv, Relying, IInv, TypeInv, Grounded
<1>2. Owner(pat) \in Seated /\ conn[Owner(pat)] = data[pat]
  BY <1>1 DEF IInv, Ownership
<1>3. data[pat].connect_to \in Names \cup {NoName} /\ pmsg.to \in Names \cup {NoName}
  BY <1>1 DEF IInv, TypeInv, TypeOK, Session
<1> QED
  BY <1>1, <1>2, <1>3, NamesAssumption DEF Addressee, Meant

\* The poller's steps.
LEMMA AddressPoller ==
  ASSUME IInv, SenderInv, AddressInv, Poller
  PROVE  AddressInv'
<1> USE DEF PollerAt, PollerGoto
<1>1. UNCHANGED <<data, wpc, conn, evicted>> /\ Seated' = Seated /\ Published' = Published
  BY PollerEffect DEF worker, Seated, Published
<1>2. ASSUME NEW d \in Conns, Lost(d) PROVE Lost(d)'
  <2>1. wpc[d] \in {"success", "served"} /\ Online(d) = {}
    BY <1>2 DEF Lost, Published
  <2>2. wpc'[d] \in {"success", "served"} /\ Online(d)' = {}
    BY <2>1, GoneForGood DEF Next
  <2> QED
    BY <2>2 DEF Lost, Published
<1>3. CASE PollerFindLeft \/ PollerFindRight
  <2>1. /\ pfound \in DOMAIN data /\ Owner(pfound) \in Seated
        /\ conn[Owner(pfound)] = data[pfound] /\ Key(pfound) \in Int
    BY <1>3, NamesAssumption DEF PollerFindLeft, PollerFindRight, IInv, TypeInv, TypeOK,
       Grounded, Ownership, Session, Key
  <2>2. SUFFICES ASSUME ppc' \in Choosing, pmsg.from \notin evicted
                 PROVE  AddressInv'
    BY <1>1, <1>3 DEF PollerFindLeft, PollerFindRight, AddressInv
  <2>3. Addressee = Meant /\ pmsg.from \in Seated /\ Meant \in Int
    BY <1>3, <2>2, AddresseeIsMeant DEF PollerFindLeft, PollerFindRight, Relying
  <2>4. Meant' = Meant /\ pmsg' = pmsg
    BY <1>1, <1>3 DEF PollerFindLeft, PollerFindRight, Meant
  <2>5. CASE PollerFindLeft
    <3>1. /\ ppc' = "less" /\ pseen' = Owner(pfound) /\ pfound' = pfound
          /\ ~(Key(pfound) > Addressee)
      BY <2>2, <2>5 DEF PollerFindLeft, Choosing
    <3>2. Chosen' = pseen' /\ pseen' \in Seated' /\ conn'[pseen'].key <= Meant'
      BY <1>1, <2>1, <2>3, <2>4, <3>1 DEF Chosen, Owner, Key
    <3> QED
      BY <1>1, <2>3, <2>4, <3>1, <3>2 DEF AddressInv
  <2>6. CASE PollerFindRight
    <3>1. /\ ppc = "less" /\ ppc' = "flag" /\ UNCHANGED <<pseen, pfound>>
          /\ ~(Key(pfound) < Addressee)
      BY <2>2, <2>6 DEF PollerFindRight, Choosing
    <3>2. Chosen = Owner(pfound) /\ Chosen' = Chosen
      BY <1>1, <3>1 DEF Chosen, Owner
    <3>3. CASE Chosen = pseen
      <4>1. conn[pseen].key <= Meant /\ pseen \in Seated
        BY <2>2, <3>1, <3>3 DEF AddressInv, Choosing
      <4>2. conn[pseen].key = Key(pfound)
        BY <2>1, <3>2, <3>3 DEF Key
      <4>3. conn[pseen].key = Meant
        BY <2>1, <2>3, <3>1, <4>1, <4>2
      <4> QED
        BY <1>1, <2>3, <2>4, <3>1, <3>2, <3>3, <4>1, <4>3 DEF AddressInv
    <3>4. CASE Chosen # pseen
      <4>1. Lost(pseen)
        BY <2>2, <3>1, <3>4 DEF AddressInv, Choosing
      <4>2. PICK d \in Conns : d = pseen
        BY <4>1 DEF Lost, Published
      <4>3. Lost(d)' /\ pseen' = d
        BY <1>2, <3>1, <4>1, <4>2
      <4> QED
        BY <1>1, <2>3, <2>4, <3>1, <3>2, <3>4, <4>2, <4>3 DEF AddressInv
    <3> QED
      BY <3>3, <3>4
  <2> QED
    BY <1>3, <2>5, <2>6
<1>4. CASE /\ ppc \in {"flag", "check", "deliver"} /\ ppc' \in {"check", "deliver", "send"}
           /\ UNCHANGED <<pmsg, pseen>> /\ Chosen' = Chosen
  <2>1. Meant' = Meant
    BY <1>1, <1>4 DEF Meant
  <2>2. CASE pmsg.from \notin evicted /\ Chosen # pseen
    <3>1. PICK d \in Conns : d = pseen /\ Lost(d)
      BY <1>4, <2>2 DEF AddressInv, Choosing, Lost, Published
    <3>2. Lost(d)'
      BY <1>2, <3>1
    <3> QED
      BY <1>1, <1>4, <2>1, <2>2, <3>1, <3>2 DEF AddressInv, Choosing
  <2> QED
    BY <1>1, <1>4, <2>1, <2>2 DEF AddressInv, Choosing
<1>5. CASE PollerFindFlag \/ PollerCheck \/ PollerDeliver
  <2>1. CASE ppc' = "reply"
    BY <2>1 DEF AddressInv, Choosing
  <2>2. CASE ppc' # "reply"
    BY <1>1, <1>4, <1>5, <2>2
    DEF PollerFindFlag, PollerCheck, PollerDeliver, Reply, Chosen, Owner
  <2> QED
    BY <2>1, <2>2
<1>6. CASE (~PollerFind /\ ~PollerCheck /\ ~PollerDeliver) \/ PollerFindNull
  <2>1. ppc' \notin Choosing
    BY <1>6 DEF Poller, PollerBegin, PollerAdvance, Walk, PollerVisit, PollerRead,
                ReadMessage, ReadNothing, ReadEnd, PollerHandle, OpenFails, HandleInternal,
                HandleAdmin, HandleOther, HandleListOnline, Reply, Return, PollerFindNull,
                PollerWrite, PollerClose, PollerMark, Choosing
  <2> QED
    BY <2>1 DEF AddressInv
<1> QED
  BY <1>3, <1>5, <1>6 DEF PollerFind

\* The steps of everybody else: one that reuses the node takes it from a session
\* that is gone.
LEMMA AddressOthers ==
  ASSUME IInv, SenderInv, AddressInv, NEW c \in Conns, Accept(c) \/ Peer(c) \/ Worker(c)
  PROVE  AddressInv'
<1>1. Moves(c) /\ Writes(c) /\ Leaves(c)
  BY StepEffect
<1>2. UNCHANGED <<ppc, pat, pmsg, pfound, pseen, pto>>
  BY <1>1 DEF Moves, poller
<1>3. \A d \in Seated : d \in Seated' /\ conn'[d] = conn[d]
  BY <1>1 DEF Moves, Seated
<1>4. ASSUME NEW d \in Conns, Lost(d) PROVE Lost(d)'
  <2>1. wpc[d] \in {"success", "served"} /\ Online(d) = {}
    BY <1>4 DEF Lost, Published
  <2>2. wpc'[d] \in {"success", "served"} /\ Online(d)' = {}
    BY <2>1, GoneForGood DEF Next
  <2> QED
    BY <2>2 DEF Lost, Published
<1>5. evicted \subseteq evicted'
  BY <1>1 DEF Leaves, RemoveSession
<1>6. SUFFICES ASSUME ppc \in Choosing, pmsg.from \notin evicted
               PROVE  AddressInv'
  BY <1>2, <1>5 DEF AddressInv
<1>7. pmsg.from \in Seated /\ pmsg.from \in Seated' /\ Meant' = Meant
  BY <1>2, <1>3, <1>6 DEF AddressInv, Meant
<1>8. CASE Chosen' = Chosen
  <2>1. CASE Chosen = pseen
    BY <1>2, <1>3, <1>6, <1>7, <1>8, <2>1 DEF AddressInv
  <2>2. CASE Chosen # pseen
    <3>1. PICK d \in Conns : d = pseen /\ Lost(d)
      BY <1>6, <2>2 DEF AddressInv, Lost, Published
    <3>2. Lost(d)'
      BY <1>4, <3>1
    <3> QED
      BY <1>2, <1>7, <1>8, <2>2, <3>1, <3>2 DEF AddressInv
  <2> QED
    BY <2>1, <2>2
<1>9. CASE Chosen' # Chosen
  <2>1. ppc # "send" /\ pfound \in DOMAIN data /\ Chosen = Owner(pfound)
        /\ Chosen' = data'[pfound].sock_stream /\ data'[pfound] # data[pfound]
    BY <1>2, <1>6, <1>9 DEF Chosen, Owner, Choosing, IInv, TypeInv, Grounded
  <2>2. wpc[c] = "insert" /\ pfound \in overwrite /\ data'[pfound] = conn[c]
    BY <1>1, <2>1 DEF Writes
  <2>3. Chosen' = c /\ \A d \in Conns : wpc[d] # "clear"
    BY <2>1, <2>2 DEF IInv, TypeInv, Grounded
  <2>4. PICK d \in Conns : d = pseen /\ d # c /\ Lost(d)
    <3>1. CASE Chosen = pseen
      <4>1. Chosen \in Published
        BY <2>1, <2>3 DEF IInv, Ownership, Seated, Published
      <4>2. Online(Chosen) = {}
        BY <2>1, <2>2 DEF Online, Live, IInv, Ownership
      <4> QED
        BY <2>2, <3>1, <4>1, <4>2 DEF Lost, Published
    <3>2. CASE Chosen # pseen
      BY <1>6, <2>2, <3>2 DEF AddressInv, Lost, Published
    <3> QED
      BY <3>1, <3>2
  <2>5. Lost(d)'
    BY <1>4, <2>4
  <2> QED
    BY <1>2, <1>7, <2>3, <2>4, <2>5 DEF AddressInv
<1> QED
  BY <1>8, <1>9

\* A message goes to a session of the name that it is meant for, unless the one
\* that find came to has ended and another has been put in its place, or remove()
\* took the sender's session away.
THEOREM AddresseeTheorem == Spec => []ReachesAddressee
<1>1. Init => SenderInv /\ AddressInv
  BY DEF Init, SenderInv, Relying, AddressInv, Choosing
<1>2. IInv /\ SenderInv /\ AddressInv /\ [Next]_vars => AddressInv'
  <2> SUFFICES ASSUME IInv, SenderInv, AddressInv, [Next]_vars PROVE AddressInv'
    OBVIOUS
  <2>1. CASE Next
    BY <2>1, AddressPoller, AddressOthers DEF Next
  <2>2. CASE UNCHANGED vars
    BY <2>2 DEF vars, tree, worker, poller, AddressInv, Chosen, Meant, Published, Seated,
                Lost, Online, Live, Owner
  <2> QED
    BY <2>1, <2>2
<1>3. ASSUME AddressInv PROVE ReachesAddressee
  <2>1. ASSUME NEW c \in Conns, Lost(c) PROVE directory[c] = Former
    <3>1. Standing(c) = Former
      BY <2>1 DEF Lost, Published, Standing
    <3> QED
      BY <3>1 DEF directory
  <2>2. Lost(pseen) => pseen \in Conns
    BY DEF Lost, Published
  <2> QED
    BY <1>3, <2>1, <2>2 DEF AddressInv, Choosing, Chosen, ReachesAddressee
<1> QED
  BY <1>1, <1>2, <1>3, SenderStep, Invariant, PTL DEF Spec

-----------------------------------------------------------------------------
(* How the process ends.                                                    *)

\* A worker's insert begins at the root, and comes to a null link that it does
\* not fill only below a session of its own name that another worker published.
NullInv ==
  /\ data # << >> => Root \in DOMAIN data
  /\ \A c \in Conns : wpc[c] \in {"lock", "insert"} /\ at[c] # Root =>
       /\ wpc[c] = "insert" /\ data # << >>
       /\ at[c] \in DOMAIN data \/ \E d \in Published \ {c} : conn[d].key = conn[c].key

\* A worker's own steps keep what is said of it.
LEMMA NullOwn ==
  ASSUME IInv, NullInv, NEW c \in Conns, Accept(c) \/ Peer(c) \/ Worker(c),
         wpc'[c] \in {"lock", "insert"}, at'[c] # Root
  PROVE  /\ wpc'[c] = "insert" /\ data' # << >>
         /\ at'[c] \in DOMAIN data' \/ \E d \in Published \ {c} : conn[d].key = conn'[c].key
<1> USE DEF IInv, TypeInv, TypeOK, At, Goto, NullInv
<1>1. CASE InsertDown(c)
  <2>1. /\ at[c] \in DOMAIN data /\ UNCHANGED <<data, wpc, conn>> /\ wpc[c] = "insert"
        /\ at'[c] = Toward(at[c], conn[c].key)
        /\ ~CanLink(at[c], conn[c].key) /\ ~CanReuse(at[c], conn[c].key)
    BY <1>1 DEF InsertDown, tree
  <2>2. data # << >>
    BY <2>1
  <2>3. CASE at'[c] \notin DOMAIN data
    <3>1. at[c] \in Live /\ Key(at[c]) = conn[c].key
      BY <2>1, <2>3 DEF CanLink, CanReuse, Live
    <3>2. /\ Owner(at[c]) \in Conns /\ wpc[Owner(at[c])] \in {"success", "served"}
          /\ conn[Owner(at[c])] = data[at[c]]
      BY <3>1, LivePublished DEF Ownership, Live
    <3>3. Owner(at[c]) \in Published \ {c} /\ conn[Owner(at[c])].key = conn[c].key
      BY <2>1, <3>1, <3>2 DEF Published, Key
    <3> QED
      BY <2>1, <2>2, <3>3
  <2> QED
    BY <2>1, <2>2, <2>3
<1>2. CASE InsertNull(c)
  BY <1>2 DEF InsertNull, tree, worker
<1>3. CASE Peer(c)
  BY <1>3 DEF Peer, PeerSend, PeerEnd, PeerResume, tree, worker
<1>4. CASE Lock(c)
  BY <1>4 DEF Lock, tree
<1>5. CASE Lookup(c)
  BY <1>5 DEF Lookup, FindLeft, FindRight, FindNull, FindFlag,
         FoundNothing, CheckFound, tree
<1>6. CASE InsertFirst(c) \/ InsertLeaf(c) \/ InsertLink(c) \/ InsertReuse(c) \/ InsertClear(c)
  BY <1>6 DEF InsertFirst, InsertLeaf, InsertLink, InsertReuse, InsertClear, Inserted
<1>7. CASE Accept(c) \/ WriteBanner(c) \/ Read(c)
  BY <1>7 DEF Accept, WriteBanner, Read, ReadNoRequest, ReadRefused, ReadLogin
<1>8. CASE WriteSuccess(c) \/ WriteExists(c) \/ RemoveSession(c) \/ Shutdown(c)
  BY <1>8 DEF WriteSuccess, WriteExists, RemoveSession, Shutdown
<1> QED
  BY <1>1, <1>2, <1>3, <1>4, <1>5, <1>6, <1>7, <1>8 DEF Worker, Insert

\* Nobody's step makes a node vanish, the root excepted from nothing, or a
\* published worker change.
LEMMA NothingVanishes ==
  ASSUME IInv, NullInv, [Next]_vars
  PROVE  /\ DOMAIN data \subseteq DOMAIN data'
         /\ data' # << >> => Root \in DOMAIN data'
         /\ \A d \in Published : d \in Published' /\ conn'[d] = conn[d]
<1> USE DEF IInv, TypeInv, TypeOK, At, Goto, NullInv
<1>1. CASE Poller \/ UNCHANGED vars
  BY <1>1 DEF Poller, PollerBegin, PollerAdvance, Walk, PollerVisit, PollerRead,
     PollerHandle, PollerFind, PollerCheck, PollerDeliver, PollerWrite, PollerClose,
     PollerMark, Mark, tree, worker, vars, Published
<1>2. ASSUME NEW c \in Conns, Accept(c) \/ Peer(c) \/ Worker(c)
      PROVE  /\ DOMAIN data \subseteq DOMAIN data'
             /\ data' # << >> => Root \in DOMAIN data'
             /\ \A d \in Published : d \in Published' /\ conn'[d] = conn[d]
  <2>1. CASE Accept(c) \/ Peer(c) \/ WriteBanner(c) \/ Read(c)
    BY <2>1 DEF Published, Accept, Peer, PeerSend, PeerEnd, PeerResume, WriteBanner, Read,
                ReadNoRequest, ReadRefused, ReadLogin, tree, worker
  <2>2. CASE Lookup(c) \/ Lock(c) \/ InsertDown(c) \/ InsertLeaf(c) \/ InsertNull(c)
    BY <2>2 DEF Published, Lookup, FindLeft, FindRight, FindNull, FindFlag,
         FoundNothing, CheckFound, Lock, InsertDown,
                InsertLeaf, InsertNull, tree, worker
  <2>3. CASE WriteSuccess(c) \/ WriteExists(c) \/ RemoveSession(c) \/ Shutdown(c)
    BY <2>3 DEF Published, WriteSuccess, WriteExists, RemoveSession, Shutdown, Mark, tree
  <2>4. CASE InsertFirst(c)
    BY <2>4 DEF Published, InsertFirst, Inserted, Link
  <2>5. CASE InsertLink(c)
    <3>1. at[c] \in DOMAIN data /\ wpc[c] = "link" /\ conn' = conn
          /\ \A d \in Conns \ {c} : wpc'[d] = wpc[d]
      BY <2>5 DEF InsertLink, Inserted, Grounded
    <3>2. DOMAIN data \subseteq DOMAIN data' /\ data # << >>
      BY <2>5, <3>1 DEF InsertLink, Link
    <3> QED
      BY <3>1, <3>2 DEF Published
  <2>6. CASE InsertReuse(c)
    BY <2>6 DEF Published, InsertReuse, Assign
  <2>7. CASE InsertClear(c)
    BY <2>7 DEF Published, InsertClear, Clear, Inserted
  <2> QED
    BY <1>2, <2>1, <2>2, <2>3, <2>4, <2>5, <2>6, <2>7 DEF Worker, Insert
<1> QED
  BY <1>1, <1>2 DEF Next

LEMMA NullStep == IInv /\ NullInv /\ [Next]_vars => NullInv'
<1> SUFFICES ASSUME IInv, NullInv, [Next]_vars PROVE NullInv'
  OBVIOUS
<1>1. /\ DOMAIN data \subseteq DOMAIN data'
      /\ data' # << >> => Root \in DOMAIN data'
      /\ \A d \in Published : d \in Published' /\ conn'[d] = conn[d]
  BY NothingVanishes
<1>2. data # << >> => data' # << >>
  BY <1>1 DEF NullInv
<1>3. ASSUME NEW c \in Conns, wpc'[c] \in {"lock", "insert"}, at'[c] # Root
      PROVE  /\ wpc'[c] = "insert" /\ data' # << >>
             /\ at'[c] \in DOMAIN data' \/ \E d \in Published' \ {c} : conn'[d].key = conn'[c].key
  <2>1. CASE Accept(c) \/ Peer(c) \/ Worker(c)
    <3>1. /\ wpc'[c] = "insert" /\ data' # << >>
          /\ at'[c] \in DOMAIN data' \/ \E d \in Published \ {c} : conn[d].key = conn'[c].key
      BY <1>3, <2>1, NullOwn
    <3> QED
      BY <1>1, <3>1
  <2>2. CASE wpc'[c] = wpc[c] /\ at'[c] = at[c] /\ conn'[c] = conn[c]
    BY <1>1, <1>2, <1>3, <2>2 DEF NullInv
  <2>3. CASE Poller \/ UNCHANGED vars
    <3>1. UNCHANGED worker
      BY <2>3 DEF Poller, PollerBegin, PollerAdvance, Walk, PollerVisit, PollerRead,
         PollerHandle, PollerFind, PollerCheck, PollerDeliver, PollerWrite, PollerClose,
         PollerMark, vars
    <3> QED
      BY <2>2, <3>1 DEF worker
  <2>4. ASSUME NEW e \in Conns \ {c}, Accept(e) \/ Peer(e) \/ Worker(e)
        PROVE  wpc'[c] = wpc[c] /\ at'[c] = at[c] /\ conn'[c] = conn[c]
    <3> USE DEF IInv, TypeInv, TypeOK, At, Goto
    <3>1. CASE Accept(e) \/ Peer(e) \/ WriteBanner(e) \/ Read(e)
      BY <3>1 DEF Accept, Peer, PeerSend, PeerEnd, PeerResume, WriteBanner, Read,
                  ReadNoRequest, ReadRefused, ReadLogin, worker
    <3>2. CASE Lookup(e) \/ Lock(e) \/ Insert(e)
      BY <3>2 DEF Lookup, FindLeft, FindRight, FindNull, FindFlag,
         FoundNothing, CheckFound, Lock, Insert, InsertFirst,
         InsertDown, InsertLeaf, InsertLink, InsertReuse, InsertClear, Inserted, InsertNull, worker
    <3>3. CASE WriteSuccess(e) \/ WriteExists(e) \/ RemoveSession(e) \/ Shutdown(e)
      BY <3>3 DEF WriteSuccess, WriteExists, RemoveSession, Shutdown
    <3> QED
      BY <2>4, <3>1, <3>2, <3>3 DEF Worker
  <2> QED
    BY <2>1, <2>2, <2>3, <2>4 DEF Next
<1> QED
  BY <1>1, <1>3 DEF NullInv

\* A process that has ended takes no step; and the steps that end it.
LEMMA EndsStep ==
  ASSUME IInv, SenderInv, NullInv, EndsExplained, [Next]_vars
  PROVE  EndsExplained'
<1> USE DEF IInv, TypeInv, TypeOK, At, Goto, PollerAt
<1>1. CASE fault' \in {"none"}
  BY <1>1 DEF EndsExplained
<1>2. CASE UNCHANGED vars
  BY <1>2 DEF vars, worker, poller, network, EndsExplained
<1>3. ASSUME NEW c \in Conns, WriteBefore(c, "none") \/ WriteBefore(c, "freed"), peer' = peer,
             fault' # "freed"
      PROVE  EndsExplained'
  BY <1>3 DEF WriteBefore, EndsExplained
<1>4. ASSUME NEW c \in Conns, Accept(c) \/ Peer(c) \/ Worker(c), fault' # "none"
      PROVE  EndsExplained'
  <2>1. CASE InsertNull(c)
    <3>1. /\ wpc[c] = "insert" /\ data # << >> /\ at[c] \notin DOMAIN data
          /\ fault' = "null" /\ UNCHANGED worker
      BY <2>1 DEF InsertNull
    <3>2. PICK d \in Published \ {c} : conn[d].key = conn[c].key
      BY <3>1 DEF NullInv
    <3> QED
      BY <3>1, <3>2 DEF EndsExplained, Published, worker
  <2>2. CASE \/ WriteBanner(c) \/ ReadNoRequest(c) \/ ReadRefused(c)
             \/ WriteSuccess(c) \/ WriteExists(c) \/ Shutdown(c)
    <3>1. Write(c) /\ peer' = peer
      BY <1>4, <2>2 DEF WriteBanner, ReadNoRequest, ReadRefused, MayWrite, WriteSuccess,
                        WriteExists, Shutdown, network
    <3>2. fault' # "freed"
      BY <3>1 DEF Write, WriteBefore
    <3> QED
      BY <1>3, <3>1, <3>2 DEF Write
  <2>3. ~Accept(c) /\ ~Peer(c) /\ ~ReadLogin(c) /\ ~Lookup(c) /\ ~Lock(c)
        /\ ~RemoveSession(c)
    BY <1>4 DEF Accept, Peer, PeerSend, PeerEnd, PeerResume, ReadLogin, Lookup,
       FindLeft, FindRight, FindNull, FindFlag,
         FoundNothing, CheckFound, Lock, RemoveSession
  <2>4. /\ ~InsertFirst(c) /\ ~InsertDown(c) /\ ~InsertLeaf(c) /\ ~InsertLink(c)
        /\ ~InsertReuse(c) /\ ~InsertClear(c)
    BY <1>4 DEF InsertFirst, InsertDown, InsertLeaf, InsertLink, InsertReuse, InsertClear, Inserted
  <2> QED
    BY <1>4, <2>1, <2>2, <2>3, <2>4 DEF Worker, Read, Insert
<1>5. ASSUME Poller, fault' # "none"
      PROVE  EndsExplained'
  <2>1. CASE PollerHandle /\ fault' # "freed"
    <3>1. Owner(pat) \in Conns /\ peer' = peer
      BY <2>1 DEF PollerHandle, Grounded, Owner, Session, network
    <3>2. WriteBefore(Owner(pat), "none") \/ WriteBefore(Owner(pat), "freed")
      BY <1>5, <2>1 DEF PollerHandle, Complain, HandleListOnline, Write
    <3> QED
      BY <1>3, <2>1, <3>1, <3>2
  <2>2. CASE PollerHandle /\ fault' = "freed"
    <3>1. pat \in DOMAIN data /\ ppc = "handle" /\ UNCHANGED worker /\ evicted' = evicted
      BY <2>2 DEF PollerHandle, Grounded
    <3>2. data[pat].registered /\ pmsg' = pmsg
      BY <2>2 DEF PollerHandle, Complain, HandleListOnline, Write, WriteBefore
    <3>3. conn[Owner(pat)].registered
      BY <3>1, <3>2 DEF Ownership
    <3>4. Owner(pat) = pmsg.from \/ pmsg.from \in evicted
      BY <3>1 DEF SenderInv, Relying
    <3> QED
      BY <2>2, <3>1, <3>2, <3>3, <3>4 DEF EndsExplained, worker
  <2>3. CASE PollerWrite
    <3>1. pto \in Conns /\ peer' = peer /\ Write(pto)
      BY <2>3 DEF PollerWrite, Grounded, network
    <3>2. fault' # "freed"
      BY <3>1 DEF Write, WriteBefore
    <3> QED
      BY <1>3, <3>1, <3>2 DEF Write
  <2>4. PollerHandle \/ PollerWrite
    <3>1. ~PollerFind
      BY <1>5 DEF PollerFind, PollerFindLeft, PollerFindRight, PollerFindNull, PollerFindFlag
    <3>2. ~PollerBegin /\ ~PollerAdvance /\ ~PollerVisit /\ ~PollerRead
      BY <1>5 DEF PollerBegin, PollerAdvance, Walk, PollerVisit, PollerRead
    <3>3. ~PollerCheck /\ ~PollerDeliver /\ ~PollerClose /\ ~PollerMark
      BY <1>5 DEF PollerCheck, PollerDeliver, PollerClose, PollerMark
    <3> QED
      BY <1>5, <3>1, <3>2, <3>3 DEF Poller
  <2> QED
    BY <2>1, <2>2, <2>3, <2>4
<1> QED
  BY <1>1, <1>2, <1>4, <1>5 DEF Next

\* Whatever the threads do, the process ends for one of the reasons that
\* EndsExplained names.
THEOREM EndsTheorem == Spec => []EndsExplained
<1>1. Init => NullInv /\ EndsExplained
  BY DEF Init, EmptyTree, NullInv, EndsExplained
<1>2. Init => SenderInv
  BY DEF Init, SenderInv, Relying
<1>3. IInv /\ SenderInv /\ [Next]_vars => SenderInv'
  BY SenderStep
<1>4. IInv /\ SenderInv /\ NullInv /\ EndsExplained /\ [Next]_vars => EndsExplained'
  BY EndsStep
<1> QED
  BY <1>1, <1>2, <1>3, <1>4, NullStep, Invariant, PTL DEF Spec

-----------------------------------------------------------------------------
(* Sessions taken away.                                                     *)

\* The login under whose name a session was taken away stays where it is.
LEMMA NamesakeStays ==
  ASSUME IInv, NEW d \in Conns, wpc[d] \in {"shutdown", "finished"}, [Next]_vars
  PROVE  wpc'[d] \in {"shutdown", "finished"} /\ conn'[d] = conn[d]
<1>1. CASE Poller \/ UNCHANGED vars
  BY <1>1, PollerEffect DEF worker
<1>2. ASSUME NEW e \in Conns, Accept(e) \/ Peer(e) \/ Worker(e)
      PROVE  wpc'[d] \in {"shutdown", "finished"} /\ conn'[d] = conn[d]
  BY <1>2, StepEffect DEF Moves
<1> QED
  BY <1>1, <1>2 DEF Next

\* Whoever remove() takes away is gone for good, and by a login of its own name.
LEMMA EvictedStep ==
  ASSUME IInv, EvictedByNamesake, [Next]_vars
  PROVE  EvictedByNamesake'
<1> DEFINE Gone(c) ==
             /\ wpc[c] \in {"success", "served"} /\ Online(c) = {}
             /\ \E d \in Conns \ {c} :
                  conn[d].key = conn[c].key /\ wpc[d] \in {"shutdown", "finished"}
<1>1. ASSUME NEW c \in evicted PROVE Gone(c)'
  <2>1. c \in Conns /\ Gone(c)
    BY DEF EvictedByNamesake, IInv, TypeInv, TypeOK
  <2>2. PICK d \in Conns \ {c} :
          conn[d].key = conn[c].key /\ wpc[d] \in {"shutdown", "finished"}
    BY <2>1
  <2>3. wpc'[d] \in {"shutdown", "finished"} /\ conn'[d] = conn[d]
    BY <2>2, NamesakeStays
  <2>4. /\ wpc'[c] \in {"success", "served"} /\ conn'[c] = conn[c]
        /\ Online(c)' = {}
    BY <2>1, GoneForGood
  <2> QED
    BY <2>2, <2>3, <2>4
<1>2. ASSUME NEW c \in evicted' \ evicted PROVE Gone(c)'
  <2>1. PICK e \in Conns : RemoveSession(e)
    <3>1. Poller \/ UNCHANGED vars => evicted' = evicted
      BY PollerEffect
    <3>2. PICK e \in Conns : Accept(e) \/ Peer(e) \/ Worker(e)
      BY <1>2, <3>1 DEF Next
    <3> QED
      BY <1>2, <3>2, StepEffect DEF Leaves
  <2>2. PICK p \in Find(conn[e].key) : Mark(p) /\ evicted' = evicted \cup {Owner(p)}
    BY <1>2, <2>1 DEF RemoveSession
  <2>3. c = Owner(p) /\ p \in Live /\ Key(p) = conn[e].key
    BY <1>2, <2>2 DEF Find
  <2>4. c \in Conns /\ wpc[c] \in {"success", "served"} /\ conn[c] = data[p]
    BY <2>3, LivePublished DEF IInv, Ownership, Live
  <2>5. /\ wpc[e] = "remove" /\ wpc'[e] = "shutdown"
        /\ \A d \in Conns \ {e} : wpc'[d] = wpc[d]
        /\ conn' = conn
    BY <2>1 DEF RemoveSession, At, Goto, IInv, TypeInv, TypeOK
  <2>6. Online(c)' = {}
    BY <2>2, <2>3 DEF Mark, Online, Live, Owner, IInv, Ownership
  <2> QED
    BY <2>3, <2>4, <2>5, <2>6 DEF Key
<1> QED
  BY <1>1, <1>2 DEF EvictedByNamesake

\* A session is taken away by another login under its own name only, and is gone
\* for good.
THEOREM EvictedTheorem == Spec => []EvictedByNamesake
<1>1. Init => EvictedByNamesake
  BY DEF Init, EvictedByNamesake
<1> QED
  BY <1>1, EvictedStep, Invariant, PTL DEF Spec

-----------------------------------------------------------------------------
(* The agreement on descriptors.                                            *)

\* The stage of c, and who holds its descriptor, are all that changes: then it
\* is a step of the agreement if c takes one of these.
LEMMA Agreed ==
  ASSUME NEW c \in Conns,
         \A d \in Conns \ {c} : Stage(d)' = Stage(d) /\ Holder(d)' = Holder(d),
         \/ Stage(c)' = Stage(c) /\ Holder(c)' = Holder(c)
         \/ Stage(c) = "none" /\ Stage(c)' = "running" /\ Holder(c)' = Holder(c)
         \/ /\ Stage(c) = "running" /\ Stage(c)' = "running"
            /\ Holder(c) = "worker" /\ Holder(c)' = "poller"
         \/ /\ Stage(c) = "running" /\ Stage(c)' = "ended"
            /\ Holder(c)' = Holder(c) \/ (Holder(c) = "worker" /\ Holder(c)' = "closed")
         \/ Stage(c)' = Stage(c) /\ Holder(c) = "poller" /\ Holder(c)' = "closed"
  PROVE  [Con!Next]_(Con!vars)
<1> DEFINE stages == [d \in Conns |-> Stage(d)]
           holders == [d \in Conns |-> Holder(d)]
<1>1. /\ stages' = [stages EXCEPT ![c] = Stage(c)']
      /\ holders' = [holders EXCEPT ![c] = Holder(c)']
      /\ stages[c] = Stage(c) /\ holders[c] = Holder(c)
  OBVIOUS
<1>2. Stage(c)' = Stage(c) => stages' = stages
  OBVIOUS
<1>3. Holder(c)' = Holder(c) => holders' = holders
  OBVIOUS
<1> QED
  BY <1>1, <1>2, <1>3 DEF Con!Next, Con!vars, Con!Start, Con!Share, Con!End, Con!Close

LEMMA ConWorker ==
  ASSUME IInv, CloseInv, NEW c \in Conns, Accept(c) \/ Peer(c) \/ Worker(c)
  PROVE  [Con!Next]_(Con!vars)
<1>1. Moves(c) /\ Leaves(c)
  BY StepEffect
<1>2. ASSUME NEW d \in Conns \ {c} PROVE Stage(d)' = Stage(d) /\ Holder(d)' = Holder(d)
  BY <1>1 DEF Moves, Leaves, Stage, Holder
<1>3. CASE closed' # closed
  <2>1. /\ wpc[c] = "shutdown" /\ wpc'[c] = "finished" /\ c \in closed' /\ c \notin closed
    BY <1>1, <1>3 DEF Leaves
  <2>2. Stage(c) = "running" /\ Stage(c)' = "ended" /\ Holder(c) = "worker" /\ Holder(c)' = "closed"
    BY <2>1 DEF Stage, Holder
  <2> QED
    BY <1>2, <2>2, Agreed
<1>4. CASE closed' = closed
  <2>1. wpc[c] \notin {"clear", "success", "served", "finished"} => c \notin closed
    BY DEF CloseInv
  <2>2. CASE wpc'[c] = wpc[c]
    BY <1>2, <1>4, <2>2, Agreed DEF Stage, Holder
  <2>3. CASE wpc[c] = "none" /\ wpc'[c] = "banner"
    <3>1. Stage(c) = "none" /\ Stage(c)' = "running" /\ Holder(c)' = Holder(c)
      BY <1>4, <2>3 DEF Stage, Holder
    <3> QED
      BY <1>2, <3>1, Agreed
  <2>4. CASE wpc[c] \in {"insert", "link"} /\ wpc'[c] \in {"clear", "success"}
    <3>1. /\ Stage(c) = "running" /\ Stage(c)' = "running"
          /\ Holder(c) = "worker" /\ Holder(c)' = "poller"
      BY <1>4, <2>1, <2>4 DEF Stage, Holder
    <3> QED
      BY <1>2, <3>1, Agreed
  <2>5. CASE wpc[c] = "clear" /\ wpc'[c] = "success"
    <3>1. Stage(c)' = Stage(c) /\ Holder(c)' = Holder(c)
      BY <1>4, <2>5 DEF Stage, Holder
    <3> QED
      BY <1>2, <3>1, Agreed
  <2>6. CASE \/ wpc[c] = "success" /\ wpc'[c] = "served"
             \/ wpc[c] = "shutdown" /\ wpc'[c] = "finished"
    <3>1. Stage(c) = "running" /\ Stage(c)' = "ended" /\ Holder(c)' = Holder(c)
      BY <1>4, <2>6 DEF Stage, Holder
    <3> QED
      BY <1>2, <3>1, Agreed
  <2>7. CASE /\ wpc[c] \notin {"none", "clear", "success", "served", "finished"}
             /\ wpc'[c] \notin {"none", "clear", "success", "served", "finished"}
    <3>1. Stage(c)' = Stage(c) /\ Holder(c)' = Holder(c)
      BY <1>4, <2>7 DEF Stage, Holder
    <3> QED
      BY <1>2, <3>1, Agreed
  <2> QED
    BY <1>1, <2>2, <2>3, <2>4, <2>5, <2>6, <2>7 DEF Moves
<1> QED
  BY <1>3, <1>4

\* The poller closes what is shared, and does nothing else to descriptors.
LEMMA ConPoller ==
  ASSUME IInv, CloseInv, Poller \/ UNCHANGED vars
  PROVE  [Con!Next]_(Con!vars)
<1>1. UNCHANGED wpc
  BY PollerEffect DEF worker
<1>2. CASE PollerClose
  <2>1. pat \in DOMAIN data /\ ppc = "close" /\ closed' = closed \cup {Owner(pat)}
    BY <1>2 DEF PollerClose, PollerAt, IInv, TypeInv, Grounded
  <2>2. PICK c \in Seated : c = Owner(pat) /\ c \notin closed
    BY <2>1 DEF IInv, Ownership, CloseInv
  <2>3. ASSUME NEW d \in Conns \ {c} PROVE Stage(d)' = Stage(d) /\ Holder(d)' = Holder(d)
    BY <1>1, <2>1, <2>2 DEF Stage, Holder
  <2>4. Stage(c)' = Stage(c) /\ Holder(c) = "poller" /\ Holder(c)' = "closed"
    BY <1>1, <2>1, <2>2 DEF Stage, Holder, Seated
  <2>5. c \in Conns
    BY <2>2 DEF Seated
  <2> QED
    BY <2>3, <2>4, <2>5, Agreed
<1>3. CASE ~PollerClose
  <2>1. closed' = closed
    BY <1>3 DEF Poller, PollerBegin, PollerAdvance, Walk, PollerVisit, PollerRead,
       PollerHandle, PollerFind, PollerCheck, PollerDeliver, PollerWrite, PollerMark,
       network, vars
  <2> QED
    BY <1>1, <2>1 DEF Stage, Holder, Con!vars
<1> QED
  BY <1>2, <1>3

\* Whatever is asked, found, reused and taken away, the threads keep to their
\* agreement on who closes which descriptor.
THEOREM DescriptorsTheorem == Spec => DescriptorsKept
<1>1. Init => Con!Init
  BY DEF Init, Con!Init, Stage, Holder
<1>2. IInv /\ CloseInv /\ [Next]_vars => [Con!Next]_(Con!vars)
  BY ConWorker, ConPoller DEF Next
<1> QED
  BY <1>1, <1>2, Invariant, CloseAlways, PTL DEF Spec, DescriptorsKept, Con!Spec
=============================================================================
