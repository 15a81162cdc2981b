------------------------- MODULE SessionsFindProofs -------------------------
(* Theorems about the searches of Sessions, which go from node to node      *)
(* while other threads insert, flag and reuse nodes.                        *)
EXTENDS SessionsProofs

-----------------------------------------------------------------------------
(* Where searches stand.                                                    *)

\* Every node above p is linked.
Reached(p) == \A n \in 0..(Len(p) - 1) : Up(p, n) \in DOMAIN data

\* A node hangs from linked nodes, and so does the node, or the null link, that
\* a search stands on.
ReachInv ==
  /\ \A p \in DOMAIN data : Reached(p)
  /\ \A c \in Conns : Reached(at[c])
  /\ Reached(pfound)

\* The way to p is the one that k's place is looked for on.
Goes(p, k) == \A n \in 1..Len(p) : p[n] = Side(Up(p, n - 1), k)

\* insert begins at the root, and comes to where it stands by its own key.
InsertInv ==
  \A c \in Conns :
    /\ wpc[c] = "lock" => at[c] = Root
    /\ wpc[c] \in {"insert", "link", "clear"} => Goes(at[c], conn[c].key)

LEMMA RootReached == Reached(Root) /\ \A k : Goes(Root, k)
BY DEF Reached, Goes, Root

\* The child of a node hangs from linked nodes.
LEMMA ChildReached ==
  ASSUME NEW p \in Places, p \in DOMAIN data, Reached(p), NEW side \in Sides
  PROVE  Reached(Append(p, side))
<1> DEFINE c == Append(p, side)
<1>1. Len(p) \in Nat
  BY DEF Places
<1>2. /\ Len(c) = Len(p) + 1
      /\ \A n \in 0..Len(p) : Up(c, n) = Up(p, n)
  BY <1>1, Child
<1>3. ASSUME NEW n \in 0..(Len(c) - 1) PROVE Up(c, n) \in DOMAIN data
  <2>1. CASE n = Len(p)
    BY <1>1, <1>2, <2>1, UpFull
  <2>2. CASE n # Len(p)
    BY <1>1, <1>2, <2>2 DEF Reached
  <2> QED
    BY <2>1, <2>2
<1> QED
  BY <1>3 DEF Reached

LEMMA TowardReached ==
  ASSUME NEW p \in Places, p \in DOMAIN data, Reached(p), NEW k
  PROVE  Reached(Toward(p, k))
BY ChildReached DEF Toward, Side, Sides

\* A step on the way of a key.
LEMMA ChildGoes ==
  ASSUME NEW p \in Places, NEW k, Goes(p, k)
  PROVE  Goes(Toward(p, k), k)
<1> DEFINE c == Append(p, Side(p, k))
<1>1. Side(p, k) \in Sides /\ Len(p) \in Nat
  BY DEF Side, Sides, Places
<1>2. /\ c \in Places /\ Len(c) = Len(p) + 1 /\ c[Len(p) + 1] = Side(p, k)
      /\ \A n \in 1..Len(p) : c[n] = p[n]
      /\ \A n \in 0..Len(p) : Up(c, n) = Up(p, n)
  BY <1>1, Child
<1>3. ASSUME NEW n \in 1..Len(c) PROVE c[n] = Side(Up(c, n - 1), k)
  <2>1. CASE n \in 1..Len(p)
    <3>1. n - 1 \in 0..Len(p) /\ p[n] = Side(Up(p, n - 1), k)
      BY <1>1, <2>1 DEF Goes
    <3> QED
      BY <1>2, <2>1, <3>1
  <2>2. CASE n = Len(p) + 1
    <3>1. Up(c, n - 1) = p
      BY <1>1, <1>2, <2>2, UpFull
    <3> QED
      BY <1>2, <2>2, <3>1
  <2> QED
    BY <1>1, <1>2, <2>1, <2>2
<1> QED
  BY <1>3 DEF Goes, Toward

\* What is linked stays linked.
LEMMA ReachedGrows ==
  ASSUME NEW p, Reached(p), DOMAIN data \subseteq DOMAIN data'
  PROVE  Reached(p)'
BY DEF Reached, Up

\* How a worker's search moves, and where it links a node.
Steps(c) ==
  /\ \/ at'[c] = at[c]
     \/ at'[c] = Root
     \/ at[c] \in DOMAIN data /\ \E side \in Sides : at'[c] = Append(at[c], side)
  /\ \A p \in DOMAIN data' \ DOMAIN data :
       p = Root \/ (at[c] \in DOMAIN data /\ p = Toward(at[c], conn[c].key))

\* How it comes to where insert looks for its key.
Descends(c) ==
  /\ wpc'[c] = "lock" => at'[c] = Root \/ (wpc[c] = "lock" /\ at'[c] = at[c])
  /\ wpc'[c] \in {"insert", "link", "clear"} =>
       /\ wpc[c] \in {"lock", "insert", "link", "clear"} /\ conn'[c] = conn[c]
       /\ \/ at'[c] = at[c]
          \/ wpc[c] = "insert" /\ at'[c] = Toward(at[c], conn[c].key) /\ data' = data

LEMMA SearchEffect ==
  ASSUME IInv, NEW c \in Conns, Accept(c) \/ Peer(c) \/ Worker(c)
  PROVE  Steps(c) /\ Descends(c)
<1>1. /\ wpc \in [Conns -> WorkerPlaces] /\ at \in [Conns -> Places]
      /\ conn \in [Conns -> Session \cup {NoSession}]
  BY DEF IInv, TypeInv, TypeOK
<1> USE DEF At, Goto, tree, Steps, Descends
<1>2. CASE Accept(c) \/ Peer(c)
  BY <1>1, <1>2 DEF Accept, Peer, PeerSend, PeerEnd, PeerResume, worker
<1>3. CASE WriteBanner(c) \/ Read(c) \/ Lock(c)
  BY <1>1, <1>3 DEF WriteBanner, Read, ReadNoRequest, ReadRefused, ReadLogin, Lock
<1>4. CASE Lookup(c)
  BY <1>1, <1>4 DEF Lookup, FindLeft, FindRight, FindNull, FindFlag, FoundNothing,
     CheckFound, Sides, IInv, TypeInv, Grounded
<1>5. CASE InsertDown(c) \/ InsertLeaf(c) \/ InsertNull(c)
  BY <1>1, <1>5 DEF InsertDown, InsertLeaf, InsertNull, worker, Toward, Side, Sides
<1>6. CASE InsertFirst(c)
  BY <1>1, <1>6 DEF InsertFirst, Link, Inserted
<1>7. CASE InsertLink(c)
  BY <1>1, <1>7 DEF InsertLink, Link, Inserted, IInv, TypeInv, Grounded
<1>8. CASE InsertReuse(c) \/ InsertClear(c)
  BY <1>1, <1>8 DEF InsertReuse, Assign, InsertClear, Clear, Inserted
<1>9. CASE WriteSuccess(c) \/ WriteExists(c) \/ Shutdown(c)
  BY <1>1, <1>9 DEF WriteSuccess, WriteExists, Shutdown
<1>10. CASE RemoveSession(c)
  BY <1>1, <1>10 DEF RemoveSession, Mark
<1> QED
  BY <1>2, <1>3, <1>4, <1>5, <1>6, <1>7, <1>8, <1>9, <1>10 DEF Worker, Insert

\* The poller's search.
LEMMA PollerSearch ==
  ASSUME IInv, Poller \/ UNCHANGED vars
  PROVE  \/ pfound' = pfound \/ pfound' = Root
         \/ pfound \in DOMAIN data /\ \E side \in Sides : pfound' = Append(pfound, side)
<1>1. CASE PollerFind
  BY <1>1 DEF PollerFind, PollerFindLeft, PollerFindRight, PollerFindNull, PollerFindFlag,
     Reply, PollerAt, Sides, IInv, TypeInv, Grounded
<1>2. CASE (Poller /\ ~PollerFind) \/ UNCHANGED vars
  BY <1>2 DEF Poller, PollerBegin, PollerAdvance, Walk, PollerVisit, PollerRead, ReadMessage,
       ReadNothing, ReadEnd, PollerHandle, OpenFails, HandleInternal, HandleAdmin,
       HandleOther, HandleListOnline, Reply, Return, PollerCheck,
       PollerDeliver, PollerWrite, PollerClose, PollerMark, vars, poller
<1> QED
  BY <1>1, <1>2

LEMMA ReachStep ==
  ASSUME IInv, ReachInv, [Next]_vars
  PROVE  ReachInv'
<1>0. /\ at \in [Conns -> Places] /\ pfound \in Places
      /\ DOMAIN data \subseteq Places
  BY DEF IInv, TypeInv, TypeOK
<1>1. CASE Poller \/ UNCHANGED vars
  <2>1. data' = data /\ at' = at
    BY <1>1, PollerEffect DEF worker
  <2>2. \A p : Reached(p) => Reached(p)'
    BY <2>1 DEF Reached, Up
  <2>3. Reached(pfound')
    BY <1>0, <1>1, PollerSearch, RootReached, ChildReached DEF ReachInv
  <2>4. PICK p : p = pfound'
    OBVIOUS
  <2>5. Reached(p)'
    BY <2>2, <2>3, <2>4
  <2>6. Reached(pfound)'
    BY <2>4, <2>5 DEF Reached
  <2>7. \A q \in DOMAIN data : Reached(q)'
    BY <2>2 DEF ReachInv
  <2>8. \A c \in Conns : Reached(at[c])'
    BY <2>1 DEF ReachInv, Reached, Up
  <2> QED
    BY <2>1, <2>6, <2>7, <2>8 DEF ReachInv
<1>2. ASSUME NEW e \in Conns, Accept(e) \/ Peer(e) \/ Worker(e)
      PROVE  ReachInv'
  <2>1. Moves(e) /\ Writes(e) /\ Steps(e)
    BY <1>2, StepEffect, SearchEffect
  <2>2. DOMAIN data \subseteq DOMAIN data'
    BY <2>1 DEF Writes
  <2>3. \A p : Reached(p) => Reached(p)'
    BY <2>2, ReachedGrows
  <2>4. pfound' = pfound
    BY <2>1 DEF Moves, poller
  <2>5. Reached(pfound)'
    BY <2>2, <2>4 DEF ReachInv, Reached, Up
  <2>6. at[e] \in DOMAIN data => Reached(Toward(at[e], conn[e].key))
    BY <1>0, TowardReached DEF ReachInv
  <2>61. at[e] \in DOMAIN data => \A side \in Sides : Reached(Append(at[e], side))
    BY <1>0, ChildReached DEF ReachInv
  <2>7. \A p \in DOMAIN data' : Reached(p)
    BY <2>1, <2>6, RootReached DEF Steps, ReachInv
  <2>8. \A c \in Conns : Reached(at'[c])
    BY <2>1, <2>61, RootReached DEF Steps, Moves, ReachInv
  <2>9. ASSUME NEW c \in Conns PROVE Reached(at[c])'
    <3>1. PICK p : p = at'[c]
      OBVIOUS
    <3>2. Reached(p)'
      BY <2>3, <2>8, <3>1
    <3> QED
      BY <3>1, <3>2 DEF Reached
  <2> QED
    BY <2>3, <2>5, <2>7, <2>9 DEF ReachInv
<1> QED
  BY <1>1, <1>2 DEF Next

LEMMA ReachAlways == Spec => []ReachInv
<1>1. Init => ReachInv
  <2> SUFFICES ASSUME Init PROVE ReachInv
    OBVIOUS
  <2>1. DOMAIN data = {} /\ pfound = Root /\ \A c \in Conns : at[c] = Root
    BY DEF Init, EmptyTree
  <2> QED
    BY <2>1, RootReached DEF ReachInv
<1> QED
  BY <1>1, ReachStep, Invariant, PTL DEF Spec

-----------------------------------------------------------------------------
(* What a search answers.                                                   *)

\* Where a search may end it has found the key's session, or there is none.
LEMMA SearchEnds ==
  ASSUME IInv, ReachInv, NEW k, NEW p \in Places, OnSearchPath(p, k),
         p \in DOMAIN data => Key(p) = k
  PROVE  Find(k) = IF p \in Live THEN {p} ELSE {}
<1>0. DOMAIN data \subseteq Places /\ Len(p) \in Nat
  BY DEF IInv, TypeInv, TypeOK, Places
<1>1. CASE p \in DOMAIN data
  <2>1. \A q \in Find(k) : q = p
    BY <1>0, <1>1, OneHolder DEF Find, Live
  <2>2. p \in Live => p \in Find(k)
    BY <1>1 DEF Find
  <2>3. p \in Find(k) => p \in Live
    BY DEF Find
  <2> QED
    BY <2>1, <2>2, <2>3
<1>2. CASE p \notin DOMAIN data
  <2>1. ASSUME NEW q \in Find(k) PROVE FALSE
    <3>1. /\ q \in DOMAIN data /\ q \in Places /\ Len(q) \in Nat
          /\ Key(q) = k /\ OnSearchPath(q, k) /\ Reached(q)
      BY <1>0, <2>1 DEF Find, Live, ReachInv, Places
    <3>2. CASE Len(p) < Len(q)
      <4>1. p = Up(q, Len(p))
        BY <1>0, <3>1, <3>2, OnePath
      <4> QED
        BY <1>0, <1>2, <3>1, <3>2, <4>1 DEF Reached
    <3>3. CASE Len(q) < Len(p)
      <4>1. q = Up(p, Len(q))
        BY <1>0, <3>1, <3>3, OnePath
      <4>2. Len(q) \in 0..(Len(p) - 1)
        BY <1>0, <3>1, <3>3
      <4>3. Key(Up(p, Len(q))) # k
        BY <4>2, OthersAbove
      <4> QED
        BY <3>1, <4>1, <4>3
    <3>4. CASE Len(q) = Len(p)
      <4>1. p = Up(q, Len(q)) /\ Up(q, Len(q)) = q
        BY <1>0, <3>1, <3>4, OnePath, UpFull
      <4> QED
        BY <1>2, <3>1, <4>1
    <3> QED
      BY <1>0, <3>1, <3>2, <3>3, <3>4
  <2> QED
    BY <1>2, <2>1 DEF Live
<1> QED
  BY <1>1, <1>2

\* A search that somebody else's step leads astray has read the key of a node that
\* was flagged, and that this step gave another name.
LEMMA LedAstray ==
  ASSUME NEW l, NEW k, NEW p \in Places, Reached(p), l # "find" => p \in DOMAIN data,
         OnCourse(l, p, k), NEW e \in Conns, Writes(e)
  PROVE  OnCourse(l, p, k)' \/ RenamedOnWay(l, p)
<1> DEFINE last == IF l = "find" THEN Len(p) - 1 ELSE Len(p)
<1>0. Len(p) \in Nat /\ Up(p, Len(p)) = p
  BY UpFull DEF Places
<1>1. CASE \A n \in 0..last : data'[Up(p, n)].key = data[Up(p, n)].key
  <2>1. \A n \in 0..(Len(p) - 1) : Key(Up(p, n))' = Key(Up(p, n))
    BY <1>0, <1>1 DEF Key, Up
  <2>2. OnSearchPath(p, k)'
    BY <2>1, PathKept DEF OnCourse
  <2>3. l # "find" => Key(p)' = Key(p)
    BY <1>0, <1>1 DEF Key
  <2> QED
    BY <2>2, <2>3 DEF OnCourse
<1>2. ASSUME NEW n \in 0..last, data'[Up(p, n)].key # data[Up(p, n)].key
      PROVE  RenamedOnWay(l, p)
  <2>1. Up(p, n) \in DOMAIN data
    <3>1. CASE n = Len(p)
      BY <1>0, <3>1
    <3>2. CASE n # Len(p)
      BY <1>0, <3>2 DEF Reached
    <3> QED
      BY <3>1, <3>2
  <2>2. Up(p, n) \in overwrite
    BY <1>2, <2>1 DEF Writes
  <2> QED
    BY <1>2, <2>2 DEF RenamedOnWay, Up
<1> QED
  BY <1>1, <1>2

\* One step down a course is on it.
LEMMA CourseDown ==
  ASSUME NEW k \in Int, NEW p \in Places, p \in DOMAIN data, Key(p) \in Int,
         OnSearchPath(p, k), NEW side,
         \/ side = "left" /\ Key(p) > k
         \/ side = "right" /\ Key(p) < k,
         NEW q, q = Append(p, side), data' = data
  PROVE  OnSearchPath(q, k)'
<1>1. Key(p) # k /\ Append(p, side) = Toward(p, k)
  BY DEF Toward, Side
<1>2. OnSearchPath(q, k)
  BY <1>1, PathToChild
<1> QED
  BY <1>2 DEF OnSearchPath, Side, Key

\* A worker's own step of its search.
LEMMA FindWorker ==
  ASSUME IInv, ReachInv, NEW c \in Conns, Accept(c) \/ Peer(c) \/ Worker(c),
         NEW k \in Int, NEW p \in Places, wpc[c] \in Searching, at[c] = p,
         conn[c].key = k, OnCourse(wpc[c], p, k)
  PROVE  \/ wpc'[c] \in Searching /\ OnCourse(wpc[c], at[c], k)' /\ conn'[c].key = k
         \/ wpc'[c] = "lock" /\ Find(k) = {}
         \/ wpc'[c] = "check" /\ Find(k) = {p}
<1>1. /\ wpc \in [Conns -> WorkerPlaces] /\ at \in [Conns -> Places]
      /\ p \in DOMAIN data => Key(p) \in Int
      /\ wpc[c] \in {"less", "flag"} => p \in DOMAIN data
  BY NamesAssumption DEF IInv, TypeInv, TypeOK, Grounded, Session, Key
<1>2. OnSearchPath(p, k)
  BY DEF OnCourse
<1>3. CASE Peer(c)
  <2>1. UNCHANGED <<data, wpc, at, conn>>
    BY <1>3 DEF Peer, PeerSend, PeerEnd, PeerResume, tree, worker
  <2> QED
    BY <2>1 DEF OnCourse, OnSearchPath, Side, Key
<1>4. CASE FindLeft(c) \/ FindRight(c)
  <2>1. data' = data /\ conn' = conn /\ p \in DOMAIN data
    BY <1>1, <1>4 DEF FindLeft, FindRight, tree, At
  <2>2. CASE /\ at'[c] # p /\ wpc'[c] = "find"
             /\ \/ at'[c] = Append(p, "left") /\ Key(p) > k
                \/ at'[c] = Append(p, "right") /\ Key(p) < k
    <3>1. PICK q : q = at'[c]
      OBVIOUS
    <3>2. OnSearchPath(q, k)'
      <4>1. CASE q = Append(p, "left") /\ Key(p) > k
        BY <1>1, <1>2, <2>1, <4>1, CourseDown
      <4>2. CASE q = Append(p, "right") /\ Key(p) < k
        BY <1>1, <1>2, <2>1, <4>2, CourseDown
      <4> QED
        BY <2>2, <3>1, <4>1, <4>2
    <3> QED
      BY <2>1, <2>2, <3>1, <3>2 DEF OnCourse, OnSearchPath, Side, Key, Searching
  <2>3. CASE /\ at'[c] = p
             /\ \/ wpc'[c] = "less" /\ Key(p) <= k
                \/ wpc'[c] = "flag" /\ Key(p) = k
    BY <1>2, <2>1, <2>3 DEF OnCourse, OnSearchPath, Side, Key, Searching
  <2>4. Append(p, "left") # p /\ Append(p, "right") # p
    BY DEF Places, Sides
  <2>5. wpc[c] = "less" => Key(p) <= k
    BY DEF OnCourse
  <2>6. CASE FindLeft(c)
    BY <1>1, <2>1, <2>2, <2>3, <2>4, <2>6 DEF FindLeft, At, Goto
  <2>7. CASE FindRight(c)
    BY <1>1, <2>1, <2>2, <2>3, <2>4, <2>5, <2>7 DEF FindRight, At, Goto
  <2> QED
    BY <1>4, <2>6, <2>7
<1>5. CASE FindNull(c) \/ FindFlag(c)
  <2>1. p \in DOMAIN data => Key(p) = k
    BY <1>5 DEF FindNull, FindFlag, At, OnCourse
  <2>2. Find(k) = IF p \in Live THEN {p} ELSE {}
    BY <1>2, <2>1, SearchEnds
  <2> QED
    BY <1>1, <1>5, <2>2 DEF FindNull, FindFlag, FoundNothing, Goto, At, Live
<1>6. FindLeft(c) \/ FindRight(c) \/ FindNull(c) \/ FindFlag(c) \/ Peer(c)
  BY DEF Accept, Worker, WriteBanner, Read, ReadNoRequest, ReadRefused, ReadLogin, Lookup,
         CheckFound, Lock, Insert, InsertFirst, InsertDown, InsertLeaf, InsertLink,
         InsertReuse, InsertClear, InsertNull, WriteSuccess, WriteExists, RemoveSession,
         Shutdown, At, Searching
<1> QED
  BY <1>3, <1>4, <1>5, <1>6

\* The poller's step of its search.
LEMMA FindPoller ==
  ASSUME IInv, ReachInv, Poller,
         NEW k \in Int, NEW p \in Places, ppc \in Searching, pfound = p, Addressee = k,
         OnCourse(ppc, p, k)
  PROVE  /\ Addressee' = k
         /\ \/ ppc' \in Searching /\ OnCourse(ppc, pfound, k)'
            \/ ppc' = "reply" /\ Find(k) = {}
            \/ ppc' = "check" /\ Find(k) = {p}
<1>1. PollerFind
  BY DEF Poller, PollerBegin, PollerAdvance, PollerVisit, PollerRead, PollerHandle,
         PollerCheck, PollerDeliver, PollerWrite, PollerClose, PollerMark, PollerAt, Searching
<1>2. /\ p \in DOMAIN data => Key(p) \in Int
      /\ ppc \in {"less", "flag"} => p \in DOMAIN data
  BY NamesAssumption DEF IInv, TypeInv, TypeOK, Grounded, Session, Key
<1>3. OnSearchPath(p, k)
  BY DEF OnCourse
<1>4. data' = data /\ Addressee' = k
  BY <1>1 DEF PollerFind, PollerFindLeft, PollerFindRight, PollerFindNull, PollerFindFlag,
              Reply, tree, Addressee
<1>5. CASE PollerFindLeft \/ PollerFindRight
  <2>1. p \in DOMAIN data
    BY <1>2, <1>5 DEF PollerFindLeft, PollerFindRight, PollerAt
  <2>2. CASE /\ ppc' = "find"
             /\ \/ pfound' = Append(p, "left") /\ Key(p) > k
                \/ pfound' = Append(p, "right") /\ Key(p) < k
    <3>1. PICK q : q = pfound'
      OBVIOUS
    <3>2. OnSearchPath(q, k)'
      <4>1. CASE q = Append(p, "left") /\ Key(p) > k
        BY <1>2, <1>3, <1>4, <2>1, <4>1, CourseDown
      <4>2. CASE q = Append(p, "right") /\ Key(p) < k
        BY <1>2, <1>3, <1>4, <2>1, <4>2, CourseDown
      <4> QED
        BY <2>2, <3>1, <4>1, <4>2
    <3> QED
      BY <1>4, <2>2, <3>1, <3>2 DEF OnCourse, OnSearchPath, Side, Key, Searching
  <2>3. CASE /\ pfound' = p
             /\ \/ ppc' = "less" /\ Key(p) <= k
                \/ ppc' = "flag" /\ Key(p) = k
    BY <1>3, <1>4, <2>3 DEF OnCourse, OnSearchPath, Side, Key, Searching
  <2>4. ppc = "less" => Key(p) <= k
    BY DEF OnCourse
  <2>5. CASE PollerFindLeft
    BY <1>2, <2>1, <2>2, <2>3, <2>5 DEF PollerFindLeft, PollerAt, PollerGoto
  <2>6. CASE PollerFindRight
    BY <1>2, <2>1, <2>2, <2>3, <2>4, <2>6 DEF PollerFindRight, PollerAt, PollerGoto
  <2> QED
    BY <1>5, <2>5, <2>6
<1>6. CASE PollerFindNull \/ PollerFindFlag
  <2>1. p \in DOMAIN data => Key(p) = k
    BY <1>6 DEF PollerFindNull, PollerFindFlag, PollerAt, OnCourse
  <2>2. Find(k) = IF p \in Live THEN {p} ELSE {}
    BY <1>3, <2>1, SearchEnds
  <2> QED
    BY <1>2, <1>4, <1>6, <2>2
    DEF PollerFindNull, PollerFindFlag, Reply, PollerGoto, PollerAt, Live
<1> QED
  BY <1>1, <1>5, <1>6 DEF PollerFind

\* Everybody's steps, seen by the workers' searches ...
LEMMA FindWorkers ==
  ASSUME IInv, ReachInv, Next, NEW c \in Conns,
         wpc[c] \in Searching, OnCourse(wpc[c], at[c], conn[c].key)
  PROVE  \/ /\ wpc'[c] \in Searching
            /\ OnCourse(wpc[c], at[c], conn[c].key)' \/ RenamedOnWay(wpc[c], at[c])
         \/ wpc'[c] = "lock" /\ Find(conn[c].key) = {}
         \/ wpc'[c] = "check" /\ Find(conn[c].key) = {at[c]}
<1>0. conn[c].key \in Int /\ at[c] \in Places
  BY NamesAssumption DEF IInv, TypeInv, TypeOK, Grounded, Session, Searching
<1>1. PICK k \in Int, p \in Places, l \in Searching : at[c] = p /\ conn[c].key = k /\ wpc[c] = l
  BY <1>0
<1>2. OnCourse(l, p, k) /\ Reached(p) /\ (l # "find" => p \in DOMAIN data)
  BY <1>1 DEF ReachInv, IInv, TypeInv, Grounded, Searching
<1>3. CASE Accept(c) \/ Peer(c) \/ Worker(c)
  <2>1. \/ wpc'[c] \in Searching /\ OnCourse(wpc[c], at[c], k)' /\ conn'[c].key = k
        \/ wpc'[c] = "lock" /\ Find(k) = {}
        \/ wpc'[c] = "check" /\ Find(k) = {p}
    BY <1>1, <1>2, <1>3, FindWorker
  <2> QED
    BY <1>1, <2>1 DEF OnCourse, OnSearchPath, Side, Key, Find
<1>4. ASSUME NEW e \in Conns \ {c}, Accept(e) \/ Peer(e) \/ Worker(e)
      PROVE  /\ wpc'[c] \in Searching
             /\ OnCourse(wpc[c], at[c], conn[c].key)' \/ RenamedOnWay(wpc[c], at[c])
  <2>1. Moves(e) /\ Writes(e)
    BY <1>4, StepEffect
  <2>2. wpc'[c] = l /\ at'[c] = p /\ conn'[c].key = k
    BY <1>1, <1>4, <2>1 DEF Moves
  <2>3. OnCourse(l, p, k)' \/ RenamedOnWay(l, p)
    BY <1>2, <2>1, LedAstray
  <2> QED
    BY <1>1, <2>2, <2>3 DEF OnCourse, OnSearchPath, Side, Key, RenamedOnWay
<1>5. CASE Poller
  <2>1. UNCHANGED <<data, wpc, at, conn>>
    BY <1>5, PollerEffect DEF worker
  <2> QED
    BY <2>1 DEF OnCourse, OnSearchPath, Side, Key
<1> QED
  BY <1>3, <1>4, <1>5 DEF Next

\* ... and by the poller's.
LEMMA FindPollers ==
  ASSUME IInv, ReachInv, Next, ppc \in Searching, OnCourse(ppc, pfound, Addressee)
  PROVE  \/ /\ ppc' \in Searching
            /\ \/ OnCourse(ppc, pfound, Addressee)' \/ RenamedOnWay(ppc, pfound)
               \/ Addressee' # Addressee
         \/ ppc' = "reply" /\ Find(Addressee) = {}
         \/ ppc' = "check" /\ Find(Addressee) = {pfound}
<1>0. Addressee \in Int /\ pfound \in Places
  <2>1. pat \in DOMAIN data
    BY DEF IInv, TypeInv, Grounded, Searching
  <2> QED
    BY <2>1, NamesAssumption DEF IInv, TypeInv, TypeOK, Session, Addressee
<1>1. PICK k \in Int, p \in Places, l \in Searching : pfound = p /\ Addressee = k /\ ppc = l
  BY <1>0
<1>2. OnCourse(l, p, k) /\ Reached(p) /\ (l # "find" => p \in DOMAIN data)
  BY <1>1 DEF ReachInv, IInv, TypeInv, Grounded, Searching
<1>3. CASE Poller
  <2>1. /\ Addressee' = k
        /\ \/ ppc' \in Searching /\ OnCourse(ppc, pfound, k)'
           \/ ppc' = "reply" /\ Find(k) = {}
           \/ ppc' = "check" /\ Find(k) = {p}
    BY <1>1, <1>2, <1>3, FindPoller
  <2> QED
    BY <1>1, <2>1 DEF OnCourse, OnSearchPath, Side, Key, Find
<1>4. ASSUME NEW e \in Conns, Accept(e) \/ Peer(e) \/ Worker(e), Addressee' = Addressee
      PROVE  /\ ppc' \in Searching
             /\ OnCourse(ppc, pfound, Addressee)' \/ RenamedOnWay(ppc, pfound)
  <2>1. Moves(e) /\ Writes(e)
    BY <1>4, StepEffect
  <2>2. ppc' = l /\ pfound' = p /\ Addressee' = k
    BY <1>1, <1>4, <2>1 DEF Moves, poller
  <2>3. OnCourse(l, p, k)' \/ RenamedOnWay(l, p)
    BY <1>2, <2>1, LedAstray
  <2> QED
    BY <1>1, <2>2, <2>3 DEF OnCourse, OnSearchPath, Side, Key, RenamedOnWay
<1>5. ASSUME NEW e \in Conns, Accept(e) \/ Peer(e) \/ Worker(e)
      PROVE  ppc' \in Searching
  <2>1. Moves(e)
    BY <1>5, StepEffect
  <2> QED
    BY <2>1 DEF Moves, poller
<1> QED
  BY <1>3, <1>4, <1>5 DEF Next

\* However many threads change the tree below a search, and between its looks at a
\* key and at a flag, it answers what is so when it ends, unless a login gives a node
\* whose key it has read another name, or its own key is changed.
THEOREM FindTheorem == Spec => FindIsRight
<1>1. IInv /\ ReachInv /\ [Next]_vars => [FindAnswers]_vars
  BY FindWorkers, FindPollers DEF FindAnswers
<1> QED
  BY <1>1, Invariant, ReachAlways, PTL DEF Spec, FindIsRight

-----------------------------------------------------------------------------
(* Where insert puts a session.                                             *)

\* While a worker inserts, nobody else writes to the tree's nodes.
LEMMA InsertAlone ==
  ASSUME IInv, NEW c \in Conns, wpc[c] \in {"insert", "link", "clear"},
         NEW e \in Conns \ {c}, Accept(e) \/ Peer(e) \/ Worker(e)
  PROVE  \A p \in DOMAIN data : data'[p] = data[p]
<1>1. mx = c /\ wpc[e] # "insert"
  BY DEF IInv, TypeInv, Grounded
<1> QED
  BY <1>1, StepEffect DEF Writes

\* The way of a place, read off another tree with the same keys above it.
LEMMA GoesKept ==
  ASSUME NEW k, NEW p, Goes(p, k),
         \A n \in 0..(Len(p) - 1) : data'[Up(p, n)].key = data[Up(p, n)].key
  PROVE  Goes(p, k)'
<1>1. ASSUME NEW n \in 1..Len(p) PROVE p[n] = Side(Up(p, n - 1), k)'
  <2>1. n - 1 \in 0..(Len(p) - 1)
    OBVIOUS
  <2> QED
    BY <2>1 DEF Goes, Side, Key, Up
<1> QED
  BY <1>1 DEF Goes, Up

\* Wherever insert stands, its own key leads there, whatever the others do.
LEMMA InsertStep ==
  ASSUME IInv, ReachInv, InsertInv, [Next]_vars
  PROVE  InsertInv'
<1> SUFFICES ASSUME NEW c \in Conns
             PROVE  /\ wpc'[c] = "lock" => at'[c] = Root
                    /\ wpc'[c] \in {"insert", "link", "clear"} => Goes(at[c], conn[c].key)'
  BY DEF InsertInv
<1>0. PICK k : conn[c].key = k
  OBVIOUS
<1>1. PICK p \in Places : at[c] = p
  BY DEF IInv, TypeInv, TypeOK
<1>2. /\ Reached(p)
      /\ wpc[c] = "lock" => p = Root
      /\ wpc[c] \in {"lock", "insert", "link", "clear"} => Goes(p, k)
  BY <1>0, <1>1, RootReached DEF ReachInv, InsertInv
<1>3. CASE Poller \/ UNCHANGED vars
  <2>1. UNCHANGED <<data, wpc, at, conn>>
    BY <1>3, PollerEffect DEF worker
  <2>2. wpc'[c] \in {"insert", "link", "clear"} => Goes(p, k)'
    BY <1>2, <2>1, GoesKept
  <2> QED
    BY <1>0, <1>1, <1>2, <2>1, <2>2 DEF Goes, Side, Key, Up
<1>4. ASSUME NEW e \in Conns \ {c}, Accept(e) \/ Peer(e) \/ Worker(e)
      PROVE  /\ wpc'[c] = "lock" => at'[c] = Root
             /\ wpc'[c] \in {"insert", "link", "clear"} => Goes(at[c], conn[c].key)'
  <2>1. wpc'[c] = wpc[c] /\ at'[c] = p /\ conn'[c].key = k
    BY <1>0, <1>1, <1>4, StepEffect DEF Moves
  <2>2. ASSUME wpc'[c] \in {"insert", "link", "clear"} PROVE Goes(p, k)'
    <3>1. \A q \in DOMAIN data : data'[q] = data[q]
      BY <1>4, <2>1, <2>2, InsertAlone
    <3> QED
      BY <1>2, <2>1, <2>2, <3>1, GoesKept DEF Reached
  <2> QED
    BY <1>1, <1>2, <2>1, <2>2 DEF Goes, Side, Key, Up
<1>5. CASE Accept(c) \/ Peer(c) \/ Worker(c)
  <2>1. Moves(c) /\ Writes(c) /\ Descends(c)
    BY <1>5, StepEffect, SearchEffect
  <2>2. wpc'[c] = "lock" => at'[c] = Root
    BY <1>1, <1>2, <2>1 DEF Descends
  <2>3. ASSUME wpc'[c] \in {"insert", "link", "clear"}, at'[c] = p, wpc[c] \in {"lock", "insert", "link", "clear"}
        PROVE  Goes(p, k)'
    <3>1. ASSUME NEW n \in 0..(Len(p) - 1) PROVE data'[Up(p, n)].key = data[Up(p, n)].key
      <4>1. Up(p, n) \in DOMAIN data
        BY <1>2 DEF Reached
      <4>2. Len(Up(p, n)) = n /\ Len(p) \in Nat
        BY UpType DEF Places
      <4>3. Up(p, n) # p
        BY <4>2
      <4> QED
        BY <1>1, <2>1, <4>1, <4>3 DEF Writes
    <3> QED
      BY <1>2, <2>3, <3>1, GoesKept
  <2>4. ASSUME wpc[c] = "insert", at'[c] = Toward(p, k), data' = data
        PROVE  \E q : at'[c] = q /\ Goes(q, k)'
    <3>1. PICK q : q = Toward(p, k)
      OBVIOUS
    <3>2. Goes(q, k)
      BY <1>2, <2>4, <3>1, ChildGoes
    <3>3. Goes(q, k)'
      BY <2>4, <3>2, GoesKept
    <3> QED
      BY <2>4, <3>1, <3>3
  <2>5. ASSUME wpc'[c] \in {"insert", "link", "clear"} PROVE Goes(at[c], conn[c].key)'
    <3>1. conn'[c].key = k /\ \E q : at'[c] = q /\ Goes(q, k)'
      BY <1>0, <1>1, <2>1, <2>3, <2>4, <2>5 DEF Descends
    <3> QED
      BY <3>1 DEF Goes, Side, Key, Up
  <2> QED
    BY <2>2, <2>5
<1> QED
  BY <1>3, <1>4, <1>5 DEF Next

LEMMA InsertAlways == Spec => []InsertInv
<1>1. Init => InsertInv
  BY DEF Init, InsertInv
<1> QED
  BY <1>1, InsertStep, Invariant, ReachAlways, PTL DEF Spec

\* A session that its key leads to is found, unless the search stops before it.
LEMMA GoesFinds ==
  ASSUME NEW k, NEW p \in Places, Goes(p, k)', p \in Live', Key(p)' = k
  PROVE  \/ p \in Find(k)'
         \/ \E n \in 0..(Len(p) - 1) : Key(SubSeq(p, 1, n))' = k
<1>1. CASE \A n \in 0..(Len(p) - 1) : Key(SubSeq(p, 1, n))' # k
  <2>1. ASSUME NEW n \in 1..Len(p)
        PROVE  /\ Key(SubSeq(p, 1, n - 1))' # k
               /\ p[n] = Side(SubSeq(p, 1, n - 1), k)'
    <3>1. n - 1 \in 0..(Len(p) - 1)
      BY DEF Places
    <3> QED
      BY <1>1, <3>1 DEF Goes, Up
  <2>2. OnSearchPath(p, k)'
    BY <2>1 DEF OnSearchPath
  <2> QED
    BY <2>2 DEF Find
<1> QED
  BY <1>1

\* Who comes online by this step.
LEMMA OnlineStep ==
  ASSUME IInv, ReachInv, InsertInv, Next
  PROVE  FoundOnline
<1> SUFFICES ASSUME NEW c \in Conns, wpc[c] # "success", wpc'[c] = "success"
             PROVE  \E p \in Live' :
                      /\ Owner(p)' = c
                      /\ \/ p \in Find(conn[c].key)'
                         \/ \E n \in 0..(Len(p) - 1) : Key(SubSeq(p, 1, n))' = conn[c].key
  BY DEF FoundOnline
<1>0. PICK k : conn[c].key = k
  OBVIOUS
<1>1. Accept(c) \/ Peer(c) \/ Worker(c)
  BY StepEffect, PollerEffect DEF Next, Moves, worker
<1>2. wpc[c] \in {"insert", "link", "clear"} /\ conn'[c] = conn[c] /\ Writes(c)
  BY <1>1, StepEffect DEF Moves
<1>3. conn[c].sock_stream = c /\ conn[c].key = k /\ at[c] \in Places
  BY <1>0, <1>2 DEF IInv, TypeInv, TypeOK, Grounded
<1>4. ASSUME NEW p \in Places, p \in Live', data'[p] = conn[c], Goes(p, k)'
      PROVE  \E q \in Live' :
               /\ Owner(q)' = c
               /\ \/ q \in Find(conn[c].key)'
                  \/ \E n \in 0..(Len(q) - 1) : Key(SubSeq(q, 1, n))' = conn[c].key
  <2>1. Key(p)' = k /\ Owner(p)' = c
    BY <1>3, <1>4 DEF Key, Owner
  <2>2. \/ p \in Find(k)'
        \/ \E n \in 0..(Len(p) - 1) : Key(SubSeq(p, 1, n))' = k
    BY <1>4, <2>1, GoesFinds
  <2>3. Find(conn[c].key)' = Find(k)'
    BY <1>2, <1>3 DEF Find, OnSearchPath, Side, Key
  <2> QED
    BY <1>3, <1>4, <2>1, <2>2, <2>3
<1>5. CASE InsertFirst(c)
  <2>1. Link(Root, conn[c]) /\ data = << >>
    BY <1>5 DEF InsertFirst
  <2>2. Root \in Live' /\ data'[Root] = conn[c]
    BY <2>1 DEF Link, Live, IInv, TypeInv, TypeOK
  <2>3. Goes(Root, k)'
    BY DEF Goes, Root
  <2> QED
    BY <1>4, <2>2, <2>3, RootPlace
<1>6. CASE InsertLink(c)
  <2>1. PICK p : p = Toward(at[c], k)
    OBVIOUS
  <2>2. /\ at[c] \in DOMAIN data /\ p \notin DOMAIN data /\ Link(p, conn[c])
    BY <1>3, <1>6, <2>1 DEF InsertLink, At, IInv, TypeInv, Grounded, Linking, Linkable
  <2>3. p \in Live' /\ data'[p] = conn[c] /\ \A q \in DOMAIN data : data'[q] = data[q]
    BY <2>2 DEF Link, Live, IInv, TypeInv, TypeOK
  <2>4. wpc[c] = "link"
    BY <1>6 DEF InsertLink, At
  <2>5. /\ p \in Places /\ Goes(p, k) /\ Reached(p)
    BY <1>3, <2>1, <2>2, <2>4, TowardPlace, ChildGoes, TowardReached DEF InsertInv, ReachInv
  <2>6. Goes(p, k)'
    BY <2>3, <2>5, GoesKept DEF Reached
  <2> QED
    BY <1>4, <2>3, <2>5, <2>6
<1>7. CASE InsertClear(c)
  <2>1. wpc[c] = "clear" /\ Clear(at[c])
    BY <1>7 DEF InsertClear, At
  <2>2. PICK p \in Places : p = at[c]
    BY <1>3
  <2>3. /\ p \in DOMAIN data /\ Owner(p) = c
    BY <2>1, <2>2 DEF IInv, HalfReused, TypeInv, Grounded
  <2>4. data[p] = conn[c]
    BY <2>3 DEF IInv, Ownership
  <2>5. data' = data /\ overwrite' = overwrite \ {p}
    BY <2>1, <2>2 DEF Clear
  <2>6. p \in Live' /\ data'[p] = conn[c]
    BY <2>3, <2>4, <2>5 DEF Live
  <2>7. Goes(p, k)
    BY <1>3, <2>1, <2>2 DEF InsertInv
  <2>8. Goes(p, k)'
    BY <2>5, <2>7, GoesKept
  <2> QED
    BY <1>4, <2>6, <2>8
<1>8. InsertFirst(c) \/ InsertLink(c) \/ InsertClear(c)
  <2> USE DEF At, Goto, IInv, TypeInv, TypeOK
  <2>1. ~Accept(c) /\ ~Peer(c) /\ ~WriteBanner(c) /\ ~Read(c) /\ ~Lookup(c)
    BY <1>2 DEF Accept, Peer, PeerSend, PeerEnd, PeerResume, WriteBanner, Read, ReadNoRequest,
       ReadRefused, ReadLogin, Lookup, FindLeft, FindRight, FindNull, FindFlag,
       FoundNothing, CheckFound, worker
  <2>2. ~Lock(c) /\ ~WriteSuccess(c) /\ ~WriteExists(c) /\ ~RemoveSession(c) /\ ~Shutdown(c)
    BY <1>2 DEF Lock, WriteSuccess, WriteExists, RemoveSession, Shutdown
  <2>3. ~InsertDown(c) /\ ~InsertLeaf(c) /\ ~InsertReuse(c) /\ ~InsertNull(c)
    BY DEF InsertDown, InsertLeaf, InsertReuse, InsertNull, worker
  <2> QED
    BY <1>1, <2>1, <2>2, <2>3 DEF Worker, Insert
<1> QED
  BY <1>5, <1>6, <1>7, <1>8

\* Wherever insert puts a session while others flag nodes, the session is found
\* under its name, unless insert has passed a node of that name.
THEOREM ComesOnlineTheorem == Spec => ComesOnlineFound
<1>1. IInv /\ ReachInv /\ InsertInv /\ [Next]_vars => [FoundOnline]_vars
  BY OnlineStep
<1> QED
  BY <1>1, Invariant, ReachAlways, InsertAlways, PTL DEF Spec, ComesOnlineFound
=============================================================================
