------------------------ MODULE SequentialTreeProofs ------------------------
(***************************************************************************)
(* Proofs about SequentialTree, for any set of names and any size: types,  *)
(* that a guarded insert ends at one node, that until a node is reused for *)
(* another key every session is found and the walk is in order, and that   *)
(* only a new key hides a session.                                         *)
(***************************************************************************)
EXTENDS SequentialTree, SearchTreeProofs

-----------------------------------------------------------------------------
(* The inductive invariant.                                                *)

\* All that is above a node is nodes, too.
Rooted == \A p \in DOMAIN data : \A n \in 0..Len(p) : Up(p, n) \in DOMAIN data

\* No way is longer than some number.
Shallow == \E b \in Nat : \A p \in DOMAIN data : Len(p) <= b

\* Until a node is reused for another key every node is where a search for its
\* key would come.
Routed == ~reordered => \A p \in DOMAIN data : OnSearchPath(p, Key(p))

IInv ==
  /\ TypeOK /\ Rooted /\ Shallow /\ Routed
  /\ data = [p \in DOMAIN data |-> data[p]]

\* Every node is a place.
LEMMA NodeIsPlace ==
  ASSUME TypeOK, NEW p \in DOMAIN data
  PROVE  p \in Places /\ Len(p) \in Nat
BY DEF TypeOK, WellFormed, Places

\* Steps that leave data alone.
LEMMA StepFlags ==
  ASSUME IInv, data' = data, overwrite' \subseteq DOMAIN data,
         reordered' = reordered, freed' \in BOOLEAN
  PROVE  IInv'
<1>1. TypeOK'
  BY DEF IInv, TypeOK, WellFormed
<1>2. Rooted'
  BY DEF IInv, Rooted
<1>3. Shallow'
  BY DEF IInv, Shallow
<1>4. Routed'
  BY DEF IInv, Routed, OnSearchPath, Side, Key
<1> QED
  BY <1>1, <1>2, <1>3, <1>4 DEF IInv

\* A first node.
LEMMA StepRoot ==
  ASSUME IInv, NEW k \in Keys, InsertRoot(k)
  PROVE  IInv'
<1>1. /\ DOMAIN data = {}
      /\ DOMAIN data' = {Root} /\ data'[Root] = Session(k)
      /\ overwrite' = overwrite /\ freed' = freed /\ reordered' = reordered
  BY DEF InsertRoot, Link, listing
<1>2. Root \in Places /\ Len(Root) = 0
  BY EmptySeq DEF Root, Places
<1>3. TypeOK'
  <2>1. IsFiniteSet(DOMAIN data')
    BY <1>1, FS_Singleton
  <2> QED
    BY <1>1, <1>2, <2>1 DEF IInv, TypeOK, WellFormed, Session
<1>4. Rooted'
  BY <1>1, <1>2, UpNone DEF Rooted
<1>5. Shallow'
  BY <1>1, <1>2 DEF Shallow
<1>6. Routed'
  BY <1>1, <1>2 DEF Routed, OnSearchPath
<1>7. data' = [p \in DOMAIN data' |-> data'[p]]
  BY DEF InsertRoot, Link
<1> QED
  BY <1>3, <1>4, <1>5, <1>6, <1>7 DEF IInv

\* A new leaf.
LEMMA StepLeaf ==
  ASSUME IInv, NEW k \in Keys, InsertLeaf(k)
  PROVE  IInv'
<1>1. PICK p \in Landings(k) : CanLink(p, k) /\ Link(Toward(p, k), Session(k))
  BY DEF InsertLeaf
<1>0. PICK c : c = Toward(p, k)
  OBVIOUS
<1>2. /\ p \in DOMAIN data /\ OnSearchPath(p, k) /\ Key(p) # k /\ c \notin DOMAIN data
      /\ UNCHANGED <<overwrite, freed, reordered>>
  BY <1>0, <1>1 DEF Landings, OnInsertPath, CanLink, InsertLeaf, Link, listing
<1>3. /\ DOMAIN data' = DOMAIN data \cup {c}
      /\ data'[c] = Session(k)
      /\ \A q \in DOMAIN data : data'[q] = data[q]
  BY <1>0, <1>1, <1>2 DEF Link
<1>4. p \in Places /\ Len(p) \in Nat
  BY <1>2, NodeIsPlace DEF IInv
<1>5. c \in Places /\ OnSearchPath(c, k)
  BY <1>0, <1>2, <1>4, PathToChild
<1>6. /\ Len(c) = Len(p) + 1
      /\ \A n \in 0..Len(p) : Up(c, n) = Up(p, n)
      /\ Up(c, Len(p)) = p
  <2>1. Side(p, k) \in Sides
    BY DEF Side, Sides
  <2> QED
    BY <1>0, <1>4, <2>1, Child, UpFull DEF Toward
<1>7. TypeOK'
  <2>1. IsFiniteSet(DOMAIN data')
    BY <1>3, FS_AddElement DEF IInv, TypeOK, WellFormed
  <2>2. SubSeq(c, 1, Len(c) - 1) = p
    BY <1>4, <1>6 DEF Up
  <2>3. WellFormed'
    BY <1>2, <1>3, <1>5, <2>1, <2>2 DEF IInv, TypeOK, WellFormed
  <2> QED
    BY <1>2, <1>3, <2>3 DEF IInv, TypeOK, Session
<1>8. Rooted'
  <2>1. \A n \in 0..Len(p) : Up(p, n) \in DOMAIN data
    BY <1>2 DEF IInv, Rooted
  <2>2. ASSUME NEW n \in 0..Len(c) PROVE Up(c, n) \in DOMAIN data'
    <3>1. CASE n \in 0..Len(p)
      BY <1>3, <1>6, <2>1, <3>1
    <3>2. CASE n = Len(c)
      BY <1>3, <1>5, <3>2, UpFull
    <3> QED
      BY <1>4, <1>6, <3>1, <3>2
  <2> QED
    BY <1>3, <2>2 DEF IInv, Rooted
<1>9. Shallow'
  <2>1. PICK b \in Nat : \A q \in DOMAIN data : Len(q) <= b
    BY DEF IInv, Shallow
  <2>2. \A q \in DOMAIN data' : Len(q) <= b + 1
    <3>1. \A q \in DOMAIN data : Len(q) \in Nat
      BY NodeIsPlace DEF IInv
    <3> QED
      BY <1>2, <1>3, <1>4, <1>6, <2>1, <3>1
  <2> QED
    BY <2>1, <2>2 DEF Shallow
<1>10. Routed'
  <2> SUFFICES ASSUME ~reordered, NEW q \in DOMAIN data'
               PROVE  OnSearchPath(q, Key(q))'
    BY <1>2 DEF Routed
  <2>1. CASE q \in DOMAIN data
    <3>1. q \in Places /\ Len(q) \in Nat /\ OnSearchPath(q, Key(q))
      BY <2>1, NodeIsPlace DEF IInv, Routed
    <3>2. \A n \in 0..(Len(q) - 1) : Up(q, n) \in DOMAIN data
      BY <2>1, <3>1 DEF IInv, Rooted
    <3>3. \A n \in 0..(Len(q) - 1) : Key(Up(q, n))' = Key(Up(q, n))
      BY <1>3, <3>2 DEF Key
    <3>4. OnSearchPath(q, Key(q))'
      <4>1. PICK j : j = Key(q)
        OBVIOUS
      <4>2. OnSearchPath(q, j) /\ Key(q)' = j
        BY <1>3, <2>1, <3>1, <4>1 DEF Key
      <4>3. OnSearchPath(q, j)'
        BY <3>1, <3>3, <4>2, PathKept
      <4> QED
        BY <4>2, <4>3
    <3> QED
      BY <3>4
  <2>2. CASE q = c
    <3>1. \A n \in 0..(Len(c) - 1) : Up(c, n) \in DOMAIN data
      BY <1>2, <1>4, <1>6 DEF IInv, Rooted
    <3>2. \A n \in 0..(Len(c) - 1) : Key(Up(c, n))' = Key(Up(c, n))
      BY <1>3, <3>1 DEF Key
    <3>3. OnSearchPath(c, k)'
      BY <1>5, <3>2, PathKept
    <3>4. Key(c)' = k
      BY <1>3 DEF Key, Session
    <3> QED
      BY <2>2, <3>3, <3>4
  <2> QED
    BY <1>3, <2>1, <2>2
<1>11. data' = [q \in DOMAIN data' |-> data'[q]]
  BY <1>1 DEF Link
<1> QED
  BY <1>7, <1>8, <1>9, <1>10, <1>11 DEF IInv

\* A node reused.
LEMMA StepReuse ==
  ASSUME IInv, NEW k \in Keys, InsertReuse(k)
  PROVE  IInv'
<1>1. PICK p \in Landings(k) :
        /\ data' = [data EXCEPT ![p] = Session(k)]
        /\ overwrite' = overwrite \ {p}
        /\ reordered' = (reordered \/ Key(p) # k)
        /\ freed' = freed
  BY DEF InsertReuse, listing
<1>2. p \in DOMAIN data
  BY DEF Landings
<1>3. /\ DOMAIN data' = DOMAIN data /\ data'[p] = Session(k)
      /\ \A q \in DOMAIN data \ {p} : data'[q] = data[q]
  BY <1>1, <1>2
<1>4. TypeOK'
  BY <1>1, <1>3 DEF IInv, TypeOK, WellFormed, Session
<1>5. Rooted' /\ Shallow'
  BY <1>3 DEF IInv, Rooted, Shallow
<1>6. Routed'
  <2> SUFFICES ASSUME ~reordered, Key(p) = k PROVE \A q \in DOMAIN data : OnSearchPath(q, Key(q))'
    BY <1>1, <1>3 DEF Routed, IInv, TypeOK
  <2>1. \A q \in DOMAIN data : Key(q)' = Key(q)
    BY <1>3 DEF Key, Session
  <2>2. ASSUME NEW q \in DOMAIN data PROVE OnSearchPath(q, Key(q))'
    <3>0. PICK j : j = Key(q)
      OBVIOUS
    <3>1. q \in Places /\ Len(q) \in Nat /\ OnSearchPath(q, j)
      BY <3>0, NodeIsPlace DEF IInv, Routed
    <3>2. \A n \in 0..(Len(q) - 1) : Up(q, n) \in DOMAIN data
      BY <3>1 DEF IInv, Rooted
    <3>3. Key(q)' = j
      BY <2>1, <3>0
    <3>4. OnSearchPath(q, j)'
      BY <2>1, <3>1, <3>2, PathKept
    <3> QED
      BY <3>3, <3>4
  <2> QED
    BY <2>2
<1>7. data' = [q \in DOMAIN data' |-> data'[q]]
  BY <1>1
<1> QED
  BY <1>4, <1>5, <1>6, <1>7 DEF IInv

LEMMA Invariant == Spec => []IInv
<1>1. Init => IInv
  <2> SUFFICES ASSUME Init PROVE IInv
    OBVIOUS
  <2>1. DOMAIN data = {} /\ overwrite = {} /\ reordered = FALSE /\ freed = FALSE
    BY DEF Init, EmptyTree
  <2>2. TypeOK
    BY <2>1, FS_EmptySet DEF TypeOK, WellFormed
  <2> QED
    BY <2>1, <2>2 DEF Init, EmptyTree, IInv, Rooted, Shallow, Routed
<1>2. IInv /\ [Next]_vars => IInv'
  <2> SUFFICES ASSUME IInv, [Next]_vars PROVE IInv'
    OBVIOUS
  <2>1. ASSUME NEW k \in Keys, Login(k) PROVE IInv'
    BY <2>1, StepRoot, StepLeaf, StepReuse DEF Login
  <2>2. ASSUME NEW k \in Keys, Remove(k) PROVE IInv'
    BY <2>2, StepFlags DEF Remove, Find, Live, Mark, listing, IInv, TypeOK, WellFormed
  <2>3. ASSUME NEW p \in Live, Leave(p) PROVE IInv'
    BY <2>3, StepFlags DEF Leave, Live, Mark, listing, IInv, TypeOK, WellFormed
  <2>4. CASE ListOnline
    BY <2>4, StepFlags DEF ListOnline, tree, IInv, TypeOK, WellFormed
  <2>5. CASE UNCHANGED vars
    BY <2>5, StepFlags DEF vars, listing, IInv, TypeOK, WellFormed
  <2> QED
    BY <2>1, <2>2, <2>3, <2>4, <2>5 DEF Next
<1> QED
  BY <1>1, <1>2, PTL DEF Spec

-----------------------------------------------------------------------------
(* The theorems.                                                           *)

\* Types: whatever is inserted, flagged and reused, the nodes form a tree, and
\* only nodes are flagged.
THEOREM TypeCorrect == Spec => []TypeOK
<1>1. IInv => TypeOK
  BY DEF IInv
<1> QED
  BY <1>1, Invariant, PTL

\* The ways of one key that insert has taken so far end at one node only.
LEMMA OneLanding ==
  ASSUME IInv, NEW k \in Keys, NEW p \in Landings(k), NEW q \in Landings(k)
  PROVE  p = q
<1>1. ASSUME NEW a \in Landings(k), NEW b \in Landings(k), Len(a) <= Len(b)
      PROVE  a = b
  <2>1. /\ a \in Places /\ Len(a) \in Nat /\ OnInsertPath(a, k)
        /\ b \in Places /\ Len(b) \in Nat /\ OnInsertPath(b, k) /\ b \in DOMAIN data
    BY <1>1, NodeIsPlace DEF IInv, Landings
  <2>2. a = Up(b, Len(a))
    BY <1>1, <2>1, OnePath DEF OnInsertPath
  <2>3. CASE Len(a) = Len(b)
    BY <2>1, <2>2, <2>3, UpFull
  <2>4. CASE Len(a) < Len(b)
    <3>1. Len(a) \in 0..(Len(b) - 1) /\ Len(a) + 1 \in 1..Len(b)
      BY <2>1, <2>4
    <3>2. a \notin overwrite
      <4>1. SubSeq(b, 1, (Len(a) + 1) - 1) \notin overwrite
        BY <2>1, <3>1 DEF OnInsertPath
      <4>2. (Len(a) + 1) - 1 = Len(a)
        BY <2>1
      <4> QED
        BY <2>2, <4>1, <4>2 DEF Up
    <3>3. Toward(a, k) \notin DOMAIN data
      BY <1>1, <3>2 DEF Landings, CanLink, CanReuse
    <3>4. Toward(a, k) = Up(b, Len(a) + 1)
      <4>1. b[Len(a) + 1] = Side(a, k)
        BY <2>1, <2>2, <3>1, OthersAbove DEF OnInsertPath
      <4>2. Side(a, k) \in Sides
        BY DEF Side, Sides
      <4>3. /\ Toward(a, k) \in Places /\ Len(Toward(a, k)) = Len(a) + 1
            /\ Toward(a, k)[Len(a) + 1] = Side(a, k)
            /\ \A n \in 1..Len(a) : Toward(a, k)[n] = a[n]
        BY <2>1, <4>2, Child DEF Toward
      <4>4. Len(a) \in 0..Len(b) /\ Len(a) + 1 \in 0..Len(b)
        BY <2>1, <3>1
      <4>5. \A n \in 1..Len(a) : a[n] = b[n]
        BY <2>1, <2>2, <4>4, UpType
      <4>6. /\ Up(b, Len(a) + 1) \in Places /\ Len(Up(b, Len(a) + 1)) = Len(a) + 1
            /\ \A n \in 1..(Len(a) + 1) : Up(b, Len(a) + 1)[n] = b[n]
        BY <2>1, <4>4, UpType
      <4>7. \A n \in 1..(Len(a) + 1) : Toward(a, k)[n] = Up(b, Len(a) + 1)[n]
        BY <2>1, <4>1, <4>3, <4>5, <4>6
      <4> QED
        BY <4>3, <4>6, <4>7, Same
    <3>5. Up(b, Len(a) + 1) \in DOMAIN data
      BY <2>1, <3>1 DEF IInv, Rooted
    <3> QED
      BY <3>3, <3>4, <3>5
  <2> QED
    BY <1>1, <2>1, <2>3, <2>4
<1>2. Len(p) \in Nat /\ Len(q) \in Nat
  BY NodeIsPlace DEF IInv, Landings
<1> QED
  BY <1>1, <1>2

\* There is such a node: the deepest one on the way of the insert.
LEMMA SomeLanding ==
  ASSUME IInv, NEW k \in Keys, Find(k) = {}, data # << >>
  PROVE  Landings(k) # {}
<1> DEFINE W == {p \in DOMAIN data : OnInsertPath(p, k)}
<1>1. W \subseteq Places /\ \A p \in W : Len(p) \in Nat
  BY NodeIsPlace DEF IInv
<1>2. Root \in W
  <2>1. DOMAIN data # {}
    <3> SUFFICES ASSUME DOMAIN data = {} PROVE FALSE
      OBVIOUS
    <3>1. data \in [1..0 -> {}]
      BY DEF IInv
    <3>2. data \in Seq({}) /\ Len(data) = 0
      BY <3>1
    <3> QED
      BY <3>2, EmptySeq
  <2>2. PICK p \in DOMAIN data : TRUE
    BY <2>1
  <2>3. p \in Places /\ Len(p) \in Nat /\ 0 \in 0..Len(p)
    BY NodeIsPlace DEF IInv
  <2>4. Root \in DOMAIN data
    BY <2>2, <2>3, UpNone DEF IInv, Rooted
  <2> QED
    BY <2>4 DEF OnInsertPath, OnSearchPath, Root
<1>3. PICK p \in W : \A q \in W : Len(q) <= Len(p)
  <2>1. PICK b \in Nat : \A q \in DOMAIN data : Len(q) <= b
    BY DEF IInv, Shallow
  <2> DEFINE T == {b - Len(q) : q \in W}
  <2>2. T \in SUBSET Nat /\ T # {}
    BY <1>1, <1>2, <2>1
  <2>3. PICK n \in T : \A m \in T : n <= m
    BY <2>2, Least
  <2>4. PICK p \in W : n = b - Len(p)
    BY <2>3
  <2>5. \A q \in W : n <= b - Len(q)
    BY <2>3
  <2> QED
    BY <1>1, <2>1, <2>4, <2>5
<1>4. p \in DOMAIN data /\ p \in Places /\ Len(p) \in Nat /\ OnInsertPath(p, k)
  BY <1>1
<1>5. CASE p \in overwrite
  BY <1>4, <1>5 DEF Landings, CanReuse
<1>6. CASE p \notin overwrite
  <2>1. Key(p) # k
    BY <1>4, <1>6 DEF Find, Live, OnInsertPath
  <2>2. /\ Toward(p, k) \in Places /\ OnSearchPath(Toward(p, k), k)
    BY <1>4, <2>1, PathToChild DEF OnInsertPath
  <2>3. Side(p, k) \in Sides
    BY DEF Side, Sides
  <2>4. /\ Len(Toward(p, k)) = Len(p) + 1
        /\ \A n \in 0..Len(p) : Up(Toward(p, k), n) = Up(p, n)
    BY <1>4, <2>3, Child DEF Toward
  <2>5. \A n \in 1..Len(Toward(p, k)) : Up(Toward(p, k), n - 1) \notin overwrite
    <3> SUFFICES ASSUME NEW n \in 1..(Len(p) + 1) PROVE Up(p, n - 1) \notin overwrite
      BY <1>4, <2>4
    <3>1. CASE n \in 1..Len(p)
      BY <1>4, <3>1 DEF OnInsertPath, Up
    <3>2. CASE n = Len(p) + 1
      BY <1>4, <1>6, <3>2, UpFull
    <3> QED
      BY <1>4, <3>1, <3>2
  <2>6. OnInsertPath(Toward(p, k), k)
    BY <2>2, <2>5 DEF OnInsertPath, Up
  <2>7. Toward(p, k) \notin DOMAIN data
    BY <1>3, <1>4, <2>4, <2>6
  <2> QED
    BY <1>4, <1>6, <2>1, <2>7 DEF Landings, CanLink
<1> QED
  BY <1>5, <1>6

\* A guarded insert ends at exactly one node, however often nodes were reused
\* for other names: it dereferences no null link and never loops.
THEOREM LandingTheorem == Spec => []NeverFallsOff
<1>1. IInv => NeverFallsOff
  BY OneLanding, SomeLanding DEF NeverFallsOff
<1> QED
  BY <1>1, Invariant, PTL

\* Until a node is reused for another name, find answers the node of every
\* session, and no other.
THEOREM FoundTheorem == Spec => []EveryLiveFound
<1>1. ASSUME IInv, ~reordered, NEW p \in Live PROVE Find(Key(p)) = {p}
  <2>1. p \in DOMAIN data /\ p \in Places /\ OnSearchPath(p, Key(p))
    BY <1>1, NodeIsPlace DEF Live, IInv, Routed
  <2>2. p \in Find(Key(p))
    BY <1>1, <2>1 DEF Find
  <2>3. ASSUME NEW q \in Find(Key(p)) PROVE q = p
    <3>1. q \in Places /\ OnSearchPath(q, Key(p)) /\ Key(q) = Key(p)
      BY <1>1, <2>3, NodeIsPlace DEF Find, Live, IInv
    <3> QED
      BY <2>1, <3>1, OneHolder
  <2> QED
    BY <2>2, <2>3
<1>2. IInv => EveryLiveFound
  BY <1>1 DEF EveryLiveFound
<1> QED
  BY <1>2, Invariant, PTL

\* Until then the in-order walk meets the sessions in the order of their names.
LEMMA Sorted == IInv => SortedUntilReordered
<1>1. ASSUME IInv, ~reordered, NEW p \in Live, NEW q \in Live, Before(p, q)
      PROVE  Key(p) < Key(q)
  <2>1. /\ p \in DOMAIN data /\ p \in Places /\ Len(p) \in Nat
        /\ q \in DOMAIN data /\ q \in Places /\ Len(q) \in Nat
        /\ OnSearchPath(p, Key(p)) /\ OnSearchPath(q, Key(q))
    BY <1>1, NodeIsPlace DEF Live, IInv, Routed
  <2>2. PICK n \in 1..(Len(p) + 1) :
          /\ \A m \in 1..(n - 1) : Turn(p, m) = Turn(q, m)
          /\ <<Turn(p, n), Turn(q, n)>> \in
               {<<"left", "here">>, <<"left", "right">>, <<"here", "right">>}
    BY <1>1 DEF Before
  <2>3. \A m \in 1..Len(p) : p[m] \in {"left", "right"}
    BY <2>1 DEF Places, Sides
  <2>4. \A m \in 1..(n - 1) : m <= Len(q) /\ p[m] = q[m]
    BY <2>1, <2>2, <2>3 DEF Turn
  <2>5. n - 1 \in 0..Len(p) /\ n - 1 \in 0..Len(q)
    <3>1. CASE n = 1
      BY <2>1, <3>1
    <3>2. CASE n > 1
      <4>1. n - 1 \in 1..(n - 1)
        BY <2>1, <3>2
      <4> QED
        BY <2>1, <2>4, <4>1
    <3> QED
      BY <2>1, <3>1, <3>2
  <2>6. Up(p, n - 1) = Up(q, n - 1)
    <3>1. /\ Up(p, n - 1) \in Places /\ Len(Up(p, n - 1)) = n - 1
          /\ \A m \in 1..(n - 1) : Up(p, n - 1)[m] = p[m]
      BY <2>1, <2>5, UpType
    <3>2. /\ Up(q, n - 1) \in Places /\ Len(Up(q, n - 1)) = n - 1
          /\ \A m \in 1..(n - 1) : Up(q, n - 1)[m] = q[m]
      BY <2>1, <2>5, UpType
    <3> QED
      BY <2>4, <3>1, <3>2, Same
  <2> DEFINE a == Up(p, n - 1)
  <2>7. a \in DOMAIN data
    BY <1>1, <2>1, <2>5 DEF IInv, Rooted
  <2>8. Key(a) \in Int /\ Key(p) \in Int /\ Key(q) \in Int
    BY <1>1, <2>1, <2>7, KeysAssumption DEF IInv, TypeOK, Key
  <2>9. n <= Len(p) => Key(a) # Key(p) /\ p[n] = Side(a, Key(p))
    <3> SUFFICES ASSUME n <= Len(p) PROVE Key(a) # Key(p) /\ p[n] = Side(a, Key(p))
      OBVIOUS
    <3>1. n - 1 \in 0..(Len(p) - 1) /\ (n - 1) + 1 = n
      BY <2>1
    <3> QED
      BY <2>1, <3>1, OthersAbove
  <2>10. n <= Len(q) => Key(a) # Key(q) /\ q[n] = Side(a, Key(q))
    <3> SUFFICES ASSUME n <= Len(q) PROVE Key(a) # Key(q) /\ q[n] = Side(a, Key(q))
      OBVIOUS
    <3>1. n - 1 \in 0..(Len(q) - 1) /\ (n - 1) + 1 = n
      BY <2>1
    <3> QED
      BY <2>1, <2>6, <3>1, OthersAbove
  <2>11. Turn(p, n) = "left" => Key(p) < Key(a)
    BY <2>8, <2>9 DEF Turn, Side
  <2>12. Turn(q, n) = "right" => Key(a) < Key(q)
    BY <2>8, <2>10 DEF Turn, Side
  <2>13. Turn(p, n) = "here" => a = p
    <3> SUFFICES ASSUME Turn(p, n) = "here" PROVE a = p
      OBVIOUS
    <3>1. n = Len(p) + 1
      BY <2>1, <2>2, <2>3 DEF Turn
    <3> QED
      BY <2>1, <3>1, UpFull
  <2>14. Turn(q, n) = "here" => a = q
    <3> SUFFICES ASSUME Turn(q, n) = "here" PROVE a = q
      OBVIOUS
    <3>1. \A m \in 1..Len(q) : q[m] \in {"left", "right"}
      BY <2>1 DEF Places, Sides
    <3>2. n = Len(q) + 1
      BY <2>1, <2>2, <2>5, <3>1 DEF Turn
    <3> QED
      BY <2>1, <2>6, <3>2, UpFull
  <2> QED
    BY <2>2, <2>8, <2>11, <2>12, <2>13, <2>14
<1> QED
  BY <1>1 DEF SortedUntilReordered

THEOREM SortedTheorem == Spec => []SortedUntilReordered
  BY Sorted, Invariant, PTL

\* Until then the tree is a search tree, whatever its size: every session is found
\* and the walk is sorted.
THEOREM SearchTreeTheorem == Spec => []IsSearchTree
<1>1. EveryLiveFound /\ SortedUntilReordered => IsSearchTree
  BY DEF IsSearchTree
<1> QED
  BY <1>1, FoundTheorem, SortedTheorem, PTL

\* A step changes the session of a freed node, or of none.
LEMMA OnlyFreedReused ==
  ASSUME IInv, [Next]_vars, NEW p \in DOMAIN data, p \notin overwrite
  PROVE  data'[p] = data[p]
<1>1. ASSUME NEW k \in Keys, InsertRoot(k) PROVE data'[p] = data[p]
  BY <1>1 DEF InsertRoot
<1>2. ASSUME NEW k \in Keys, InsertLeaf(k) PROVE data'[p] = data[p]
  BY <1>2 DEF InsertLeaf, Link, CanLink
<1>3. ASSUME NEW k \in Keys, InsertReuse(k) PROVE data'[p] = data[p]
  BY <1>3 DEF InsertReuse, CanReuse, Landings
<1>4. ASSUME NEW k \in Keys, Remove(k) PROVE data'[p] = data[p]
  BY <1>4 DEF Remove, Mark
<1>5. ASSUME NEW q \in Live, Leave(q) PROVE data'[p] = data[p]
  BY <1>5 DEF Leave, Mark
<1>6. CASE ListOnline \/ UNCHANGED vars
  BY <1>6 DEF ListOnline, tree, vars
<1> QED
  BY <1>1, <1>2, <1>3, <1>4, <1>5, <1>6 DEF Next, Login

\* A session that find answers is hidden only by a freed node above it that is
\* reused for another name.
THEOREM HiddenTheorem == Spec => HiddenOnlyByNewKey
<1> DEFINE Hides(p) ==
      \E n \in 0..(Len(p) - 1) :
        LET above == SubSeq(p, 1, n) IN above \in overwrite /\ Key(above)' # Key(above)
<1>1. ASSUME IInv, [Next]_vars, NEW p \in Live \cap Live', p \in Find(Key(p)), ~Hides(p)
      PROVE  p \in Find(Key(p))'
  <2>1. /\ p \in DOMAIN data /\ p \notin overwrite /\ p \in Places /\ Len(p) \in Nat
        /\ OnSearchPath(p, Key(p))
    BY <1>1, NodeIsPlace DEF Live, Find, IInv
  <2>2. PICK k : k = Key(p)
    OBVIOUS
  <2>3. data'[p] = data[p]
    BY <1>1, <2>1, OnlyFreedReused
  <2>4. \A n \in 0..(Len(p) - 1) : Up(p, n) \in DOMAIN data
    BY <1>1, <2>1 DEF IInv, Rooted
  <2>5. \A n \in 0..(Len(p) - 1) : Key(Up(p, n))' = Key(Up(p, n))
    <3> SUFFICES ASSUME NEW n \in 0..(Len(p) - 1) PROVE Key(Up(p, n))' = Key(Up(p, n))
      OBVIOUS
    <3>1. CASE Up(p, n) \in overwrite
      BY <1>1, <3>1 DEF Up
    <3>2. CASE Up(p, n) \notin overwrite
      BY <1>1, <2>4, <3>2, OnlyFreedReused DEF Key
    <3> QED
      BY <3>1, <3>2
  <2>6. OnSearchPath(p, k)'
    BY <2>1, <2>2, <2>5, PathKept
  <2>7. Key(p)' = k
    BY <2>2, <2>3 DEF Key
  <2> QED
    BY <1>1, <2>6, <2>7 DEF Find
<1>2. IInv /\ [Next]_vars =>
        [\A p \in Live \cap Live' :
           p \in Find(Key(p)) /\ p \notin Find(Key(p))' => Hides(p)]_vars
  BY <1>1
<1> QED
  BY <1>2, Invariant, PTL DEF Spec, HiddenOnlyByNewKey

-----------------------------------------------------------------------------
(* The recursive walk.                                                     *)

\* What the walk puts together at the end p of a link from the walks g.
Visit(g, p) ==
  IF p \notin DOMAIN data THEN << >>
  ELSE g[Append(p, "left")] \o (IF p \in overwrite THEN << >> ELSE <<p>>)
         \o g[Append(p, "right")]

\* g answers the recursion at the places of S.
Solves(g, S) == g = [p \in S |-> Visit(g, p)]

\* Every node is the end of a link.
LEMMA NodesAreEnds ==
  ASSUME IInv
  PROVE  /\ Ends \subseteq Places
         /\ \A p \in DOMAIN data, s \in Sides : Append(p, s) \in Ends
<1>1. DOMAIN data \subseteq Places
  BY DEF IInv, TypeOK, WellFormed
<1>2. \A p \in DOMAIN data, s \in Sides : Append(p, s) \in Places
  BY <1>1, Child
<1>3. Root \in Places
  BY EmptySeq DEF Root, Places
<1>4. \A p \in DOMAIN data, s \in Sides : Append(p, s) \in Ends
  BY DEF Ends
<1>5. ASSUME NEW e \in Ends PROVE e \in Places
  <2>1. CASE e = Root
    BY <1>3, <2>1
  <2>2. ASSUME NEW p \in DOMAIN data, NEW s \in Sides, e = Append(p, s) PROVE e \in Places
    BY <1>2, <2>2
  <2> QED
    BY <2>1, <2>2 DEF Ends
<1> QED
  BY <1>4, <1>5

\* The recursion has an answer: it goes down, and no way is longer than some
\* number.
LEMMA WalkDefined ==
  ASSUME IInv
  PROVE  \E g : Solves(g, Ends)
<1>1. PICK b \in Nat : \A p \in DOMAIN data : Len(p) <= b
  BY DEF IInv, Shallow
<1> DEFINE Deep(h) == {p \in Ends : Len(p) > b - h}
           T == {h \in 0..(b + 1) : ~\E g : Solves(g, Deep(h))}
<1>2. \A p \in Ends : Len(p) \in Nat
  BY NodesAreEnds DEF Places
<1>3. Deep(b + 1) = Ends
  BY <1>1, <1>2
<1>4. T = {}
  <2> SUFFICES ASSUME T # {} PROVE FALSE
    OBVIOUS
  <2>1. PICK h \in T : \A k \in T : h <= k
    <3>1. T \in SUBSET Nat
      BY <1>1
    <3> QED
      BY <3>1, Least
  <2>2. h # 0
    <3>1. \A p \in Deep(0) : p \notin DOMAIN data
      BY <1>1, <1>2
    <3> DEFINE g == [p \in Deep(0) |-> << >>]
    <3>2. g = [p \in Deep(0) |-> Visit(g, p)]
      BY <3>1 DEF Visit
    <3>3. Solves(g, Deep(0))
      BY <3>2 DEF Solves
    <3> QED
      BY <2>1, <3>3
  <2>3. h - 1 \in 0..(b + 1) /\ h - 1 \notin T
    <3>1. h \in 0..(b + 1)
      BY <2>1
    <3> HIDE DEF T
    <3>2. h - 1 \in 0..(b + 1) /\ ~(h <= h - 1)
      BY <1>1, <2>2, <3>1
    <3> QED
      BY <2>1, <3>2
  <2>4. PICK f : Solves(f, Deep(h - 1))
    BY <2>3
  <2> DEFINE g == [p \in Deep(h) |-> Visit(f, p)]
  <2>5. ASSUME NEW p \in Deep(h), p \in DOMAIN data, NEW s \in Sides
        PROVE  Append(p, s) \in Deep(h - 1) /\ Append(p, s) \in Deep(h)
    <3>1. Append(p, s) \in Ends
      BY <2>5, NodesAreEnds
    <3>2. Len(Append(p, s)) = Len(p) + 1
      <4>1. p \in Places
        BY <2>5, NodesAreEnds
      <4> QED
        BY <4>1, Child
    <3> QED
      BY <1>1, <1>2, <2>1, <2>5, <3>1, <3>2
  <2>6. \A p \in Deep(h - 1) : p \in Deep(h) => g[p] = f[p]
    BY <2>4 DEF Solves
  <2>7. ASSUME NEW p \in Deep(h) PROVE Visit(f, p) = Visit(g, p)
    <3>1. CASE p \notin DOMAIN data
      BY <3>1 DEF Visit
    <3>2. CASE p \in DOMAIN data
      <4>1. \A s \in Sides : g[Append(p, s)] = f[Append(p, s)]
        BY <2>5, <2>6, <3>2
      <4>2. g[Append(p, "left")] = f[Append(p, "left")]
            /\ g[Append(p, "right")] = f[Append(p, "right")]
        BY <4>1 DEF Sides
      <4> HIDE DEF g
      <4> QED
        BY <4>2 DEF Visit
    <3> QED
      BY <3>1, <3>2
  <2>8. g = [p \in Deep(h) |-> Visit(g, p)]
    BY <2>7
  <2>9. Solves(g, Deep(h))
    BY <2>8 DEF Solves
  <2> QED
    BY <2>1, <2>9
<1>5. b + 1 \in 0..(b + 1)
  BY <1>1
<1>6. \E g : Solves(g, Deep(b + 1))
  BY <1>4, <1>5
<1> QED
  BY <1>3, <1>6

\* Walk is an answer of it.
LEMMA WalkSolves ==
  ASSUME IInv
  PROVE  \E g : Solves(g, Ends) /\ Walk = g[Root]
<1>1. PICK g : g = [p \in Ends |-> Visit(g, p)]
  BY WalkDefined DEF Solves
<1>2. \E f : f = [p \in Ends |-> Visit(f, p)] /\ Walk = f[Root]
  BY <1>1 DEF Walk, Visit
<1> QED
  BY <1>2 DEF Solves

\* The live nodes at and below p.
Below(p) == {q \in Live : Len(p) <= Len(q) /\ Up(q, Len(p)) = p}

\* s is a sequence of places in the order of the walk.
Ordered(s) ==
  s \in Seq(Places) /\ \A m, n \in 1..Len(s) : m < n => Before(s[m], s[n])

Members(s) == {s[n] : n \in 1..Len(s)}

\* Two walks, all of the first before all of the second.
LEMMA WalkConcat ==
  ASSUME NEW s, NEW t, Ordered(s), Ordered(t),
         \A p \in Members(s), q \in Members(t) : Before(p, q)
  PROVE  Ordered(s \o t) /\ Members(s \o t) = Members(s) \cup Members(t)
<1> DEFINE u == s \o t
<1>1. /\ s \in Seq(Places) /\ t \in Seq(Places)
      /\ Len(s) \in Nat /\ Len(t) \in Nat
  BY DEF Ordered
<1>2. /\ u \in Seq(Places) /\ Len(u) = Len(s) + Len(t)
      /\ \A n \in 1..(Len(s) + Len(t)) : u[n] = IF n <= Len(s) THEN s[n] ELSE t[n - Len(s)]
  BY <1>1, ConcatProperties
<1> HIDE DEF u
<1>3. ASSUME NEW m \in 1..Len(u), NEW n \in 1..Len(u), m < n PROVE Before(u[m], u[n])
  <2>1. CASE n <= Len(s)
    <3>1. m \in 1..Len(s) /\ n \in 1..Len(s)
      BY <1>1, <1>2, <1>3, <2>1
    <3>2. u[m] = s[m] /\ u[n] = s[n]
      BY <1>1, <1>2, <1>3, <2>1
    <3> QED
      BY <1>3, <3>1, <3>2 DEF Ordered
  <2>2. CASE m > Len(s)
    <3>1. m - Len(s) \in 1..Len(t) /\ n - Len(s) \in 1..Len(t) /\ m - Len(s) < n - Len(s)
      BY <1>1, <1>2, <1>3, <2>2
    <3>2. u[m] = t[m - Len(s)] /\ u[n] = t[n - Len(s)]
      BY <1>1, <1>2, <1>3, <2>2
    <3> QED
      BY <3>1, <3>2 DEF Ordered
  <2>3. CASE m <= Len(s) /\ n > Len(s)
    <3>1. n - Len(s) \in 1..Len(t) /\ m \in 1..Len(s)
      BY <1>1, <1>2, <1>3, <2>3
    <3>2. u[m] = s[m] /\ u[n] = t[n - Len(s)]
      BY <1>1, <1>2, <1>3, <2>3
    <3> QED
      BY <3>1, <3>2 DEF Members
  <2> QED
    BY <1>1, <1>2, <2>1, <2>2, <2>3
<1>4. Members(u) = Members(s) \cup Members(t)
  <2>1. \A n \in 1..Len(u) : u[n] \in Members(s) \cup Members(t)
    <3> SUFFICES ASSUME NEW n \in 1..Len(u) PROVE u[n] \in Members(s) \cup Members(t)
      OBVIOUS
    <3>1. CASE n <= Len(s)
      BY <1>1, <1>2, <3>1 DEF Members
    <3>2. CASE n > Len(s)
      <4>1. n - Len(s) \in 1..Len(t) /\ u[n] = t[n - Len(s)]
        BY <1>1, <1>2, <3>2
      <4> QED
        BY <4>1 DEF Members
    <3> QED
      BY <1>1, <1>2, <3>1, <3>2
  <2>2. \A n \in 1..Len(s) : s[n] \in Members(u)
    <3> SUFFICES ASSUME NEW n \in 1..Len(s) PROVE s[n] \in Members(u)
      OBVIOUS
    <3>1. n \in 1..Len(u) /\ u[n] = s[n]
      BY <1>1, <1>2
    <3> QED
      BY <3>1 DEF Members
  <2>3. \A n \in 1..Len(t) : t[n] \in Members(u)
    <3> SUFFICES ASSUME NEW n \in 1..Len(t) PROVE t[n] \in Members(u)
      OBVIOUS
    <3>1. /\ n + Len(s) \in 1..(Len(s) + Len(t)) /\ ~(n + Len(s) <= Len(s))
          /\ (n + Len(s)) - Len(s) = n
      BY <1>1
    <3>2. n + Len(s) \in 1..Len(u) /\ u[n + Len(s)] = t[n]
      BY <1>2, <3>1
    <3> QED
      BY <3>2 DEF Members
  <2>4. Members(u) \subseteq Members(s) \cup Members(t)
    BY <2>1 DEF Members
  <2>5. Members(s) \subseteq Members(u) /\ Members(t) \subseteq Members(u)
    BY <2>2, <2>3 DEF Members
  <2> QED
    BY <2>4, <2>5
<1>5. Ordered(u)
  BY <1>2, <1>3 DEF Ordered
<1> QED
  BY <1>4, <1>5 DEF u

\* What is below a node is the node, and what is below its links; and what is
\* on the left is walked before the node, what is on the right after it.
LEMMA BelowSide ==
  ASSUME NEW p \in Places, NEW s \in Sides, NEW q \in Places,
         Len(Append(p, s)) <= Len(q), Up(q, Len(Append(p, s))) = Append(p, s)
  PROVE  /\ Len(p) < Len(q) /\ Up(q, Len(p)) = p
         /\ \A m \in 1..Len(p) : Turn(q, m) = Turn(p, m)
         /\ Turn(q, Len(p) + 1) = s /\ Turn(p, Len(p) + 1) = "here"
<1>0. Len(p) \in Nat /\ Len(q) \in Nat
  BY DEF Places
<1>1. /\ Append(p, s) \in Places /\ Len(Append(p, s)) = Len(p) + 1
      /\ Append(p, s)[Len(p) + 1] = s
      /\ \A n \in 1..Len(p) : Append(p, s)[n] = p[n]
      /\ \A n \in 0..Len(p) : Up(Append(p, s), n) = Up(p, n)
  BY Child
<1>2. Len(p) + 1 \in 0..Len(q) /\ Len(p) \in 0..(Len(p) + 1)
  BY <1>0, <1>1
<1>3. Up(q, Len(p)) = p
  <2>1. Up(Up(q, Len(p) + 1), Len(p)) = Up(q, Len(p))
    BY <1>2, UpUp
  <2>2. Up(Append(p, s), Len(p)) = Up(p, Len(p))
    BY <1>0, <1>1
  <2> QED
    BY <1>1, <2>1, <2>2, UpFull
<1>4. \A m \in 1..(Len(p) + 1) : q[m] = Append(p, s)[m]
  <2>1. \A m \in 1..(Len(p) + 1) : Up(q, Len(p) + 1)[m] = q[m]
    BY <1>2, UpType
  <2> QED
    BY <1>1, <2>1
<1>5. \A m \in 1..Len(p) : Turn(q, m) = Turn(p, m)
  BY <1>0, <1>1, <1>2, <1>4 DEF Turn
<1>6. Turn(q, Len(p) + 1) = s /\ Turn(p, Len(p) + 1) = "here"
  BY <1>0, <1>1, <1>2, <1>4 DEF Turn
<1> QED
  BY <1>0, <1>2, <1>3, <1>5, <1>6

LEMMA BelowNode ==
  ASSUME IInv, NEW p \in DOMAIN data
  PROVE  Below(p) = (Below(Append(p, "left")) \cup ({p} \ overwrite))
                      \cup Below(Append(p, "right"))
<1>0. /\ p \in Places /\ Len(p) \in Nat
      /\ \A q \in Live : q \in DOMAIN data /\ q \in Places /\ Len(q) \in Nat
  BY NodeIsPlace DEF IInv, Live
<1>1. ASSUME NEW s \in Sides PROVE Below(Append(p, s)) \subseteq Below(p)
  BY <1>0, BelowSide DEF Below
<1>2. {p} \ overwrite \subseteq Below(p)
  BY <1>0, UpFull DEF Below, Live
<1>3. ASSUME NEW q \in Below(p), q # p
      PROVE  \E s \in Sides : q \in Below(Append(p, s))
  <2>1. q \in Live /\ q \in Places /\ Len(q) \in Nat /\ Len(p) <= Len(q) /\ Up(q, Len(p)) = p
    BY <1>0 DEF Below
  <2>2. Len(p) + 1 \in 0..Len(q) /\ Len(p) \in 0..Len(q)
    <3>1. Len(p) # Len(q)
      BY <1>3, <2>1, UpFull
    <3> QED
      BY <1>0, <2>1, <3>1
  <2>3. PICK s \in Sides : s = q[Len(p) + 1]
    BY <1>0, <2>1, <2>2 DEF Places
  <2>4. /\ Up(q, Len(p) + 1) \in Places /\ Len(Up(q, Len(p) + 1)) = Len(p) + 1
        /\ \A n \in 1..(Len(p) + 1) : Up(q, Len(p) + 1)[n] = q[n]
    BY <2>1, <2>2, UpType
  <2>5. \A n \in 1..Len(p) : p[n] = q[n]
    BY <2>1, <2>2, UpType
  <2>6. /\ Append(p, s) \in Places /\ Len(Append(p, s)) = Len(p) + 1
        /\ Append(p, s)[Len(p) + 1] = s
        /\ \A n \in 1..Len(p) : Append(p, s)[n] = p[n]
    BY <1>0, Child
  <2>7. \A n \in 1..(Len(p) + 1) : Up(q, Len(p) + 1)[n] = Append(p, s)[n]
    BY <1>0, <2>3, <2>4, <2>5, <2>6
  <2>8. Up(q, Len(p) + 1) = Append(p, s)
    BY <2>4, <2>6, <2>7, Same
  <2> QED
    BY <2>1, <2>2, <2>6, <2>8 DEF Below
<1>4. "left" \in Sides /\ "right" \in Sides
  BY DEF Sides
<1>5. ASSUME NEW q \in Below(p), q # p
      PROVE  q \in Below(Append(p, "left")) \cup Below(Append(p, "right"))
  BY <1>3, <1>5 DEF Sides
<1>6. p \in Below(p) => p \notin overwrite
  BY DEF Below, Live
<1> QED
  BY <1>1, <1>2, <1>4, <1>5, <1>6

\* What is below the left link comes before the node, what is below the right
\* link after it.
LEMMA BelowLeft ==
  ASSUME IInv, NEW p \in DOMAIN data, NEW q \in Below(Append(p, "left"))
  PROVE  Before(q, p)
<1>0. /\ p \in Places /\ Len(p) \in Nat /\ q \in Places /\ Len(q) \in Nat
      /\ "left" \in Sides
  BY NodeIsPlace DEF IInv, Live, Below, Sides
<1>1. /\ Len(p) < Len(q) /\ Turn(q, Len(p) + 1) = "left" /\ Turn(p, Len(p) + 1) = "here"
      /\ \A m \in 1..Len(p) : Turn(q, m) = Turn(p, m)
  BY <1>0, BelowSide DEF Below
<1>2. Len(p) + 1 \in 1..(Len(q) + 1) /\ (Len(p) + 1) - 1 = Len(p)
  BY <1>0, <1>1
<1> QED
  BY <1>1, <1>2 DEF Before

LEMMA BelowRight ==
  ASSUME IInv, NEW p \in DOMAIN data, NEW r \in Below(Append(p, "right"))
  PROVE  Before(p, r)
<1>0. /\ p \in Places /\ Len(p) \in Nat /\ r \in Places /\ Len(r) \in Nat
      /\ "right" \in Sides
  BY NodeIsPlace DEF IInv, Live, Below, Sides
<1>1. /\ Turn(r, Len(p) + 1) = "right" /\ Turn(p, Len(p) + 1) = "here"
      /\ \A m \in 1..Len(p) : Turn(r, m) = Turn(p, m)
  BY <1>0, BelowSide DEF Below
<1>2. Len(p) + 1 \in 1..(Len(p) + 1) /\ (Len(p) + 1) - 1 = Len(p)
  BY <1>0
<1> QED
  BY <1>1, <1>2 DEF Before

LEMMA BelowApart ==
  ASSUME IInv, NEW p \in DOMAIN data,
         NEW q \in Below(Append(p, "left")), NEW r \in Below(Append(p, "right"))
  PROVE  Before(q, r)
<1>0. /\ p \in Places /\ Len(p) \in Nat
      /\ q \in Places /\ Len(q) \in Nat /\ r \in Places /\ Len(r) \in Nat
      /\ "left" \in Sides /\ "right" \in Sides
  BY NodeIsPlace DEF IInv, Live, Below, Sides
<1>1. /\ Len(p) < Len(q) /\ Turn(q, Len(p) + 1) = "left"
      /\ \A m \in 1..Len(p) : Turn(q, m) = Turn(p, m)
  BY <1>0, BelowSide DEF Below
<1>2. /\ Turn(r, Len(p) + 1) = "right"
      /\ \A m \in 1..Len(p) : Turn(r, m) = Turn(p, m)
  BY <1>0, BelowSide DEF Below
<1>3. Len(p) + 1 \in 1..(Len(q) + 1) /\ (Len(p) + 1) - 1 = Len(p)
  BY <1>0, <1>1
<1> QED
  BY <1>1, <1>2, <1>3 DEF Before

\* Whatever answers the recursion lists at p the live nodes below p in order:
\* a place that is deepest among those where it does not is a place where it does.
LEMMA WalkBelow ==
  ASSUME IInv, NEW g, Solves(g, Ends), NEW p \in Ends
  PROVE  Ordered(g[p]) /\ Members(g[p]) = Below(p)
<1> DEFINE Right(q) == Ordered(g[q]) /\ Members(g[q]) = Below(q)
           W == {q \in Ends : ~Right(q)}
<1>1. PICK b \in Nat : \A q \in DOMAIN data : Len(q) <= b
  BY DEF IInv, Shallow
<1>2. \A q \in Ends : q \in Places /\ Len(q) \in Nat /\ Len(q) <= b + 1
  <2> SUFFICES ASSUME NEW q \in Ends PROVE q \in Places /\ Len(q) \in Nat /\ Len(q) <= b + 1
    OBVIOUS
  <2>1. q \in Places /\ Len(q) \in Nat
    BY NodesAreEnds DEF Places
  <2>2. CASE q = Root
    BY <1>1, <2>1, <2>2, EmptySeq DEF Root
  <2>3. ASSUME NEW a \in DOMAIN data, NEW s \in Sides, q = Append(a, s) PROVE Len(q) <= b + 1
    <3>1. a \in Places /\ Len(a) \in Nat
      BY NodeIsPlace DEF IInv
    <3> QED
      BY <1>1, <2>3, <3>1, Child
  <2> QED
    BY <2>1, <2>2, <2>3 DEF Ends
<1>3. ASSUME NEW q \in Ends, \A r \in Ends : Len(r) > Len(q) => Right(r)
      PROVE  Right(q)
  <2>1. g[q] = Visit(g, q)
    BY DEF Solves
  <2>2. CASE q \notin DOMAIN data
    <3>1. g[q] = << >>
      BY <2>1, <2>2 DEF Visit
    <3>2. Ordered(<< >>) /\ Members(<< >>) = {}
      BY EmptySeq DEF Ordered, Members
    <3>3. Below(q) = {}
      <4> SUFFICES ASSUME NEW r \in Below(q) PROVE FALSE
        OBVIOUS
      <4>1. r \in DOMAIN data /\ Len(r) \in Nat /\ Len(q) <= Len(r) /\ Up(r, Len(q)) = q
        BY NodeIsPlace DEF Below, Live, IInv
      <4>2. Len(q) \in 0..Len(r)
        BY <1>2, <4>1
      <4> QED
        BY <2>2, <4>1, <4>2 DEF IInv, Rooted
    <3> QED
      BY <3>1, <3>2, <3>3
  <2>3. CASE q \in DOMAIN data
    <3> DEFINE mid == IF q \in overwrite THEN << >> ELSE <<q>>
    <3>1. ASSUME NEW s \in Sides PROVE Right(Append(q, s))
      <4>1. Append(q, s) \in Ends /\ Len(Append(q, s)) = Len(q) + 1
        BY <1>2, <2>3, NodesAreEnds, Child
      <4>2. Len(Append(q, s)) > Len(q)
        BY <1>2, <4>1
      <4> HIDE DEF Right
      <4> QED
        BY <1>3, <4>1, <4>2
    <3>2. Right(Append(q, "left")) /\ Right(Append(q, "right"))
      BY <3>1 DEF Sides
    <3>3. g[q] = (g[Append(q, "left")] \o mid) \o g[Append(q, "right")]
      BY <2>1, <2>3 DEF Visit
    <3>4. Ordered(mid) /\ Members(mid) = {q} \ overwrite
      <4>1. CASE q \in overwrite
        BY <4>1, EmptySeq DEF Ordered, Members
      <4>2. CASE q \notin overwrite
        <5>1. mid = <<q>> /\ mid \in Seq(Places) /\ Len(mid) = 1 /\ mid[1] = q
          BY <1>2, <4>2
        <5> HIDE DEF mid
        <5>2. Ordered(mid)
          BY <5>1 DEF Ordered
        <5>3. Members(mid) = {q}
          BY <5>1 DEF Members
        <5> QED
          BY <4>2, <5>2, <5>3
      <4> QED
        BY <4>1, <4>2
    <3> HIDE DEF mid
    <3> DEFINE s == g[Append(q, "left")] \o mid
    <3>5. \A a \in Below(Append(q, "left")) : Before(a, q)
      BY <2>3, BelowLeft
    <3>6. Ordered(s) /\ Members(s) = Below(Append(q, "left")) \cup ({q} \ overwrite)
      BY <3>2, <3>4, <3>5, WalkConcat
    <3> HIDE DEF s
    <3>7. \A a \in Members(s), c \in Below(Append(q, "right")) : Before(a, c)
      <4>1. \A a \in Below(Append(q, "left")), c \in Below(Append(q, "right")) : Before(a, c)
        BY <2>3, BelowApart
      <4>2. \A c \in Below(Append(q, "right")) : Before(q, c)
        BY <2>3, BelowRight
      <4> QED
        BY <3>6, <4>1, <4>2
    <3>8. Ordered(s \o g[Append(q, "right")])
          /\ Members(s \o g[Append(q, "right")]) = Members(s) \cup Below(Append(q, "right"))
      BY <3>2, <3>6, <3>7, WalkConcat
    <3> QED
      BY <2>3, <3>3, <3>6, <3>8, BelowNode DEF s
  <2> QED
    BY <2>2, <2>3
<1>4. W = {}
  <2> SUFFICES ASSUME W # {} PROVE FALSE
    OBVIOUS
  <2> DEFINE T == {b + 1 - Len(q) : q \in W}
  <2> HIDE DEF Right
  <2>1. T \in SUBSET Nat /\ T # {}
    BY <1>1, <1>2
  <2>2. PICK n \in T : \A m \in T : n <= m
    BY <2>1, Least
  <2>3. PICK q \in W : n = b + 1 - Len(q)
    BY <2>2
  <2>4. \A r \in W : n <= b + 1 - Len(r)
    BY <2>2
  <2>5. \A r \in Ends : Len(r) > Len(q) => Right(r)
    BY <1>1, <1>2, <2>3, <2>4
  <2> QED
    BY <1>3, <2>3, <2>5
<1> QED
  BY <1>4

LEMMA WalkListsLive ==
  ASSUME IInv
  PROVE  Ordered(Walk) /\ Members(Walk) = Live
<1>1. PICK g : Solves(g, Ends) /\ Walk = g[Root]
  BY WalkSolves
<1>2. Root \in Ends
  BY DEF Ends
<1>3. Below(Root) = Live
  <2>1. \A q \in Live : q \in Places /\ Len(q) \in Nat /\ Up(q, 0) = Root
    BY NodeIsPlace, UpNone DEF IInv, Live
  <2>2. Len(Root) = 0
    BY EmptySeq DEF Root
  <2> QED
    BY <2>1, <2>2 DEF Below
<1> QED
  BY <1>1, <1>2, <1>3, WalkBelow

\* The recursive walk visits the live nodes, each once, in the order of their
\* places, in trees of any size and however nodes were reused: First and After,
\* by which Sessions takes the walk apart, say of it what the code does.
THEOREM WalkTheorem == Spec => []WalkInOrder
<1>1. ASSUME IInv PROVE WalkInOrder
  <2>1. Ordered(Walk) /\ Members(Walk) = Live
    BY <1>1, WalkListsLive
  <2>2. DOMAIN Walk = 1..Len(Walk)
    BY <2>1 DEF Ordered
  <2> QED
    BY <2>1, <2>2 DEF WalkInOrder, Ordered, Members
<1> QED
  BY <1>1, Invariant, PTL

\* What setDataArray lists at this moment: the sessions of the live nodes, in
\* alphabetical order while the tree is in order.
Listed == [n \in DOMAIN Walk |-> Key(Walk[n])]

LEMMA ListsWalk ==
  ASSUME IInv, NEW a, a = Listed
  PROVE  /\ a \in Seq(Keys)
         /\ {a[n] : n \in DOMAIN a} = {Key(p) : p \in Live}
         /\ ~reordered => \A m, n \in DOMAIN a : m < n => a[m] < a[n]
<1>1. /\ Walk \in Seq(Places) /\ Len(Walk) \in Nat /\ DOMAIN Walk = 1..Len(Walk)
      /\ {Walk[n] : n \in DOMAIN Walk} = Live
      /\ \A m, n \in DOMAIN Walk : m < n => Before(Walk[m], Walk[n])
  BY WalkListsLive DEF Ordered, Members
<1>2. \A n \in DOMAIN Walk : Walk[n] \in Live
  BY <1>1
<1>3. \A p \in Live : Key(p) \in Keys
  BY DEF IInv, TypeOK, Live, Key
<1> HIDE DEF Walk
<1>4. DOMAIN a = DOMAIN Walk /\ \A n \in DOMAIN Walk : a[n] = Key(Walk[n])
  BY DEF Listed
<1>5. a \in Seq(Keys)
  BY <1>1, <1>2, <1>3, <1>4 DEF Listed
<1>6. {a[n] : n \in DOMAIN a} = {Key(p) : p \in Live}
  BY <1>1, <1>4
<1>7. ASSUME ~reordered, NEW m \in DOMAIN a, NEW n \in DOMAIN a, m < n
      PROVE  a[m] < a[n]
  <2>1. Walk[m] \in Live /\ Walk[n] \in Live /\ Before(Walk[m], Walk[n])
    BY <1>1, <1>2, <1>4, <1>7
  <2>2. Key(Walk[m]) < Key(Walk[n])
    BY <1>7, <2>1, Sorted DEF SortedUntilReordered
  <2> QED
    BY <1>4, <2>2
<1> QED
  BY <1>5, <1>6, <1>7

\* The list of who is online names everybody who is and nobody else, in order
\* and once each while no node was given another name, for any number of users.
THEOREM ListsTheorem == Spec => []ListsOnline
<1>1. Init => ListsOnline
  BY DEF Init, ListsOnline
<1>2. IInv /\ ListsOnline /\ [Next]_vars => ListsOnline'
  <2> SUFFICES ASSUME IInv, ListsOnline, [Next]_vars PROVE ListsOnline'
    OBVIOUS
  <2>1. CASE UNCHANGED vars
    BY <2>1 DEF vars, listing, ListsOnline, Live, Key
  <2>2. CASE ListOnline
    <3>1. /\ answer' \in Seq(Keys)
          /\ {answer'[n] : n \in DOMAIN answer'} = {Key(p) : p \in Live}
          /\ ~reordered => \A m, n \in DOMAIN answer' : m < n => answer'[m] < answer'[n]
      <4>1. answer' = Listed
        BY <2>2 DEF ListOnline, Listed
      <4> QED
        BY <4>1, ListsWalk
    <3>2. UNCHANGED <<data, overwrite, reordered>>
      BY <2>2 DEF ListOnline, tree
    <3>3. {Key(p) : p \in Live}' = {Key(p) : p \in Live}
      BY <3>2 DEF Key, Live
    <3> QED
      BY <3>1, <3>2, <3>3 DEF ListsOnline
  <2>3. ASSUME ~freed, freed' = freed PROVE ListsOnline'
    BY <2>3 DEF ListsOnline
  <2>4. ASSUME NEW k \in Keys, Login(k) \/ Remove(k) PROVE freed' = freed
    BY <2>4 DEF Login, InsertRoot, InsertLeaf, InsertReuse, Remove, listing
  <2>5. ASSUME NEW p \in Live, Leave(p) PROVE freed' = freed
    BY <2>5 DEF Leave, listing
  <2> QED
    BY <2>1, <2>2, <2>3, <2>4, <2>5 DEF Next
<1> QED
  BY <1>1, <1>2, Invariant, PTL DEF Spec

\* The recursive walk is the order of places, and the list that is made of it is
\* complete, in trees of any size.
THEOREM WalkListsTheorem == Spec => []WalkLists
<1>1. WalkInOrder /\ ListsOnline => WalkLists
  BY DEF WalkLists
<1> QED
  BY <1>1, WalkTheorem, ListsTheorem, PTL
=============================================================================
