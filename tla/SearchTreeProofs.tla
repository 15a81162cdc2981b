-------------------------- MODULE SearchTreeProofs --------------------------
(***************************************************************************)
(* Facts about the operators of SearchTree that the proofs about its users *)
(* rest on: places and the nodes above them, search paths, and the order   *)
(* in which the walk visits the nodes.                                     *)
(***************************************************************************)
EXTENDS SearchTree, SequenceTheorems, FiniteSetTheorems, WellFoundedInduction, TLAPS

\* The nodes above place p, and p: its first n links.
Up(p, n) == SubSeq(p, 1, n)

-----------------------------------------------------------------------------
(* Numbers and places.                                                     *)

\* A set of natural numbers has a least element.
LEMMA Least ==
  ASSUME NEW T \in SUBSET Nat, T # {}
  PROVE  \E n \in T : \A m \in T : n <= m
<1>1. PICK n \in T : \A m \in T : <<m, n>> \notin OpToRel(<, Nat)
  BY NatLessThanWellFounded, WFMin
<1>2. \A m \in T : ~(m < n)
  BY <1>1 DEF OpToRel
<1> QED
  BY <1>2

LEMMA UpType ==
  ASSUME NEW p \in Places, NEW n \in 0..Len(p)
  PROVE  /\ Up(p, n) \in Places
         /\ Len(Up(p, n)) = n
         /\ \A m \in 1..n : Up(p, n)[m] = p[m]
<1>1. \A m \in 1..n : p[m] \in Sides
  BY DEF Places
<1>2. n \in Int
  BY DEF Places
<1>3. /\ SubSeq(p, 1, n) \in Seq(Sides)
      /\ Len(SubSeq(p, 1, n)) = IF 1 <= n THEN n - 1 + 1 ELSE 0
      /\ \A m \in 1..(n - 1 + 1) : SubSeq(p, 1, n)[m] = p[1 + m - 1]
  BY <1>1, <1>2, SubSeqProperties
<1> QED
  BY <1>3 DEF Up, Places

\* Two places that go the same way.
LEMMA Same ==
  ASSUME NEW p \in Places, NEW q \in Places, Len(p) = Len(q),
         \A n \in 1..Len(p) : p[n] = q[n]
  PROVE  p = q
BY SeqEqual DEF Places

LEMMA UpUp ==
  ASSUME NEW p \in Places, NEW m \in 0..Len(p), NEW n \in 0..m
  PROVE  Up(Up(p, m), n) = Up(p, n)
<1>1. Len(p) \in Nat
  BY DEF Places
<1>2. /\ Up(p, m) \in Places /\ Len(Up(p, m)) = m
      /\ \A i \in 1..m : Up(p, m)[i] = p[i]
  BY UpType
<1>3. n \in 0..Len(p) /\ n \in 0..Len(Up(p, m))
  BY <1>1, <1>2
<1>4. /\ Up(p, n) \in Places /\ Len(Up(p, n)) = n
      /\ \A i \in 1..n : Up(p, n)[i] = p[i]
  BY <1>3, UpType
<1>5. /\ Up(Up(p, m), n) \in Places /\ Len(Up(Up(p, m), n)) = n
      /\ \A i \in 1..n : Up(Up(p, m), n)[i] = Up(p, m)[i]
  BY <1>2, <1>3, UpType
<1> QED
  BY <1>2, <1>4, <1>5, Same

LEMMA UpFull ==
  ASSUME NEW p \in Places
  PROVE  Up(p, Len(p)) = p
BY SubSeqFull DEF Up, Places

LEMMA UpNone ==
  ASSUME NEW p \in Places
  PROVE  Up(p, 0) = Root
BY SubSeqEmpty DEF Up, Root

\* A child's way is its parent's and a link more.
LEMMA Child ==
  ASSUME NEW p \in Places, NEW s \in Sides
  PROVE  /\ Append(p, s) \in Places
         /\ Len(Append(p, s)) = Len(p) + 1
         /\ Append(p, s)[Len(p) + 1] = s
         /\ \A n \in 1..Len(p) : Append(p, s)[n] = p[n]
         /\ \A n \in 0..Len(p) : Up(Append(p, s), n) = Up(p, n)
<1>1. /\ Append(p, s) \in Places
      /\ Len(Append(p, s)) = Len(p) + 1
      /\ Append(p, s)[Len(p) + 1] = s
      /\ \A n \in 1..Len(p) : Append(p, s)[n] = p[n]
  BY AppendProperties DEF Places
<1>2. ASSUME NEW n \in 0..Len(p) PROVE Up(Append(p, s), n) = Up(p, n)
  <2>1. Len(p) \in Nat
    BY DEF Places
  <2>2. n \in 0..Len(Append(p, s))
    BY <1>1, <2>1
  <2>3. /\ Up(p, n) \in Places /\ Len(Up(p, n)) = n
        /\ \A i \in 1..n : Up(p, n)[i] = p[i]
    BY UpType
  <2>4. /\ Up(Append(p, s), n) \in Places /\ Len(Up(Append(p, s), n)) = n
        /\ \A i \in 1..n : Up(Append(p, s), n)[i] = Append(p, s)[i]
    BY <1>1, <2>2, UpType
  <2>5. \A i \in 1..n : Append(p, s)[i] = p[i]
    BY <1>1, <2>1
  <2> QED
    BY <2>3, <2>4, <2>5, Same
<1> QED
  BY <1>1, <1>2

-----------------------------------------------------------------------------
(* Search paths.                                                           *)

\* A key has one search path: the shorter of two of its places lies on the way
\* to the longer one.
LEMMA OnePath ==
  ASSUME NEW k, NEW p \in Places, NEW q \in Places, Len(p) <= Len(q),
         OnSearchPath(p, k), OnSearchPath(q, k)
  PROVE  p = Up(q, Len(p))
<1> DEFINE T == {n \in 1..Len(p) : p[n] # q[n]}
<1>0. Len(p) \in Nat /\ Len(q) \in Nat
  BY DEF Places
<1>1. CASE T = {}
  <2>1. \A n \in 1..Len(p) : p[n] = q[n]
    BY <1>1
  <2>2. /\ Up(q, Len(p)) \in Places /\ Len(Up(q, Len(p))) = Len(p)
        /\ \A n \in 1..Len(p) : Up(q, Len(p))[n] = q[n]
    BY <1>0, UpType
  <2> QED
    BY <2>1, <2>2, Same
<1>2. CASE T # {}
  <2>1. PICK n \in T : \A m \in T : n <= m
    <3>1. T \in SUBSET Nat
      BY <1>0
    <3> QED
      BY <3>1, <1>2, Least
  <2>2. n - 1 \in 0..Len(p) /\ n - 1 \in 0..Len(q) /\ n \in 1..Len(q)
    BY <1>0
  <2>3. /\ Up(p, n - 1) \in Places /\ Len(Up(p, n - 1)) = n - 1
        /\ \A m \in 1..(n - 1) : Up(p, n - 1)[m] = p[m]
    BY <2>2, UpType
  <2>4. /\ Up(q, n - 1) \in Places /\ Len(Up(q, n - 1)) = n - 1
        /\ \A m \in 1..(n - 1) : Up(q, n - 1)[m] = q[m]
    BY <2>2, UpType
  <2>5. \A m \in 1..(n - 1) : p[m] = q[m]
    BY <1>0, <2>1
  <2>6. Up(p, n - 1) = Up(q, n - 1)
    BY <2>3, <2>4, <2>5, Same
  <2>7. p[n] = Side(Up(p, n - 1), k) /\ q[n] = Side(Up(q, n - 1), k)
    BY <2>2 DEF OnSearchPath, Up
  <2> QED
    BY <2>1, <2>6, <2>7
<1> QED
  BY <1>1, <1>2

\* What a search meets above its end are other keys.
LEMMA OthersAbove ==
  ASSUME NEW k, NEW p \in Places, OnSearchPath(p, k), NEW n \in 0..(Len(p) - 1)
  PROVE  /\ Key(Up(p, n)) # k
         /\ p[n + 1] = Side(Up(p, n), k)
<1>1. n + 1 \in 1..Len(p) /\ (n + 1) - 1 = n
  BY DEF Places
<1> QED
  BY <1>1 DEF OnSearchPath, Up

\* The places of one key's search path that hold the key: there is at most one.
LEMMA OneHolder ==
  ASSUME NEW k, NEW p \in Places, NEW q \in Places,
         OnSearchPath(p, k), OnSearchPath(q, k), Key(p) = k, Key(q) = k
  PROVE  p = q
<1>0. Len(p) \in Nat /\ Len(q) \in Nat
  BY DEF Places
<1>1. ASSUME NEW a \in Places, NEW b \in Places, Len(a) \in Nat, Len(b) \in Nat,
             OnSearchPath(a, k), OnSearchPath(b, k), Key(a) = k, Len(a) <= Len(b)
      PROVE  a = b
  <2>1. a = Up(b, Len(a))
    BY <1>1, OnePath
  <2>2. ~(Len(a) < Len(b))
    <3> SUFFICES ASSUME Len(a) < Len(b) PROVE FALSE
      OBVIOUS
    <3>1. Len(a) \in 0..(Len(b) - 1)
      BY <1>1
    <3>2. Key(Up(b, Len(a))) # k
      BY <1>1, <3>1, OthersAbove
    <3> QED
      BY <1>1, <2>1, <3>2
  <2>3. Len(a) = Len(b)
    BY <1>1, <2>2
  <2> QED
    BY <2>1, <2>3, UpFull
<1>2. CASE Len(p) <= Len(q)
  BY <1>0, <1>1, <1>2
<1>3. CASE Len(q) <= Len(p)
  BY <1>0, <1>1, <1>3
<1> QED
  BY <1>0, <1>2, <1>3

\* A search goes on to the child on its side.
LEMMA PathToChild ==
  ASSUME NEW k, NEW p \in Places, OnSearchPath(p, k), Key(p) # k
  PROVE  Toward(p, k) \in Places /\ OnSearchPath(Toward(p, k), k)
<1> DEFINE c == Append(p, Side(p, k))
<1>0. Side(p, k) \in Sides /\ Len(p) \in Nat
  BY DEF Side, Sides, Places
<1>1. /\ c \in Places /\ Len(c) = Len(p) + 1 /\ c[Len(p) + 1] = Side(p, k)
      /\ \A n \in 1..Len(p) : c[n] = p[n]
      /\ \A n \in 0..Len(p) : Up(c, n) = Up(p, n)
  BY <1>0, Child
<1>2. ASSUME NEW n \in 1..Len(c) PROVE Key(Up(c, n - 1)) # k /\ c[n] = Side(Up(c, n - 1), k)
  <2>1. CASE n \in 1..Len(p)
    <3>1. n - 1 \in 0..Len(p)
      BY <1>0, <2>1
    <3>2. Key(Up(p, n - 1)) # k /\ p[n] = Side(Up(p, n - 1), k)
      BY <2>1 DEF OnSearchPath, Up
    <3> QED
      BY <1>1, <2>1, <3>1, <3>2
  <2>2. CASE n = Len(p) + 1
    <3>1. Up(c, n - 1) = p
      BY <1>0, <1>1, <2>2, UpFull
    <3> QED
      BY <1>1, <2>2, <3>1
  <2> QED
    BY <1>0, <1>1, <2>1, <2>2
<1> QED
  BY <1>1, <1>2 DEF OnSearchPath, Up, Toward

\* A place's search path, read off another tree with the same keys above it.
LEMMA PathKept ==
  ASSUME NEW k, NEW p \in Places, OnSearchPath(p, k),
         \A n \in 0..(Len(p) - 1) : Key(Up(p, n))' = Key(Up(p, n))
  PROVE  OnSearchPath(p, k)'
<1>1. ASSUME NEW n \in 1..Len(p)
      PROVE  Key(Up(p, n - 1))' # k /\ p[n] = Side(Up(p, n - 1), k)'
  <2>1. n - 1 \in 0..(Len(p) - 1)
    BY DEF Places
  <2>2. Key(Up(p, n - 1)) # k /\ p[n] = Side(Up(p, n - 1), k)
    BY DEF OnSearchPath, Up
  <2> QED
    BY <2>1, <2>2 DEF Side
<1> QED
  BY <1>1 DEF OnSearchPath, Up

-----------------------------------------------------------------------------
(* The order of the walk.                                                  *)

\* How two places part at depth n: where the first of them goes is walked
\* before where the second one goes.
Parts(p, q, n) ==
  <<Turn(p, n), Turn(q, n)>> \in {<<"left", "here">>, <<"left", "right">>, <<"here", "right">>}

LEMMA TurnType ==
  ASSUME NEW p \in Places, NEW n \in Nat \ {0}
  PROVE  /\ Turn(p, n) \in {"left", "right", "here"}
         /\ Turn(p, n) = "here" <=> n > Len(p)
         /\ n <= Len(p) => Turn(p, n) = p[n]
<1>1. Len(p) \in Nat /\ \A m \in 1..Len(p) : p[m] \in {"left", "right"}
  BY DEF Places, Sides
<1> QED
  BY <1>1 DEF Turn

\* Of two places one comes before the other.
LEMMA BeforeTotal ==
  ASSUME NEW p \in Places, NEW q \in Places, p # q
  PROVE  Before(p, q) \/ Before(q, p)
<1>0. Len(p) \in Nat /\ Len(q) \in Nat
  BY DEF Places
<1> DEFINE T == {n \in Nat \ {0} : Turn(p, n) # Turn(q, n)}
<1>1. T # {}
  <2> SUFFICES ASSUME T = {} PROVE FALSE
    OBVIOUS
  <2>1. \A n \in Nat \ {0} : Turn(p, n) = Turn(q, n)
    OBVIOUS
  <2>2. ~(Len(p) < Len(q))
    BY <1>0, <2>1, TurnType
  <2>3. ~(Len(q) < Len(p))
    BY <1>0, <2>1, TurnType
  <2>4. Len(p) = Len(q)
    BY <1>0, <2>2, <2>3
  <2>5. \A n \in 1..Len(p) : p[n] = q[n]
    BY <1>0, <2>1, <2>4, TurnType
  <2> QED
    BY <2>4, <2>5, Same
<1>2. PICK n \in T : \A m \in T : n <= m
  <2>1. T \in SUBSET Nat
    OBVIOUS
  <2> QED
    BY <1>1, <2>1, Least
<1>3. \A m \in 1..(n - 1) : Turn(p, m) = Turn(q, m)
  BY <1>2
<1>4. n <= Len(p) + 1 /\ n <= Len(q) + 1
  <2>1. ~(n > Len(p) + 1)
    <3> SUFFICES ASSUME n > Len(p) + 1 PROVE FALSE
      OBVIOUS
    <3>1. Turn(q, Len(p) + 1) = "here"
      BY <1>0, <1>2, <1>3, TurnType
    <3> QED
      BY <1>0, <1>2, <3>1, TurnType
  <2>2. ~(n > Len(q) + 1)
    <3> SUFFICES ASSUME n > Len(q) + 1 PROVE FALSE
      OBVIOUS
    <3>1. Turn(p, Len(q) + 1) = "here"
      BY <1>0, <1>2, <1>3, TurnType
    <3> QED
      BY <1>0, <1>2, <3>1, TurnType
  <2> QED
    BY <1>0, <1>2, <2>1, <2>2
<1>5. /\ Turn(p, n) \in {"left", "right", "here"} /\ Turn(q, n) \in {"left", "right", "here"}
      /\ Turn(p, n) # Turn(q, n)
  BY <1>2, TurnType
<1>6. Parts(p, q, n) \/ Parts(q, p, n)
  BY <1>5 DEF Parts
<1> QED
  BY <1>0, <1>2, <1>3, <1>4, <1>6 DEF Before, Parts

\* A place that comes before another one parts from it somewhere.
LEMMA BeforeParts ==
  ASSUME NEW p \in Places, NEW q \in Places, Before(p, q)
  PROVE  \E n \in Nat \ {0} :
           /\ n <= Len(p) + 1 /\ Parts(p, q, n)
           /\ \A m \in 1..(n - 1) : Turn(p, m) = Turn(q, m)
<1>0. Len(p) \in Nat
  BY DEF Places
<1>1. PICK n \in 1..(Len(p) + 1) :
        Parts(p, q, n) /\ \A m \in 1..(n - 1) : Turn(p, m) = Turn(q, m)
  BY DEF Before, Parts
<1> QED
  BY <1>0, <1>1

LEMMA BeforeTransitive ==
  ASSUME NEW p \in Places, NEW q \in Places, NEW r \in Places, Before(p, q), Before(q, r)
  PROVE  Before(p, r)
<1>0. Len(p) \in Nat
  BY DEF Places
<1>1. PICK i \in Nat \ {0} : /\ i <= Len(p) + 1 /\ Parts(p, q, i)
                             /\ \A m \in 1..(i - 1) : Turn(p, m) = Turn(q, m)
  BY BeforeParts
<1>2. PICK j \in Nat \ {0} : /\ Parts(q, r, j)
                             /\ \A m \in 1..(j - 1) : Turn(q, m) = Turn(r, m)
  BY BeforeParts
<1>3. CASE i < j
  <2>1. Parts(p, r, i) /\ \A m \in 1..(i - 1) : Turn(p, m) = Turn(r, m)
    BY <1>1, <1>2, <1>3 DEF Parts
  <2> QED
    BY <1>0, <1>1, <2>1 DEF Before, Parts
<1>4. CASE j < i
  <2>1. Parts(p, r, j) /\ \A m \in 1..(j - 1) : Turn(p, m) = Turn(r, m)
    BY <1>1, <1>2, <1>4 DEF Parts
  <2>2. j \in 1..(Len(p) + 1)
    BY <1>0, <1>1, <1>4
  <2> QED
    BY <2>1, <2>2 DEF Before, Parts
<1>5. CASE i = j
  <2>1. Parts(p, r, i) /\ \A m \in 1..(i - 1) : Turn(p, m) = Turn(r, m)
    BY <1>1, <1>2, <1>5 DEF Parts
  <2> QED
    BY <1>0, <1>1, <2>1 DEF Before, Parts
<1> QED
  BY <1>3, <1>4, <1>5

LEMMA BeforeIrreflexive ==
  ASSUME NEW p \in Places
  PROVE  ~Before(p, p)
<1> SUFFICES ASSUME Before(p, p) PROVE FALSE
  OBVIOUS
<1>1. PICK n \in Nat \ {0} : Parts(p, p, n)
  BY BeforeParts
<1> QED
  BY <1>1 DEF Parts

\* A walk that has nodes left has one next node: the poller's walk, which
\* Sessions takes apart with First, never stands still, and never has a choice.
THEOREM FirstTheorem ==
  ASSUME NEW rest \in SUBSET Places, IsFiniteSet(rest), rest # {}
  PROVE  \E q \in rest : First(q, rest) /\ \A r \in rest : First(r, rest) => r = q
<1> DEFINE Prior(q) == {r \in rest : Before(r, q)}
           T == {Cardinality(Prior(q)) : q \in rest}
<1>1. \A q \in rest : IsFiniteSet(Prior(q)) /\ Cardinality(Prior(q)) \in Nat
  <2> SUFFICES ASSUME NEW q \in rest
               PROVE  IsFiniteSet(Prior(q)) /\ Cardinality(Prior(q)) \in Nat
    OBVIOUS
  <2>1. Prior(q) \in SUBSET rest
    OBVIOUS
  <2> HIDE DEF Prior
  <2> QED
    BY <2>1, FS_Subset, FS_CardinalityType
<1>2. T \in SUBSET Nat /\ T # {}
  BY <1>1
<1>3. PICK n \in T : \A m \in T : n <= m
  BY <1>2, Least
<1>4. PICK q \in rest : n = Cardinality(Prior(q))
  BY <1>3
<1>5. ASSUME NEW r \in rest, Before(r, q) PROVE FALSE
  <2>1. Prior(r) \in SUBSET Prior(q)
    BY <1>5, BeforeTransitive
  <2>2. r \in Prior(q) /\ r \notin Prior(r)
    BY <1>5, BeforeIrreflexive
  <2>3. Prior(r) # Prior(q)
    BY <2>2
  <2>4. n <= Cardinality(Prior(r))
    BY <1>3
  <2>5. /\ Cardinality(Prior(r)) \in Nat /\ Cardinality(Prior(q)) \in Nat
        /\ IsFiniteSet(Prior(q))
    BY <1>1
  <2> HIDE DEF Prior
  <2>6. /\ Cardinality(Prior(r)) <= Cardinality(Prior(q))
        /\ Cardinality(Prior(q)) = Cardinality(Prior(r)) => Prior(q) = Prior(r)
    BY <2>1, <2>5, FS_Subset
  <2> QED
    BY <1>4, <2>3, <2>4, <2>5, <2>6
<1>6. First(q, rest)
  BY <1>5, BeforeTotal DEF First
<1>7. ASSUME NEW r \in rest, First(r, rest) PROVE r = q
  BY <1>5, <1>7 DEF First
<1> QED
  BY <1>6, <1>7
=============================================================================
