----------------------------- MODULE SearchTree -----------------------------
(***************************************************************************)
(* The tree of sessions, BinarySearchTree<WheespaConnected, std::string>   *)
(* of src/binary_tree.cc, as a heap that threads read and write one node   *)
(* at a time.  Nodes are never moved and never unlinked, so a node is its  *)
(* place: the sequence of links that leads to it from m_node.  A pointer   *)
(* is a place, and it is null while no node has been linked there.         *)
(*                                                                         *)
(* remove() only raises a node's overwrite flag, and insert() puts a new   *)
(* session into the first flagged node it meets on its way down, whatever  *)
(* the key: the flagged nodes still route searches by their old key.       *)
(*                                                                         *)
(* This module has no behaviour of its own.  SequentialTree drives it      *)
(* with one caller, Sessions with the server's threads.                    *)
(***************************************************************************)
EXTENDS Integers, Sequences, FiniteSets

VARIABLES
  data,       \* the WheespaConnected of every node, by the node's place
  overwrite   \* the places whose node is flagged as free for reuse

tree == <<data, overwrite>>

Sides == {"left", "right"}
Places == Seq(Sides)
Root == << >>

Key(p) == data[p].key
Live == DOMAIN data \ overwrite

-----------------------------------------------------------------------------
(* Stepping down, as find and insert do it.                                *)

\* Which link of node p a walk for key k follows.
Side(p, k) == IF Key(p) >= k THEN "left" ELSE "right"

\* The node (or null link) a walk for key k reaches from node p.
Toward(p, k) == Append(p, Side(p, k))

\* Mutants: linking without a look at the link; no reuse for the node's own
\* key.
CanLinkBlindly(p, k) == p \notin overwrite /\ Key(p) # k
CanReuseForOthers(p, k) == p \in overwrite /\ Key(p) # k

\* A new node for k can be linked below p: p is live, its key is not k, and
\* the link that k would follow is null.
CanLink(p, k) ==
  /\ p \notin overwrite
  /\ Key(p) # k
  /\ Toward(p, k) \notin DOMAIN data

\* Node p can be reused for a session with key k.
CanReuse(p, k) == p \in overwrite

-----------------------------------------------------------------------------
(* Writes.                                                                 *)

\* A new node at place p holds d; nodes are created with the flag down.
Link(p, d) ==
  /\ data' = [q \in DOMAIN data \cup {p} |-> IF q = p THEN d ELSE data[q]]
  /\ UNCHANGED overwrite

\* Reuse, first half: the flagged node p takes the new session ...
Assign(p, d) ==
  /\ data' = [data EXCEPT ![p] = d]
  /\ UNCHANGED overwrite

\* ... and second half: its flag is lowered, which makes the session visible.
Clear(p) ==
  /\ overwrite' = overwrite \ {p}
  /\ UNCHANGED data

\* Free the node at p for reuse.
Mark(p) ==
  /\ overwrite' = overwrite \cup {p}
  /\ UNCHANGED data

-----------------------------------------------------------------------------
(* Whole walks, for a caller that nobody else interferes with.             *)

\* Mutant: the search gives up at a flagged node.
OnUnflaggedPath(p, k) ==
  \A n \in 1..Len(p) :
    LET above == SubSeq(p, 1, n - 1)
    IN Key(above) # k /\ above \notin overwrite /\ p[n] = Side(above, k)

\* p is on the way of a search for k: every node above p has another key and
\* the link of p's way is the one the search follows.
OnSearchPath(p, k) ==
  \A n \in 1..Len(p) :
    LET above == SubSeq(p, 1, n - 1)
    IN Key(above) # k /\ p[n] = Side(above, k)

\* The node find(k) returns, as a set: empty stands for nullptr.
Find(k) == {p \in Live : Key(p) = k /\ OnSearchPath(p, k)}

-----------------------------------------------------------------------------
(* The in-order walk.                                                      *)

\* Where place p goes at depth n: down a link, or nowhere, for p ends above.
Turn(p, n) == IF n <= Len(p) THEN p[n] ELSE "here"

\* Mutant: the right subtree is forgotten.
BeforeButRight(p, q) ==
  \E n \in 1..(Len(p) + 1) :
    /\ \A m \in 1..(n - 1) : Turn(p, m) = Turn(q, m)
    /\ <<Turn(p, n), Turn(q, n)>> \in {<<"left", "here">>, <<"left", "right">>}

\* inOrder visits the node at p before the node at q.
Before(p, q) ==
  \E n \in 1..(Len(p) + 1) :
    /\ \A m \in 1..(n - 1) : Turn(p, m) = Turn(q, m)
    /\ <<Turn(p, n), Turn(q, n)>> \in
         {<<"left", "here">>, <<"left", "right">>, <<"here", "right">>}

\* The nodes that remain to be walked when the walk stands at p.
After(p) == {q \in DOMAIN data : Before(p, q)}

\* q is the first node of the set rest that the walk comes to.
First(q, rest) == q \in rest /\ \A r \in rest \ {q} : Before(q, r)

-----------------------------------------------------------------------------
\* Every node but the root hangs from a node.
WellFormed ==
  /\ IsFiniteSet(DOMAIN data)
  /\ DOMAIN data \subseteq Places
  /\ overwrite \subseteq DOMAIN data
  /\ \A p \in DOMAIN data : p # Root => SubSeq(p, 1, Len(p) - 1) \in DOMAIN data

EmptyTree == data = << >> /\ overwrite = {}
=============================================================================
