--------------------------- MODULE SequentialTree ---------------------------
(***************************************************************************)
(* The session tree driven by one caller at a time, whole calls of         *)
(* src/binary_tree.cc being single steps: the server's own guard (insert   *)
(* only when find answers nullptr), remove, and the poller's raising of an *)
(* overwrite flag.  It asks what the data structure is worth before any    *)
(* thread interferes.                                                      *)
(***************************************************************************)
EXTENDS SearchTree

CONSTANTS
  Keys,       \* the names that log in, ordered as std::string orders them
  MaxNodes    \* bound: the tree gets no more nodes than this

ASSUME KeysAssumption == Keys \subseteq Int
ASSUME MaxNodesAssumption == MaxNodes \in Nat \ {0}

VARIABLES
  answer,     \* what the last list of who is online said
  freed,      \* its copy of the tree was destroyed, and the root with it
  reordered   \* history: some node was reused for a key other than its own

listing == <<answer, freed>>
vars == <<data, overwrite, listing, reordered>>

Session(k) == [key |-> k]

\* insert walks down to node p: no node above p is flagged, and p is on the
\* way of the search for k.
OnInsertPath(p, k) ==
  /\ OnSearchPath(p, k)
  /\ \A n \in 1..Len(p) : SubSeq(p, 1, n - 1) \notin overwrite

\* The nodes at which insert can end its walk.
Landings(k) ==
  {p \in DOMAIN data : OnInsertPath(p, k) /\ (CanLink(p, k) \/ CanReuse(p, k))}

\* The ends of the links, linked and null.
Ends == {Root} \cup {Append(p, s) : p \in DOMAIN data, s \in Sides}

\* Mutant: the right subtree comes first.
WalkRightFirst ==
  LET w[p \in Ends] ==
        IF p \notin DOMAIN data THEN << >>
        ELSE w[Append(p, "right")] \o (IF p \in overwrite THEN << >> ELSE <<p>>)
               \o w[Append(p, "left")]
  IN  w[Root]

\* The nodes that inOrder visits, and setDataArray, in their order.
Walk ==
  LET w[p \in Ends] ==
        IF p \notin DOMAIN data THEN << >>
        ELSE w[Append(p, "left")] \o (IF p \in overwrite THEN << >> ELSE <<p>>)
               \o w[Append(p, "right")]
  IN  w[Root]

-----------------------------------------------------------------------------
Init == EmptyTree /\ answer = << >> /\ freed = FALSE /\ reordered = FALSE

\* Mutant: the first node is linked below a root that is not there.
InsertRootBelow(k) ==
  /\ data = << >>
  /\ Link(<<"left">>, Session(k))
  /\ UNCHANGED <<listing, reordered>>

\* insert into the empty tree.
InsertRoot(k) ==
  /\ data = << >>
  /\ Link(Root, Session(k))
  /\ UNCHANGED <<listing, reordered>>

\* insert a new node below the last node of the walk.
InsertLeaf(k) ==
  \E p \in Landings(k) :
    /\ CanLink(p, k)
    /\ Cardinality(DOMAIN data) < MaxNodes
    /\ Link(Toward(p, k), Session(k))
    /\ UNCHANGED <<listing, reordered>>

\* insert into a node freed before.
InsertReuse(k) ==
  \E p \in Landings(k) :
    /\ CanReuse(p, k)
    /\ data' = [data EXCEPT ![p] = Session(k)]
    /\ overwrite' = overwrite \ {p}
    /\ reordered' = (reordered \/ Key(p) # k)
    /\ UNCHANGED listing

\* A worker's login: insert only when find answers nullptr.
Login(k) ==
  /\ Find(k) = {}
  /\ InsertRoot(k) \/ InsertLeaf(k) \/ InsertReuse(k)

\* remove(k), as a worker calls it after a find that answered.
Remove(k) ==
  \E p \in Find(k) : Mark(p) /\ UNCHANGED <<listing, reordered>>

\* The poller flags the node it stands on, found or not.
Leave(p) == Mark(p) /\ UNCHANGED <<listing, reordered>>

\* A user asks who is online: setDataArray on a copy of the tree object, which
\* shares the nodes and deletes the root when it goes.
ListOnline ==
  /\ Live # {}
  /\ answer' = [n \in DOMAIN Walk |-> Key(Walk[n])]
  /\ freed' = TRUE
  /\ UNCHANGED <<tree, reordered>>

Next ==
  /\ ~freed
  /\ \/ \E k \in Keys : Login(k) \/ Remove(k)
     \/ \E p \in Live : Leave(p)
     \/ ListOnline

Spec == Init /\ [][Next]_vars

-----------------------------------------------------------------------------
(* Properties.                                                             *)

\* Types: a well-formed tree of names.  ListsOnline has the answer's.
TypeOK ==
  /\ WellFormed
  /\ \A p \in DOMAIN data : data[p] \in [key : Keys]
  /\ freed \in BOOLEAN
  /\ reordered \in BOOLEAN

\* A guarded insert never dereferences the null link below an equal key: when
\* find answers nullptr and the tree is not empty, the walk of insert ends at
\* exactly one node, whatever reuse did to the order (binary_tree.cc 37-55).
NeverFallsOff ==
  \A k \in Keys :
    Find(k) = {} /\ data # << >> => \E p \in Landings(k) : Landings(k) = {p}

\* While no node was reused for another key, find answers exactly the node of
\* every live session, so no name is ever online twice (binary_tree.cc 66-71).
EveryLiveFound == ~reordered => \A p \in Live : Find(Key(p)) = {p}

\* While no node was reused for another key, the in-order walk meets the live
\* sessions in the order of their names (binary_tree.cc 47-55, 90-97).
SortedUntilReordered ==
  ~reordered => \A p, q \in Live : Before(p, q) => Key(p) < Key(q)

\* Up to the first reuse for another key the tree is a binary search tree, which
\* find and the walk rely on (binary_tree.cc 47-55, 66-71, 90-97).
IsSearchTree == EveryLiveFound /\ SortedUntilReordered

\* The recursive walk visits the live nodes, each once, in the order of their
\* places, whatever their keys: this is how Sessions takes the walk apart
\* (binary_tree.cc 90-97, 133-139).
WalkInOrder ==
  /\ {Walk[n] : n \in DOMAIN Walk} = Live
  /\ \A m, n \in DOMAIN Walk : m < n => Before(Walk[m], Walk[n])

\* The list of who is online names everybody who is, in alphabetical order and
\* once each while no node was reused for another key (handle_received.cc
\* 125-135).
ListsOnline ==
  freed =>
    /\ answer \in Seq(Keys)
    /\ {answer[n] : n \in DOMAIN answer} = {Key(p) : p \in Live}
    /\ ~reordered => \A m, n \in DOMAIN answer : m < n => answer[m] < answer[n]

\* The walk, and the answer that is made of it (binary_tree.cc 90-97, 133-139,
\* handle_received.cc 125-135).
WalkLists == WalkInOrder /\ ListsOnline

\* A session that find answers, and that stays live, is hidden only by a login
\* that gives a freed node on its search path another name: never by linking a
\* node, by flagging one, or by a node that is not above it (binary_tree.cc
\* 47-51, 66-71).
HiddenOnlyByNewKey ==
  [][\A p \in Live \cap Live' :
       p \in Find(Key(p)) /\ p \notin Find(Key(p))' =>
         \E n \in 0..(Len(p) - 1) :
           LET above == SubSeq(p, 1, n)
           IN  above \in overwrite /\ Key(above)' # Key(above)]_vars
=============================================================================
