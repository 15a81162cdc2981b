--------------------------- MODULE AccountsProofs ---------------------------
(***************************************************************************)
(* Proofs about Accounts, for any number of names, workers, crashes and    *)
(* startups: the two facts that module Sessions assumes of the database,   *)
(* and when a registered name can be pending as well.                      *)
(***************************************************************************)
EXTENDS Accounts, TLAPS

\* What the acts of the workers and the administrators leave alone.
Settled == UNCHANGED <<tables, Registered, Administrators, phase>>

\* Types hold at first ...
LEMMA TypeInit == Init => TypeOK
BY DEF Init, TypeOK

\* ... and every step keeps them.
LEMMA TypeStep == TypeOK /\ [Next]_vars => TypeOK'
<1> SUFFICES ASSUME TypeOK, [Next]_vars PROVE TypeOK'
  OBVIOUS
<1> USE DEF TypeOK, Following, Tables
<1>1. CASE Startup
  <2>1. phase' \in DOMAIN Following \cup {"serving"}
    BY <1>1 DEF Startup, Start, StatementFails, CreateTable, InsertUser, InsertRank, Starting
  <2>2. CASE Start \/ StatementFails
    BY <2>1, <2>2 DEF Start, StatementFails, rows
  <2>3. CASE CreateTable
    BY <2>1, <2>3 DEF CreateTable, rows, history
  <2>4. CASE InsertUser
    BY <2>1, <2>4, NamesAssumption DEF InsertUser, history
  <2>5. CASE InsertRank
    BY <2>1, <2>5, NamesAssumption DEF InsertRank, history
  <2> QED
    BY <1>1, <2>2, <2>3, <2>4, <2>5 DEF Startup
<1>2. CASE Crash
  BY <1>2 DEF Crash, rows, history
<1>3. CASE Remove
  BY <1>3 DEF Remove, rows, history
<1>4. ASSUME NEW w \in Workers, Register(w) PROVE TypeOK'
  <2>1. CASE Check(w) \/ InsertFails(w)
    BY <2>1 DEF Check, InsertFails, rows, history
  <2>2. CASE Insert(w)
    <3>1. asked[w] \in Names
      BY <2>2 DEF Insert, Asked
    <3>2. Written(asked[w]) \in Names
      BY <3>1, NumeralsAssumption DEF Written
    <3> QED
      BY <2>2, <3>1, <3>2 DEF Insert
  <2> QED
    BY <1>4, <2>1, <2>2 DEF Register
<1>5. ASSUME NEW n \in Names, Administrate(n) PROVE TypeOK'
  BY <1>5 DEF Administrate, AcceptRegistration, AddAdmin, history
<1>6. CASE UNCHANGED vars
  BY <1>6 DEF vars, rows, history
<1> QED
  BY <1>1, <1>2, <1>3, <1>4, <1>5, <1>6 DEF Next

\* Types.
THEOREM TypeCorrect == Spec => []TypeOK
BY TypeInit, TypeStep, PTL DEF Spec

\* The insert of ACCEPT_REGISTRATION gives too few columns, that of ADD_ADMIN
\* one too many.
LEMMA NotInsertable ==
  /\ ~Insertable("Registered", {"W_USER", "W_PASS"})
  /\ ~Insertable("Administrators", {"W_USER", "W_PASS"})
BY DEF Insertable, Mandatory, Columns, Tables

\* Neither a request nor a command touches an account or a table.
LEMMA RequestsSettle ==
  ASSUME (\E w \in Workers : Register(w)) \/ (\E n \in Names : Administrate(n)) \/ Remove
  PROVE  Settled
<1>1. ASSUME NEW w \in Workers, Register(w) PROVE Settled
  BY <1>1 DEF Register, Check, Insert, InsertFails, Settled, rows
<1>2. ASSUME NEW n \in Names, Administrate(n) PROVE Settled
  BY <1>2, NotInsertable DEF Administrate, AcceptRegistration, AddAdmin, Settled
<1>3. CASE Remove
  BY <1>3 DEF Remove, Settled, rows
<1> QED
  BY <1>1, <1>2, <1>3

\* Administrators are registered users, however startups are cut off.
THEOREM AdministratorsTheorem == Spec => []AdministratorsRegistered
<1>1. Init => AdministratorsRegistered
  BY DEF Init, AdministratorsRegistered
<1>2. AdministratorsRegistered /\ [Next]_vars => AdministratorsRegistered'
  <2> SUFFICES ASSUME AdministratorsRegistered, [Next]_vars
               PROVE  AdministratorsRegistered'
    OBVIOUS
  <2>1. CASE Startup
    BY <2>1 DEF Startup, Start, StatementFails, CreateTable, InsertUser, InsertRank,
                Rankable, AdministratorsRegistered, rows
  <2>2. CASE Crash \/ UNCHANGED vars
    BY <2>2 DEF Crash, vars, rows, AdministratorsRegistered
  <2>3. CASE Settled
    BY <2>3 DEF Settled, AdministratorsRegistered
  <2> QED
    BY <2>1, <2>2, <2>3, RequestsSettle DEF Next
<1> QED
  BY <1>1, <1>2, PTL DEF Spec

\* Nothing that is asked of a serving server changes who can log in.
THEOREM AccountsTheorem == Spec => AccountsSettled
<1>1. [Next]_vars => [phase = "serving" => UNCHANGED <<Registered, Administrators>>]_vars
  <2> SUFFICES ASSUME Next, phase = "serving"
               PROVE  UNCHANGED <<Registered, Administrators>>
    OBVIOUS
  <2>1. ~Startup
    BY DEF Startup, Start, StatementFails, CreateTable, InsertUser, InsertRank, Starting,
           Following
  <2>2. CASE Crash
    BY <2>2 DEF Crash, rows
  <2>3. CASE Settled
    BY <2>3 DEF Settled
  <2> QED
    BY <2>1, <2>2, <2>3, RequestsSettle DEF Next
<1> QED
  BY <1>1, PTL DEF Spec, AccountsSettled

\* n is pending, or a worker has checked it and is about to make it so.
Claimed(n) == n \in PendingRegistrations \/ \E w \in Workers : asked[w] = n

\* Why a name is not pending twice: nobody but the default administrator is ever
\* registered, and whoever claims his name did so against an empty join,
\* whether he was registered at that time or not.
ClaimInv ==
  /\ TypeOK
  /\ Registered \subseteq {Default}
  /\ Claimed(Default) => Default \in unchecked

\* It holds at first.
LEMMA ClaimInit == Init => ClaimInv
BY TypeInit, NamesAssumption DEF Init, ClaimInv, Claimed

\* A check keeps it: without the administrator's row the join is empty.
LEMMA ClaimCheck ==
  ASSUME ClaimInv, NEW w \in Workers, Check(w)
  PROVE  Claimed(Default)' => Default \in unchecked'
<1>1. /\ unchecked \subseteq unchecked' /\ UNCHANGED PendingRegistrations
      /\ \A v \in Workers \ {w} : asked'[v] = asked[v]
  BY DEF Check, rows, ClaimInv, TypeOK
<1>2. CASE asked'[w] # Default
  BY <1>1, <1>2 DEF ClaimInv, Claimed
<1>3. CASE asked'[w] = Default
  <2>1. CASE Joined(Default)
    BY <1>3, <2>1 DEF Check, ClaimInv, TypeOK
  <2>2. CASE ~Joined(Default)
    <3>1. Registered = {} \/ PendingRegistrations = {}
      BY <2>2 DEF Joined, ClaimInv
    <3> QED
      BY <1>3, <2>2, <3>1 DEF Check, ClaimInv, TypeOK
  <2> QED
    BY <2>1, <2>2
<1> QED
  BY <1>2, <1>3

\* Every step keeps it.
LEMMA ClaimStep == ClaimInv /\ [Next]_vars => ClaimInv'
<1> SUFFICES ASSUME ClaimInv, [Next]_vars PROVE ClaimInv'
  OBVIOUS
<1>1. TypeOK'
  BY TypeStep DEF ClaimInv
<1>2. Registered' \subseteq {Default}
  <2>1. CASE Startup
    BY <2>1 DEF Startup, Start, StatementFails, CreateTable, InsertUser, InsertRank,
                ClaimInv, rows
  <2>2. CASE Crash \/ UNCHANGED vars
    BY <2>2 DEF Crash, vars, rows, ClaimInv
  <2>3. CASE Settled
    BY <2>3 DEF Settled, ClaimInv
  <2> QED
    BY <2>1, <2>2, <2>3, RequestsSettle DEF Next
<1>3. Claimed(Default)' => Default \in unchecked'
  <2>1. CASE Startup \/ Remove \/ UNCHANGED vars
    BY <2>1 DEF Startup, Start, StatementFails, CreateTable, InsertUser, InsertRank,
                Remove, ClaimInv, Claimed, rows, history, vars
  <2>2. CASE Crash
    BY <2>2, NamesAssumption DEF Crash, ClaimInv, Claimed, rows, history
  <2>3. ASSUME NEW w \in Workers, Insert(w) \/ InsertFails(w)
        PROVE  Claimed(Default)' => Default \in unchecked'
    <3>1. \A n \in Names : Written(n) = Default => n = Default
      BY NumeralsAssumption DEF Written
    <3> QED
      BY <2>3, <3>1, NamesAssumption
      DEF Insert, InsertFails, Asked, ClaimInv, Claimed, TypeOK, rows, history
  <2>4. ASSUME NEW n \in Names, Administrate(n)
        PROVE  Claimed(Default)' => Default \in unchecked'
    BY <2>4, NotInsertable DEF Administrate, AcceptRegistration, AddAdmin, ClaimInv,
       Claimed, history
  <2> QED
    BY <2>1, <2>2, <2>3, <2>4, ClaimCheck DEF Next, Register
<1> QED
  BY <1>1, <1>2, <1>3 DEF ClaimInv

\* A registered name is pending as well only when its check failed or saw an
\* empty join, for any number of workers and any sequence of startups.
THEOREM PendingTheorem == Spec => []PendingTwiceUnchecked
<1>1. ClaimInv => PendingTwiceUnchecked
  BY DEF ClaimInv, Claimed, PendingTwiceUnchecked
<1> QED
  BY <1>1, ClaimInit, ClaimStep, PTL DEF Spec

-----------------------------------------------------------------------------
(* The default administrator.                                              *)

\* What a startup without a failure has done when it comes to a statement.
DefaultInv ==
  /\ TypeOK
  /\ ~failed =>
       /\ phase = "PendingRegistrations" => "Registered" \in tables
       /\ phase = "Administrators" => {"Registered", "PendingRegistrations"} \subseteq tables
       /\ phase \in {"user", "rank"} => tables = Tables
       /\ phase = "rank" => Default \in Registered
       /\ phase = "serving" => Default \in Administrators

\* Every step keeps it.
LEMMA DefaultStep == DefaultInv /\ [Next]_vars => DefaultInv'
<1> SUFFICES ASSUME DefaultInv, [Next]_vars PROVE DefaultInv'
  OBVIOUS
<1>1. TypeOK'
  BY TypeStep DEF DefaultInv
<1> USE DEF DefaultInv, Following, Tables
<1>2. CASE Startup
  <2>1. CASE Start \/ StatementFails
    BY <1>1, <2>1 DEF Start, StatementFails, Starting
  <2>2. CASE CreateTable
    BY <1>1, <2>2 DEF CreateTable, Starting, rows, history, TypeOK, Tables
  <2>3. CASE InsertUser
    BY <1>1, <2>3 DEF InsertUser, Starting, history
  <2>4. CASE InsertRank
    BY <1>1, <2>4 DEF InsertRank, Rankable, Starting, history
  <2> QED
    BY <1>2, <2>1, <2>2, <2>3, <2>4 DEF Startup
<1>3. CASE Crash
  BY <1>1, <1>3 DEF Crash
<1>4. CASE Settled /\ failed' = failed
  BY <1>1, <1>4 DEF Settled
<1>5. (\E w \in Workers : Register(w)) \/ (\E n \in Names : Administrate(n)) \/ Remove
        \/ UNCHANGED vars => Settled /\ failed' = failed
  BY RequestsSettle DEF Register, Check, Insert, InsertFails, Administrate, AcceptRegistration, AddAdmin,
         Remove, Settled, vars, rows, history
<1> QED
  BY <1>2, <1>3, <1>4, <1>5 DEF Next

\* A startup in which no statement fails leaves the default administrator in
\* place, whatever the startups before it, and the crashes between, have left.
THEOREM DefaultTheorem == Spec => []DefaultInPlace
<1>1. Init => DefaultInv
  BY TypeInit DEF Init, DefaultInv
<1>2. DefaultInv => DefaultInPlace
  BY DEF DefaultInv, DefaultInPlace
<1> QED
  BY <1>1, <1>2, DefaultStep, PTL DEF Spec

-----------------------------------------------------------------------------
(* Pending rows.                                                           *)

\* Nothing but a worker's insert touches the pending rows or what is recorded.
LEMMA OthersPendingStay ==
  ASSUME Startup \/ Crash \/ Remove \/ (\E n \in Names : Administrate(n)) \/ UNCHANGED vars
  PROVE  UNCHANGED <<PendingRegistrations, recorded>>
<1>1. CASE Startup
  BY <1>1 DEF Startup, Start, StatementFails, CreateTable, InsertUser, InsertRank, rows, history
<1>2. CASE Crash \/ Remove \/ UNCHANGED vars
  BY <1>2 DEF Crash, Remove, vars, rows, history
<1>3. ASSUME NEW n \in Names, Administrate(n)
      PROVE  UNCHANGED <<PendingRegistrations, recorded>>
  BY <1>3, NotInsertable DEF Administrate, AcceptRegistration, AddAdmin, history
<1> QED
  BY <1>1, <1>2, <1>3

\* Each name whose insert worked has one row, and each row one name, for any
\* number of workers and whatever numbers the names are texts of.
THEOREM RowsTheorem == Spec => []OneRowEach
<1>1. Init => OneRowEach
  BY DEF Init, OneRowEach
<1>2. OneRowEach /\ [Next]_vars => OneRowEach'
  <2> SUFFICES ASSUME OneRowEach, [Next]_vars PROVE OneRowEach'
    OBVIOUS
  <2>1. CASE UNCHANGED <<PendingRegistrations, recorded>>
    BY <2>1 DEF OneRowEach
  <2>2. ASSUME NEW w \in Workers, Register(w) PROVE OneRowEach'
    <3>1. CASE Check(w) \/ InsertFails(w)
      BY <2>1, <3>1 DEF Check, InsertFails, rows, history
    <3>2. CASE Insert(w)
      <4>1. CASE PendingRegistrations' = PendingRegistrations \cup {Written(asked[w])}
                 /\ recorded' = recorded \cup {asked[w]} /\ Free(asked[w])
        BY <4>1 DEF OneRowEach, Free
      <4> QED
        BY <2>1, <3>2, <4>1 DEF Insert
    <3> QED
      BY <2>2, <3>1, <3>2 DEF Register
  <2> QED
    BY <2>1, <2>2, OthersPendingStay DEF Next
<1> QED
  BY <1>1, <1>2, PTL DEF Spec
=============================================================================
