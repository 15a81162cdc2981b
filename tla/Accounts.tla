------------------------------ MODULE Accounts ------------------------------
(***************************************************************************)
(* The accounts: the three tables of the database, what the server does to *)
(* them when it starts (WheespaServer::prepareDatabase), what workers do   *)
(* to register a user (ParseRequest::registerUser), what an administrator  *)
(* asks of the poller (HandleReceived::handleAdmin), and crashes.          *)
(*                                                                         *)
(* Every statement is one atomic, durable step of SQLite, and any of them  *)
(* may fail: another connection holds the lock, and nobody waits for it.   *)
(* A row is the name in its W_USER.  An administrator's GET_* commands only *)
(* read a table, and are left out.                                         *)
(***************************************************************************)
EXTENDS Integers

CONSTANTS
  Names,      \* W_USER
  Default,    \* "wAdministrator"
  Numerals,   \* the names that are all digits
  Canonical,  \* the text that a column of SQLite makes of a number: 7 of 007
  Workers,    \* worker threads that register users
  Nobody      \* no name

ASSUME NamesAssumption == Default \in Names /\ Nobody \notin Names
ASSUME NumeralsAssumption ==
  Numerals \subseteq Names \ {Default} /\ Canonical \in [Numerals -> Names \ {Default}]

Tables == {"Registered", "PendingRegistrations", "Administrators"}

\* Mutant: W_MAIL may be NULL.
MandatoryButMail ==
  [t \in Tables |-> IF t = "Administrators" THEN {"W_USER"} ELSE {"W_USER", "W_PASS"}]

\* The columns of a table that must be given in an insert, and all columns.
Mandatory ==
  [t \in Tables |-> IF t = "Administrators" THEN {"W_USER"}
                    ELSE {"W_USER", "W_PASS", "W_MAIL"}]
Columns ==
  [t \in Tables |-> IF t = "Administrators" THEN {"W_USER"}
                    ELSE {"W_USER", "W_PASS", "W_MAIL", "W_KEY"}]

VARIABLES
  tables,      \* the tables that were created
  Registered,
  PendingRegistrations,
  Administrators,
  phase,       \* the next statement of the startup, or "serving", or "down"
  asked,       \* the name each worker has checked and is about to insert
  fault,       \* an administrator's command ran into undefined behaviour
  failed,      \* history: a statement of this startup found the lock taken
  accepted,    \* history: names an administrator accepted, all tables being there
  unchecked,   \* history: pending names whose check saw no rows at all
  recorded     \* history: the names whose registration went into the database

rows == <<Registered, PendingRegistrations, Administrators>>
history == <<failed, accepted, unchecked, recorded>>
vars == <<tables, rows, phase, asked, fault, history>>

Init ==
  /\ tables = {}
  /\ Registered = {} /\ PendingRegistrations = {} /\ Administrators = {}
  /\ phase = "down" /\ asked = [w \in Workers |-> Nobody]
  /\ fault = FALSE
  /\ failed = FALSE /\ accepted = {} /\ unchecked = {} /\ recorded = {}

Serving == phase = "serving" /\ ~fault

\* An insert that gives these columns can succeed.
Insertable(table, columns) ==
  /\ table \in tables
  /\ Mandatory[table] \subseteq columns /\ columns \subseteq Columns[table]

-----------------------------------------------------------------------------
(* Startup.                                                                *)

Start ==
  /\ phase = "down" /\ ~fault
  /\ phase' = "Registered" /\ failed' = FALSE
  /\ UNCHANGED <<tables, rows, asked, fault, accepted, unchecked, recorded>>

\* What follows when a statement has worked, or failed: nothing but a message
\* depends on it.
Following ==
  [Registered |-> "PendingRegistrations", PendingRegistrations |-> "Administrators",
   Administrators |-> "user", user |-> "rank", rank |-> "serving"]

Starting == phase \in DOMAIN Following /\ ~fault

StatementFails ==
  /\ Starting
  /\ phase' = Following[phase] /\ failed' = TRUE
  /\ UNCHANGED <<tables, rows, asked, fault, accepted, unchecked, recorded>>

\* "create table if not exists".
CreateTable ==
  /\ Starting /\ phase \in Tables
  /\ tables' = tables \cup {phase}
  /\ phase' = Following[phase]
  /\ UNCHANGED <<rows, asked, fault, history>>

\* The default administrator is inserted, or is there already.
InsertUser ==
  /\ Starting /\ phase = "user"
  /\ Registered' = IF "Registered" \in tables THEN Registered \cup {Default}
                   ELSE Registered
  /\ phase' = Following[phase]
  /\ UNCHANGED <<tables, PendingRegistrations, Administrators, asked, fault, history>>

\* Mutant: without the foreign key.
RankableAnyway == "Administrators" \in tables

\* Mutant: only a user inserted in this startup gets the rank.
RankableIfNew == "Administrators" \in tables /\ Registered = {}

\* Foreign keys are enforced on this connection.
Rankable == "Administrators" \in tables /\ Default \in Registered

InsertRank ==
  /\ Starting /\ phase = "rank"
  /\ Administrators' = IF Rankable THEN Administrators \cup {Default}
                       ELSE Administrators
  /\ phase' = Following[phase]
  /\ UNCHANGED <<tables, Registered, PendingRegistrations, asked, fault, history>>

\* The process ends, in whatever way; what it has written stays.
Crash ==
  /\ phase # "down" /\ ~fault
  /\ phase' = "down" /\ asked' = [w \in Workers |-> Nobody]
  /\ UNCHANGED <<tables, rows, fault, history>>

-----------------------------------------------------------------------------
(* Registering, in the workers.                                            *)

\* Mutant: registerUser goes on without a name.
AskedAtAll(w) == TRUE

Asked(w) == asked[w] # Nobody

\* Mutant: the query looks at the names pending only.
JoinedPending(n) == \E r \in Registered, p \in PendingRegistrations : p = n

\* The join of Registered and PendingRegistrations has a row for n.
Joined(n) == \E r \in Registered, p \in PendingRegistrations : r = n \/ p = n

\* checkExists answers false; it does so as well when its statement fails.
Check(w) ==
  /\ Serving /\ ~Asked(w)
  /\ \E n \in Names :
       /\ asked' = [asked EXCEPT ![w] = n]
       /\ \/ Joined(n) /\ unchecked' = unchecked \cup {n}
          \/ /\ ~Joined(n)
             /\ unchecked' = IF Registered = {} \/ PendingRegistrations = {}
                             THEN unchecked \cup {n} ELSE unchecked
  /\ UNCHANGED <<tables, rows, phase, fault, failed, accepted, recorded>>

\* insert writes a value that is all digits into its statement without quotes.
Written(n) == IF n \in Numerals THEN Canonical[n] ELSE n

\* Mutant: W_USER is not unique, or the insert one "or ignore".
FreeAnyway(n) == TRUE

\* W_USER is unique.
Free(n) == Written(n) \notin PendingRegistrations

\* The insert works unless its row is pending by now.
Insert(w) ==
  /\ Serving /\ Asked(w)
  /\ asked' = [asked EXCEPT ![w] = Nobody]
  /\ IF /\ Insertable("PendingRegistrations", {"W_USER", "W_PASS", "W_MAIL", "W_KEY"})
        /\ Free(asked[w])
       THEN /\ PendingRegistrations' = PendingRegistrations \cup {Written(asked[w])}
            /\ recorded' = recorded \cup {asked[w]}
       ELSE UNCHANGED <<PendingRegistrations, recorded>>
  /\ UNCHANGED <<tables, Registered, Administrators, phase, fault, failed, accepted,
                 unchecked>>

\* Its statement fails.
InsertFails(w) ==
  /\ Serving /\ Asked(w)
  /\ asked' = [asked EXCEPT ![w] = Nobody]
  /\ UNCHANGED <<tables, rows, phase, fault, history>>

-----------------------------------------------------------------------------
(* An administrator's commands, in the poller.                             *)

\* Two statements in one call: when the insert fails, the delete is not tried.
AcceptRegistration(n) ==
  /\ Serving /\ n \in PendingRegistrations
  /\ accepted' = IF tables = Tables THEN accepted \cup {n} ELSE accepted
  /\ IF Insertable("Registered", {"W_USER", "W_PASS"}) /\ n \notin Registered
       THEN /\ Registered' = Registered \cup {n}
            /\ PendingRegistrations' = PendingRegistrations \ {n}
       ELSE UNCHANGED <<Registered, PendingRegistrations>>
  /\ UNCHANGED <<tables, Administrators, phase, asked, fault, failed, unchecked,
                 recorded>>

\* Table Administrators has no column W_PASS.
AddAdmin(n) ==
  /\ Serving /\ n \in Registered
  /\ Administrators' = IF Insertable("Administrators", {"W_USER", "W_PASS"})
                       THEN Administrators \cup {n} ELSE Administrators
  /\ UNCHANGED <<tables, Registered, PendingRegistrations, phase, asked, fault, history>>

\* "W_ID = " + id is the text from its id-th character on: for ids up to 7 the
\* statement is incomplete and fails, beyond it is read out of bounds.
Remove ==
  /\ Serving
  /\ \E id \in {1, 7, 8} : fault' = (id > 7)
  /\ UNCHANGED <<tables, rows, phase, asked, history>>

-----------------------------------------------------------------------------
Startup == Start \/ StatementFails \/ CreateTable \/ InsertUser \/ InsertRank
Register(w) == Check(w) \/ Insert(w) \/ InsertFails(w)
Administrate(n) == AcceptRegistration(n) \/ AddAdmin(n)

Next ==
  \/ Startup \/ Crash \/ Remove
  \/ \E w \in Workers : Register(w)
  \/ \E n \in Names : Administrate(n)

Spec == Init /\ [][Next]_vars

-----------------------------------------------------------------------------
(* Properties.                                                             *)

\* Types; a table has no rows before it is created.
TypeOK ==
  /\ tables \subseteq Tables
  /\ Registered \subseteq Names /\ PendingRegistrations \subseteq Names
  /\ Administrators \subseteq Names
  /\ phase \in DOMAIN Following \cup {"serving", "down"}
  /\ asked \in [Workers -> Names \cup {Nobody}]
  /\ fault \in BOOLEAN /\ failed \in BOOLEAN
  /\ accepted \subseteq Names /\ unchecked \subseteq Names /\ recorded \subseteq Names

\* Administrators are registered users, although only the startup's connection
\* enforces foreign keys (wheespa_server.cc 24, 57): module Sessions counts on
\* it when it lets adminLogin ask table Administrators after login.
AdministratorsRegistered == Administrators \subseteq Registered

\* While the server serves, no request and no command changes who can log in
\* or who is an administrator: module Sessions may take both for constants.
\* (ACCEPT_REGISTRATION gives no W_MAIL, ADD_ADMIN gives a column that is not
\* there, REMOVE_* give no condition; handle_received.cc 55-106.)
AccountsSettled ==
  [][phase = "serving" => UNCHANGED <<Registered, Administrators>>]_vars

\* A startup in which no statement found the lock taken leaves the default
\* administrator in place, wherever earlier startups were cut off
\* (wheespa_server.cc 44-67).
DefaultInPlace == phase = "serving" /\ ~failed => Default \in Administrators

\* A registered name is pending as well only when the check before its insert
\* failed, or saw an empty join because nobody was pending
\* (handle_request.cc 132-137): not because two workers interleave, nor because
\* a startup registers a name that somebody asked for before.
PendingTwiceUnchecked ==
  Registered \cap PendingRegistrations \subseteq unchecked

\* Every pending row is the registration of one name, and every name whose
\* insert worked has a row of its own, also after crashes: two workers that found
\* their names free at the same time, or names that are texts of one number, do
\* not share one (handle_request.cc 109-125, dbapi.cc 50-73).
OneRowEach ==
  /\ PendingRegistrations = {Written(n) : n \in recorded}
  /\ \A m, n \in recorded : Written(m) = Written(n) => m = n

\* ACCEPT_REGISTRATION is to "accept a pending registration"
\* (headers/handle_received.hpp 27): whoever was accepted is registered.
AcceptedRegistered == accepted \subseteq Registered
=============================================================================
