------------------------------ MODULE Directory ------------------------------
(***************************************************************************)
(* What the server promises about who is online.  Every connection is at   *)
(* most once in its life in the directory of sessions: it enters under one *)
(* identity that it is entitled to, keeps that identity, and leaves for    *)
(* good.  Nothing is said of how the directory is stored, of the threads,  *)
(* or of who else uses the same name.                                      *)
(***************************************************************************)
CONSTANTS
  Conns,        \* accepted connections
  Names,        \* the names sessions can have
  NoName,       \* the empty name
  Registered,   \* names with a row in table Registered
  Admins,       \* names with a row in table Administrators
  Absent,       \* a connection that has not logged in
  Former        \* a connection whose session has ended

VARIABLE session   \* what every connection is in the directory

\* The identities connection c may hold: a registered user by password, an
\* administrator among them, anybody under an alias.
Entitled(c) ==
  {who \in [sock_stream : {c}, key : Names, is_admin : BOOLEAN,
            registered : BOOLEAN, connect_to : Names \cup {NoName}] :
     /\ who.registered => who.key \in Registered
     /\ who.is_admin => who.registered /\ who.key \in Admins}

Init == session = [c \in Conns |-> Absent]

Becomes(c, who) == session' = [session EXCEPT ![c] = who]

Register(c) ==
  /\ session[c] = Absent /\ session'[c] \in Entitled(c)
  /\ Becomes(c, session'[c])

Drop(c) ==
  /\ session[c] \in Entitled(c)
  /\ Becomes(c, Former)

Next == \E c \in Conns : Register(c) \/ Drop(c)

Spec == Init /\ [][Next]_session
=============================================================================
