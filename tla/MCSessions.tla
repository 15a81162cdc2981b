----------------------------- MODULE MCSessions -----------------------------
(* Small instances of Sessions. *)
EXTENDS Sessions, TLC

CONSTANTS c1, c2, c3

MCNoName == 0
MCNames == {1, 2, 3}
MCRegistered == {1, 2}
MCAdmins == {2}

Request(t, k, to) == [type |-> t, key |-> k, connect_to |-> to]
Message(t, to) == [type |-> t, to |-> to]

\* Connections can be exchanged for one another; names, being ordered, cannot.
MCSymmetry == Permutations(Conns)

\* Every kind of request and of message.
AllRequests ==
  {Request("Login", 1, 0), Request("DisconnectLogin", 1, 0),
   Request("AdminLogin", 1, 0), Request("AdminLogin", 2, 0),
   Request("AnonymousConnect", 3, 1)}
AllMessages ==
  {Message("INTERNAL", 1), Message("ADMINISTRATE", 0), Message("malformed", 0)}

\* A user and anonymous ones, who write to each other.
ChatRequests == {Request("Login", 1, 0), Request("AnonymousConnect", 3, 1)}
ChatMessages == {Message("INTERNAL", 3)}
=============================================================================
