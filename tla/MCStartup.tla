----------------------------- MODULE MCStartup -----------------------------
(* Small instances of Startup: two ports to ask for, two more to be given. *)
EXTENDS Startup

Option(i) == [index |-> i, arg |-> NoPort]
PortOption(q) == [index |-> "PORT", arg |-> q]

\* Options in several orders, repeated, refused and left out.
MCArgs ==
  {<< >>, <<Option("HELP"), Option("LISTEN")>>, <<Option("LISTEN"), Option("UNKNOWN")>>,
   <<Option("LISTEN"), Option("VERBOSE")>>, <<Option("LISTEN"), PortOption(2)>>,
   <<PortOption(2), Option("LISTEN"), PortOption(1)>>, <<PortOption(2)>>}

\* Two servers that are told to listen, on one port.
RivalArgs == {<<Option("LISTEN")>>}
=============================================================================
