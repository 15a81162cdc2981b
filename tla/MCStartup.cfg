\* Two processes of any command line, and another program.
CONSTANTS
  Procs = {p1, p2}
  Args <- MCArgs
  Ports = {1, 2}
  DefaultPort = 1
  Ephemeral = {3, 4}
  NoPort = 0
  Programs = {1}
SPECIFICATION Spec
INVARIANTS
  TypeOK
  PortUnlessRivaled
