\* Two servers and another program.
CONSTANTS
  Procs = {p1, p2}
  Args <- RivalArgs
  Ports = {1, 2}
  DefaultPort = 1
  Ephemeral = {3, 4}
  NoPort = 0
  Programs = {1}
SPECIFICATION Spec
INVARIANT ListensOnPort
