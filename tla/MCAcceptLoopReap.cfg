\* Three connections: what is left of ended workers.
CONSTANTS
  c1 = c1
  c2 = c2
  c3 = c3
  Conns = {c1, c2, c3}
  NoConn = NoConn
  MaxOpen = 2
SYMMETRY MCSymmetry
SPECIFICATION Spec
INVARIANT EndedAreErased

\* The server stops.
CHECK_DEADLOCK FALSE
