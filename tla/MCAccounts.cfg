\* Three names, two of which are texts of one number, and two workers.
CONSTANTS
  admin = admin
  seven = seven
  oo7 = oo7
  w1 = w1
  w2 = w2
  Names = {admin, seven, oo7}
  Default = admin
  Numerals = {seven, oo7}
  Canonical <- MCCanonical
  Workers = {w1, w2}
  Nobody = Nobody
SPECIFICATION Spec
INVARIANTS
  TypeOK
  AdministratorsRegistered
  DefaultInPlace
  PendingTwiceUnchecked
  OneRowEach
PROPERTY AccountsSettled

\* An administrator's command may run into undefined behaviour.
CHECK_DEADLOCK FALSE
