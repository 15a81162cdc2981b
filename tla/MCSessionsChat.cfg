\* Three connections that log in under two names, search and chat.
CONSTANTS
  c1 = c1
  c2 = c2
  c3 = c3
  Conns = {c1, c2, c3}
  Nobody = Nobody
  Absent = Absent
  Former = Former
  NoName <- MCNoName
  Names <- MCNames
  Registered <- MCRegistered
  Admins <- MCAdmins
  Requests <- ChatRequests
  Messages <- ChatMessages
  Ends = {"closed"}
SYMMETRY MCSymmetry
SPECIFICATION Spec
INVARIANTS
  SenderStays
  ReachesAddressee
  EvictedByNamesake
PROPERTIES
  FindIsRight
  ComesOnlineFound

\* A process that undefined behaviour has ended takes no step.
CHECK_DEADLOCK FALSE
