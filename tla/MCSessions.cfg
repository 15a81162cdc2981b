\* Two connections, every kind of request and of message.
CONSTANTS
  c1 = c1
  c2 = c2
  c3 = c3
  Conns = {c1, c2}
  Nobody = Nobody
  Absent = Absent
  Former = Former
  NoName <- MCNoName
  Names <- MCNames
  Registered <- MCRegistered
  Admins <- MCAdmins
  Requests <- AllRequests
  Messages <- AllMessages
  Ends = {"closed", "broken"}
SYMMETRY MCSymmetry
SPECIFICATION Spec
INVARIANTS
  TypeOK
  OpenInUse
  EndsExplained
PROPERTIES
  DirectoryKept
  DescriptorsKept

\* A process that undefined behaviour has ended takes no step.
CHECK_DEADLOCK FALSE
