\* Two connections, under the fairness of the threads.
CONSTANTS
  c1 = c1
  c2 = c2
  c3 = c3
  Conns = {c1, c2}
  Nobody = Nobody
  Absent = Absent
  Former = Former
  NoName <- MCNoName
  Names <- MCNames
  Registered <- MCRegistered
  Admins <- MCAdmins
  Requests <- ChatRequests
  Messages <- ChatMessages
  Ends = {"closed", "stalled"}
SPECIFICATION FairSpec
PROPERTIES
  WorkerEnds
  PollerAttends
  PassEnds

\* A process that undefined behaviour has ended takes no step.
CHECK_DEADLOCK FALSE
