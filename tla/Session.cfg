\* Three requests and two deliveries in one session.
CONSTANTS
  MaxRequests = 3
  MaxIncoming = 2
SPECIFICATION FairSpec
\* The session ends.
CHECK_DEADLOCK FALSE
INVARIANTS
  TypeOK
  InOrder
  ServerClosesFirst
PROPERTIES
  NothingAfterClose
  PatientLeaves
