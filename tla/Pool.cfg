\* Two slots, four connections.
CONSTANTS
  j1 = j1
  j2 = j2
  j3 = j3
  j4 = j4
  Slots = {0, 1}
  NoSlot = NoSlot
  Jobs = {j1, j2, j3, j4}
  NoJob = NoJob
SPECIFICATION FairSpec
\* All the connections may have been accepted.
CHECK_DEADLOCK FALSE
INVARIANTS
  TypeOK
  NeverTerminates
  JoinsOnlyFinished
PROPERTIES
  BackToAccept
  PoolSpec
