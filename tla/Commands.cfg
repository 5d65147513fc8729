SPECIFICATION Spec
CONSTANTS
  Lines <- MCLines
  Names <- MCNames
  Member <- MCMember
  LowerOf <- MCLowerOf
  FileAt <- MCFileAt
INVARIANTS
  TakenAsMeant
  RequestsAreOwn
  LeavesIffExit
  ShownAsSent
CHECK_DEADLOCK FALSE
