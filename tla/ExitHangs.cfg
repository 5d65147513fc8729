\* A request and EXIT in one chunk.
CONSTANTS
  MaxRequests = 1
  MaxIncoming = 0
SPECIFICATION FairSpec
\* The session ends.
CHECK_DEADLOCK FALSE
PROPERTIES
  ExitsChat
