\* The sender waits for each message to be received, or it does not.
CONSTANTS
  MaxMessages = 5
  MaxChunk = 20
SPECIFICATION FairSpec
\* The sender may close, and then all is done.
CHECK_DEADLOCK FALSE
INVARIANTS
  TypeOK
  Conservation
  HeadersInOrder
  OneByOne
  NothingDiscarded
PROPERTIES
  AllTaken
  ReceiverSpec
