\* A handshake, requests and edits; two requests of the server, awaited or not.
SPECIFICATION FairSpec
CONSTANTS
  MaxMsgs = 5
  MaxAsks = 2
PROPERTIES ServesInOrder RequestsAnswered ServerEnds
CHECK_DEADLOCK FALSE
