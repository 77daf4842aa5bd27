SPECIFICATION Spec
CONSTANTS
  Rooms = {r1}
  MaxJoins <- JoinedTwice
  MaxConns = 1
  ChunkSize = 2
  MaxSubIds = 3
  AdaptersUsed = {"nostr"}
  MaxMessages = 1
CHECK_DEADLOCK FALSE
INVARIANT Reached
