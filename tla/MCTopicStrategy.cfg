SPECIFICATION FairSpec
CONSTANTS
  Rooms = {r1}
  MaxJoins <- JoinedTwiceElsewhere
  MaxConns = 2
  ChunkSize = 1
  MaxSubIds = 4
  AdaptersUsed = {"nostr", "ws", "mqtt"}
  MaxMessages = 1
CHECK_DEADLOCK FALSE
INVARIANTS TypeOK Listens RelayAgrees
PROPERTIES LeftIsReleased HearsAgain
