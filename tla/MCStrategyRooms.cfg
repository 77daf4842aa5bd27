\* Leaving for good ends everything.
SPECIFICATION FairSpec
CONSTANTS
  p1 = p1
  p2 = p2
  Peers = {p1, p2}
  MaxLoops = 2
  MaxFrames = 2
  Settings <- MCSettings
INVARIANTS TypeOK PresenceTold KeepsAnnouncing AwakeForAReason
PROPERTIES Silent Meets
CHECK_DEADLOCK FALSE
