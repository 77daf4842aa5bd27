SPECIFICATION FairSpec
CONSTANTS
  r1 = r1
  r2 = r2
  Rooms = {r1, r2}
  MaxTracks = 2
  MaxRenewals = 1
  Plans <- SomePlans
INVARIANTS TypeOK NeverRejected MetadataFits
PROPERTIES Opens TracksShown
CHECK_DEADLOCK FALSE
