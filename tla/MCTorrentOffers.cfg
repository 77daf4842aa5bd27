SPECIFICATION TorrentFairSpec
CONSTANTS
  h1 = h1
  h2 = h2
  h3 = h3
  Handles = {h1, h2, h3}
  PoolSize = 2
  Strategies = {"any", "torrent"}
  Wanted = 2
  Trackers = 2
INVARIANTS TypeOK SingleCustody Accounted OutstandingOffers
PROPERTIES ReleasedAfterDestroy KeepsCustody
CHECK_DEADLOCK FALSE
