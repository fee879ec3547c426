SPECIFICATION Spec
CONSTANTS
  Order <- SmallOrder
  Ids = {"a", "b"}
  Users = {"u"}
  Feeds <- SmallFeeds
  PageSize = 1
  MaxRuns = 2
  MaxChanges = 1
  MaxDrops = 1
  MaxErrors = 1
  MaxCrashes = 1
INVARIANTS
  TypeOK
  CleanSyncMirrors
  SeenAreWritten
  ResultsOnRecord
PROPERTIES
  SyncEnds
CHECK_DEADLOCK FALSE
