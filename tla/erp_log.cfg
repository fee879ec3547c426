SPECIFICATION Spec
CONSTANTS
  Order <- SmallOrder
  Ids = {"a", "b"}
  Users = {"u"}
  Feeds <- SmallFeeds
  PageSize = 1
  MaxRuns = 1
  MaxChanges = 0
  MaxDrops = 0
  MaxErrors = 0
  MaxCrashes = 0
INVARIANT LogTellsResult
CHECK_DEADLOCK FALSE
