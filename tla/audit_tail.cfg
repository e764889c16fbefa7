SPECIFICATION TailFairSpec
CONSTANTS
  MaxWrites = 4
  MaxShown = 6
  MayTruncate = TRUE
INVARIANTS TailTypeOK TailInv InOrderOnce NothingSkipped
PROPERTIES LastWords ImplementsFeed EventuallyShown CatchesUp TailEnds
CHECK_DEADLOCK FALSE
