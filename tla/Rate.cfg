SPECIFICATION FairSpec
CONSTANTS
  MaxClock = 4
  MaxRate = 2
  Ranges <- MCRanges
  Lists <- MCLists
  Limits <- MCLimits
  Requests <- MCRequests
  MayFail = {"is_GetFrameTimeRange", "IS_PIXELCLOCK_CMD_GET", "IS_PIXELCLOCK_CMD_GET_RANGE",
             "IS_PIXELCLOCK_CMD_GET_NUMBER", "IS_PIXELCLOCK_CMD_GET_LIST",
             "IS_PIXELCLOCK_CMD_SET", "is_SetFrameRate"}
INVARIANTS
  RateInv
  FallsShortOnlyIfMust
PROPERTIES
  CallEnds
