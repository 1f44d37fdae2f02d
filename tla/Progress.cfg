SPECIFICATION UploadFairSpec
CONSTANTS
  Durations <- MCDurations
  Interval = 3
  Latency = 4
  MaxTime = 13
INVARIANTS
  ProgressInv
PROPERTIES
  Joins
