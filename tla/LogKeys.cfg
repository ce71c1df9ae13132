CONSTANTS
  Key = {k1, k2}
  T = t
  LogType = {double, string}
  TimeType = double
  Source = {s1, s2}
  Overwrites = {TRUE, FALSE}
  Recorded = {TRUE, FALSE}
  Restarts = {"resume", "plain", "failed"}
  CanDrop = TRUE
  MaxEvents = 3
  MaxKeys = 4
SPECIFICATION KeysSpec
INVARIANT ReaderCatchesUp
SYMMETRY KeysAndSources
