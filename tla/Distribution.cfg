CONSTANTS
  Calls = {c1, c2}
  Models = {m1}
  Versions = {v1, v2}
  m1 = m1
  v1 = v1
  v2 = v2
  None = None
  Timeout = 2
  MaxWait = 0
  MinSeeders = 1
  MaxSeeders = 1
  MaxStops = 1
  LowSeeders = 1
  MaxGivenUp = 1
SPECIFICATION FairSpecAll
INVARIANTS OverlapsWereStopped
PROPERTIES DownloadsEnd ShortageIsSeen
CHECK_DEADLOCK FALSE
