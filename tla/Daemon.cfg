SPECIFICATION Spec
CONSTANTS
  Daemons = {d1, d2, d3}
  NoPidfile = NoPidfile
  MaxTime = 1
  today = today
  tomorrow = tomorrow
  fallback = fallback
  LogFiles <- MCFiles
  PathAt <- MCPathAt
  Fallback = fallback
  Settings <- MCSettings
  NoPath = NoPath
  NoFile = NoFile
  Closed = Closed
SYMMETRY Symmetry
CHECK_DEADLOCK FALSE
INVARIANTS PidfileOwned LeftoverExplained
PROPERTIES LogKept
