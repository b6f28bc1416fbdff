SPECIFICATION FairSpec
CONSTANTS
  Sections = {"main", "srv"}
  ConfKeys = {"host", "level"}
  Values = {"v", "w"}
  NoValue = "none"
  Garbled = "garbled"
  MainSection = "main"
  Host = "host"
  Files <- ProperFiles
  MaxEdits = 3
  MaxServers = 1
CHECK_DEADLOCK FALSE
PROPERTIES StaysProper TableRefinement OthersKept UpdatedAtomically EditEndsAnswered
