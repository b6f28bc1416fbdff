SPECIFICATION ArtSpec
CONSTANTS
  Writes <- MCWrites
  Nothing = Nothing
  Undefined = Undefined
  RemovesFirst = FALSE
  MaxPrefix = 1
  Cap <- MCCap
  Low <- MCLow
INVARIANTS WellFormed Answers
PROPERTIES MapRefinement
CHECK_DEADLOCK FALSE
