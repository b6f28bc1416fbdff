SPECIFICATION FairSpec
CONSTANTS
  Methods = {"trust", "password", "md5", "scram"}
  LateFatal = {"trust", "password", "md5", "scram"}
  Shutdown = TRUE
  Cuts <- BodyCuts
  MaxRows = 2
CHECK_DEADLOCK FALSE
INVARIANTS OwnRows FailureJustified AuthSound NoUndefined
PROPERTY SessionEndsServed
