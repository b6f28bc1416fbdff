SPECIFICATION Spec
CONSTANTS
  today = today
  other = other
  fallback = fallback
  LogFiles <- MCFiles
  PathAt <- MCPathAt
  Fallback = fallback
  NoPath = ""
  NoFile = NoFile
  Closed = Closed
  Env <- MCEnv
  NUMBER_OF_SERVERS = 2
  NUMBER_OF_USERS = 2
  Directories = {"/tmp"}
  Long = {"longer"}
  MainFiles <- MCMainFiles
  UsersFiles <- MCUsersFiles
  MaxLines = 2
CHECK_DEADLOCK FALSE
INVARIANTS RunsWithTheFiles UsersKnown ServersAsWritten
