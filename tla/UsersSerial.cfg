SPECIFICATION FairSpec
CONSTANTS
  Procs = {p1}
  Names = {u1, u2, u3}
  Passwords = {w1, w2}
  Wide = {}
  Keys = {k1}
  NoKey = NoKey
  Sources = {"option", "env", "prompt"}
  BadSources = {"option"}
  Commands = {"add", "edit", "del"}
  Prompts = {TRUE}
  Serial = TRUE
  NUMBER_OF_USERS = 2
  Inodes = {1, 2, 3}
  NoInode = NoInode
  MaxJobs = 4
CHECK_DEADLOCK FALSE
PROPERTIES EveryCommandEnds StoreRefinement SuccessIsVisible ChangesLeaveReport
