SPECIFICATION Spec
CONSTANTS
  Procs = {p1, p2}
  Names = {u1, u2}
  Passwords = {w1}
  Wide = {}
  Keys = {k1}
  NoKey = NoKey
  Sources = {"prompt"}
  BadSources = {}
  Commands = {"add", "edit"}
  Prompts = {TRUE}
  Serial = FALSE
  NUMBER_OF_USERS = 3
  Inodes = {1, 2, 3, 4, 5, 6}
  NoInode = NoInode
  MaxJobs = 4
CHECK_DEADLOCK FALSE
PROPERTY AddIsVisible
