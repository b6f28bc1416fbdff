SPECIFICATION Spec
CONSTANTS
  Procs = {p1, p2}
  Names = {u1, u2}
  Passwords = {w1, w2}
  Wide = {}
  Keys = {k1}
  NoKey = NoKey
  Sources = {"option"}
  BadSources = {}
  Commands = {"add", "edit", "del"}
  Prompts = {TRUE, FALSE}
  Serial = FALSE
  NUMBER_OF_USERS = 2
  Inodes = {1, 2, 3, 4, 5, 6}
  NoInode = NoInode
  MaxJobs = 4
SYMMETRY Symmetry
CHECK_DEADLOCK FALSE
INVARIANTS TypeOK NamesApart
PROPERTIES LiveNeverShrinks
