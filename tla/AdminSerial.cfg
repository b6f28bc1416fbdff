SPECIFICATION Spec
CONSTANTS
  KeyProcs = {a}
  k1 = k1
  k2 = k2
  short = short
  long = long
  Keys = {k1, k2, short, long}
  ShortKeys = {short}
  LongKeys = {long}
  ReadBack <- MCReadBack
  NoKey = NoKey
  KeySerial = TRUE
  MaxKeyJobs = 3
  Procs = {p1}
  Names = {u1, u2}
  Passwords = {w1,w2}
  Wide = {}
  Sources = {"prompt"}
  BadSources = {}
  Commands = {"add", "edit", "del"}
  Prompts = {TRUE}
  Serial = TRUE
  NUMBER_OF_USERS = 2
  Inodes = {1, 2, 3}
  NoInode = NoInode
  MaxJobs = 4
CHECK_DEADLOCK FALSE
INVARIANTS KeyTypeOK Decryptable
PROPERTIES KeyStays SuccessIsReadable
SYMMETRY Symmetry
