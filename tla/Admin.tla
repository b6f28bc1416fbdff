-------------------------------- MODULE Admin --------------------------------
(***************************************************************************)
(* pgvictoria-admin as a whole: master-key commands and user commands over *)
(* the same home directory.  UsersFile sees of the key file only what      *)
(* pgvictoria_get_master_key returns from it.                              *)
(***************************************************************************)
EXTENDS MasterKey, Sequences, FiniteSets

CONSTANTS Procs, Names, Passwords, Wide, Sources, BadSources, Commands, Prompts, Serial,
          NUMBER_OF_USERS, Inodes, NoInode, MaxJobs

ASSUME AdminAssumption ==
  /\ IsFiniteSet(Procs) /\ Procs # {}
  /\ Wide \subseteq Passwords
  /\ BadSources \subseteq Sources
  /\ Commands \subseteq {"add", "edit", "del"}
  /\ Prompts \subseteq BOOLEAN
  /\ Serial \in BOOLEAN
  /\ NUMBER_OF_USERS \in Nat \ {0}
  /\ Inodes \subseteq Nat
  /\ NoInode \notin Inodes
  /\ MaxJobs \in Nat

VARIABLES dir, lines, mode, job, started

U == INSTANCE UsersFile WITH masterKey <- KeyRead

userVars == <<dir, lines, mode, job, started>>

Init ==
  /\ KeyInit
  /\ dir = [users |-> NoInode, tmp |-> NoInode]
  /\ lines = [i \in Inodes |-> <<>>]
  /\ mode = [i \in Inodes |-> "0600"]
  /\ job = [p \in Procs |-> U!NoJob("idle")]
  /\ started = 0

UsersBusy == \E p \in Procs : U!Running(p)

KeyCommand(p) ==
  /\ \/ MkStart(p) /\ (Serial => ~UsersBusy)
     \/ MkStep(p)
     \/ MkCrash(p)
  /\ UNCHANGED userVars

UserCommand(p) ==
  /\ UNCHANGED keyVars
  /\ \/ U!Start(p) /\ (Serial => ~KeyBusy)
     \/ U!Step(p)
     \/ U!Crash(p)

Next == (\E p \in KeyProcs : KeyCommand(p)) \/ (\E p \in Procs : UserCommand(p))

Spec == Init /\ [][Next]_<<keyVars, userVars>>

-----------------------------------------------------------------------------
\* Every password in the users file was encrypted with the key that is in the key
\* file: pgvictoria can decrypt them all.  It relates the two files over the whole
\* life of the installation, failed and killed commands included.
Decryptable == \A i \in DOMAIN U!UsersLines : U!UsersLines[i].cred.key = KeyRead
=============================================================================
