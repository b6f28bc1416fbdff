------------------------------ MODULE MasterKey ------------------------------
(***************************************************************************)
(* pgvictoria-admin `master-key` and the reader of its file: the directory *)
(* ~/.pgvictoria, the file master.key in it, and the processes that create *)
(* them, step by step and without a lock.  Nothing in the program removes  *)
(* or renames the file, so it is one inode with a content and permissions. *)
(***************************************************************************)
EXTENDS Naturals

CONSTANTS
  KeyProcs,      \* the processes that run master-key
  Keys,          \* what can be in the file as a key
  ShortKeys,     \* those is_valid_key refuses
  LongKeys,      \* those of more than 93 bytes: their line does not fit the reader's buffer
  ReadBack,      \* what get_master_key makes of the line of a key
  NoKey,         \* get_master_key fails
  KeySerial,     \* TRUE: one master-key command at a time
  MaxKeyJobs     \* how many master-key commands are run

Empty == "empty"   \* no key has been written

ASSUME MasterKeyAssumption ==
  /\ ShortKeys \subseteq Keys
  /\ LongKeys \subseteq Keys
  /\ ReadBack \in [Keys -> Keys]
  /\ \A k \in Keys \ LongKeys : ReadBack[k] = k
  /\ Empty \notin Keys
  /\ NoKey \notin Keys
  /\ KeySerial \in BOOLEAN
  /\ MaxKeyJobs \in Nat

VARIABLES
  keyDir,      \* ~/.pgvictoria: absent, strict (0700) or open to others
  keyFile,     \* master.key: whether it exists, its first line, its permissions
  mk,          \* what each process is doing
  keyJobs      \* the number of commands run

keyVars == <<keyDir, keyFile, mk, keyJobs>>

MkEnded == {"idle", "success", "failure", "killed"}
MkSteps == {"statdir", "mkdir", "exists", "create", "password", "write", "chmod"}

KeyRunning(p) == mk[p].pc \notin MkEnded
KeyBusy == \E p \in KeyProcs : KeyRunning(p)

NoMk(pc) == [pc |-> pc, key |-> NoKey, src |-> "none"]

\* pgvictoria_get_master_key: the directory and the file must be closed to others,
\* and the first line must be there.  Of the line it reads the first 127 characters,
\* and of these it decodes the complete groups: a key of more than 93 bytes comes
\* back as its first 93, without an error.
KeyRead ==
  IF /\ keyDir = "strict"
     /\ keyFile.exists /\ keyFile.mode = "0600" /\ keyFile.line # Empty
  THEN ReadBack[keyFile.line] ELSE NoKey

KeyInit ==
  /\ keyDir \in {"absent", "strict", "open"}
  /\ keyFile = [exists |-> FALSE, line |-> Empty, mode |-> "umask"]
  /\ mk = [p \in KeyProcs |-> NoMk("idle")]
  /\ keyJobs = 0

MkAt(p, pc) == mk[p].pc = pc
MkGoto(p, pc) == mk' = [mk EXCEPT ![p].pc = pc]
MkEnd(p, pc) == mk' = [mk EXCEPT ![p] = NoMk(pc)]

MkStart(p) ==
  /\ ~KeyRunning(p)
  /\ KeySerial => ~KeyBusy
  /\ keyJobs < MaxKeyJobs
  /\ keyJobs' = keyJobs + 1
  /\ \E k \in Keys, s \in {"option", "env", "generate", "prompt"} :
       mk' = [mk EXCEPT ![p] = [pc |-> "statdir", key |-> k, src |-> s]]
  /\ UNCHANGED <<keyDir, keyFile>>

\* stat(~/.pgvictoria), and its permissions if it is there.
MkStatDir(p) ==
  /\ MkAt(p, "statdir")
  /\ \/ keyDir = "absent" /\ MkGoto(p, "mkdir")
     \/ keyDir = "strict" /\ MkGoto(p, "exists")
     \/ keyDir = "open" /\ MkEnd(p, "failure")
  /\ UNCHANGED <<keyDir, keyFile, keyJobs>>

MkMkdir(p) ==
  /\ MkAt(p, "mkdir")
  /\ \/ keyDir = "absent" /\ keyDir' = "strict" /\ MkGoto(p, "exists")
     \/ keyDir # "absent" /\ MkEnd(p, "failure") /\ UNCHANGED keyDir
  /\ UNCHANGED <<keyFile, keyJobs>>

\* Mutant of MkExists: the file is not looked for.
MkExistsForgotten(p) ==
  /\ MkAt(p, "exists")
  /\ MkGoto(p, "create")
  /\ UNCHANGED <<keyDir, keyFile, keyJobs>>

\* An existing file is refused, whatever is in it.
MkExists(p) ==
  /\ MkAt(p, "exists")
  /\ \/ keyFile.exists /\ MkEnd(p, "failure")
     \/ ~keyFile.exists /\ MkGoto(p, "create")
  /\ UNCHANGED <<keyDir, keyFile, keyJobs>>

\* fopen("w+"): a new file has the permissions of the umask; a file that another
\* process has created in the meantime is truncated and keeps its own.
MkCreate(p) ==
  /\ MkAt(p, "create")
  /\ keyFile' = [keyFile EXCEPT !.exists = TRUE, !.line = Empty]
  /\ MkGoto(p, "password")
  /\ UNCHANGED <<keyDir, keyJobs>>

\* Only now is the key looked at.  The prompt asks until the key is valid; an
\* option is refused, with the file left behind; the environment variable and
\* the generator are not checked.
MkPassword(p) ==
  /\ MkAt(p, "password")
  /\ \/ mk[p].src = "option" /\ mk[p].key \in ShortKeys /\ MkEnd(p, "failure")
     \/ mk[p].src = "prompt" /\ mk[p].key \in ShortKeys
        /\ \E k \in Keys \ ShortKeys :
             mk' = [mk EXCEPT ![p] = [pc |-> "write", key |-> k, src |-> "prompt"]]
     \/ mk[p].src \in {"env", "generate"} /\ MkGoto(p, "write")
     \/ mk[p].key \notin ShortKeys /\ MkGoto(p, "write")
  /\ UNCHANGED <<keyDir, keyFile, keyJobs>>

\* fflush and fclose: the two lines are written over what is there.  The report
\* "success" has been printed before; what fails between it and the lines (the
\* outcome, the salt, the encoding) leaves the file as it is.
MkWrite(p) ==
  /\ MkAt(p, "write")
  /\ \/ keyFile' = [keyFile EXCEPT !.line = mk[p].key] /\ MkGoto(p, "chmod")
     \/ UNCHANGED keyFile /\ MkEnd(p, "failure")
  /\ UNCHANGED <<keyDir, keyJobs>>

\* Mutant of MkChmod: the permissions of the directory are used.
MkChmodDirectory(p) ==
  /\ MkAt(p, "chmod")
  /\ keyFile' = [keyFile EXCEPT !.mode = "0700"]
  /\ MkEnd(p, "success")
  /\ UNCHANGED <<keyDir, keyJobs>>

\* Mutant of MkChmod: chmod is forgotten.
MkChmodForgotten(p) ==
  /\ MkAt(p, "chmod")
  /\ MkEnd(p, "success")
  /\ UNCHANGED <<keyDir, keyFile, keyJobs>>

\* The command ends with 0.  When chmod fails the error path frees for the second
\* time what is free already: it ends with 1 or is aborted.
MkChmod(p) ==
  /\ MkAt(p, "chmod")
  /\ \/ keyFile' = [keyFile EXCEPT !.mode = "0600"] /\ MkEnd(p, "success")
     \/ UNCHANGED keyFile /\ (MkEnd(p, "failure") \/ MkEnd(p, "killed"))
  /\ UNCHANGED <<keyDir, keyJobs>>

MkCrash(p) ==
  /\ KeyRunning(p)
  /\ MkEnd(p, "killed")
  /\ UNCHANGED <<keyDir, keyFile, keyJobs>>

MkStep(p) ==
  \/ MkStatDir(p) \/ MkMkdir(p) \/ MkExists(p) \/ MkCreate(p)
  \/ MkPassword(p) \/ MkWrite(p) \/ MkChmod(p)

KeyNext == \E p \in KeyProcs : MkStart(p) \/ MkStep(p) \/ MkCrash(p)

KeySpec == KeyInit /\ [][KeyNext]_keyVars

-----------------------------------------------------------------------------
(* Properties *)

KeyFiles == [exists : BOOLEAN, line : Keys \union {Empty}, mode : {"0600", "umask"}]

\* The type of the state.
KeyTypeOK ==
  /\ keyDir \in {"absent", "strict", "open"}
  /\ keyFile \in KeyFiles
  /\ mk \in [KeyProcs -> [pc : MkEnded \union MkSteps, key : Keys \union {NoKey},
                          src : {"option", "env", "generate", "prompt", "none"}]]
  /\ keyJobs \in 0 .. MaxKeyJobs

\* One command at a time: once a key can be read it is the key for good.  The
\* passwords of the users file are encrypted with it and nothing re-encrypts them.
KeyStays == [][KeyRead # NoKey => KeyRead' = KeyRead]_keyVars

\* A master-key that ends with 0 leaves a file that get_master_key accepts, and what
\* is read from it is the key the command had, unless that has more than 93 bytes:
\* is_valid_key takes up to 256 characters, of which the reader returns a part.
SuccessIsReadable ==
  [][\A p \in KeyProcs :
       KeyRunning(p) /\ mk'[p].pc = "success" =>
         /\ KeyRead' # NoKey
         /\ mk[p].key \notin LongKeys => KeyRead' = mk[p].key]_keyVars
=============================================================================
