----------------------------- MODULE AdminProofs -----------------------------
(***************************************************************************)
(* Proofs about Admin: the key file and the users file together.  What a   *)
(* command does to the users file is proved in UsersFileProofs for any key *)
(* that get_master_key returns; here the key is read from the key file.    *)
(***************************************************************************)
EXTENDS Admin, TLAPS

-----------------------------------------------------------------------------
(* The key file alone, for any number of processes and keys. *)

USE DEF MkEnded, MkSteps, Empty, MkAt, MkGoto, MkEnd, NoMk, KeyRunning

-----------------------------------------------------------------------------
(* What holds whether or not the commands overlap. *)

\* A running command has a key, given or still to be replaced by a valid one.
KeyKnown == \A p \in KeyProcs : KeyRunning(p) => mk[p].key \in Keys

KeyInv == KeyTypeOK /\ KeyKnown

\* Every step of every command keeps the state well typed.
LEMMA KeyInvStep == KeyInv /\ [KeyNext]_keyVars => KeyInv'
<1> USE MasterKeyAssumption DEF KeyInv, KeyTypeOK, KeyKnown, KeyFiles
<1> SUFFICES ASSUME KeyInv, [KeyNext]_keyVars PROVE KeyInv'
  OBVIOUS
<1>1. CASE UNCHANGED keyVars
  BY <1>1 DEF keyVars
<1> SUFFICES ASSUME NEW p \in KeyProcs, MkStart(p) \/ MkStep(p) \/ MkCrash(p)
             PROVE  KeyInv'
  BY <1>1 DEF KeyNext
<1>2. CASE MkStart(p)
  BY <1>2 DEF MkStart
<1>3. CASE MkStatDir(p)
  BY <1>3 DEF MkStatDir
<1>4. CASE MkMkdir(p)
  BY <1>4 DEF MkMkdir
<1>5. CASE MkExists(p)
  BY <1>5 DEF MkExists
<1>6. CASE MkCreate(p)
  BY <1>6, ZenonT(30) DEF MkCreate
<1>7. CASE MkPassword(p)
  <2>1. CASE MkEnd(p, "failure")
    BY <2>1, <1>7 DEF MkPassword
  <2>2. CASE MkGoto(p, "write")
    BY <2>2, <1>7 DEF MkPassword
  <2>3. ASSUME NEW k \in Keys,
               mk' = [mk EXCEPT ![p] = [pc |-> "write", key |-> k, src |-> "prompt"]]
        PROVE  KeyInv'
    BY <2>3, <1>7 DEF MkPassword
  <2> QED
    BY <2>1, <2>2, <2>3, <1>7 DEF MkPassword
<1>8. CASE MkWrite(p)
  BY <1>8 DEF MkWrite
<1>9. CASE MkChmod(p)
  BY <1>9 DEF MkChmod
<1>10. CASE MkCrash(p)
  BY <1>10 DEF MkCrash
<1> QED
  BY <1>2, <1>3, <1>4, <1>5, <1>6, <1>7, <1>8, <1>9, <1>10 DEF MkStep

\* The typed state with known keys is an invariant of any number of commands.
LEMMA KeyInvCorrect == KeySpec => []KeyInv
<1>1. KeyInit => KeyInv
  BY MasterKeyAssumption DEF KeyInit, KeyInv, KeyTypeOK, KeyKnown, KeyFiles
<1> QED
  BY <1>1, KeyInvStep, PTL DEF KeySpec

\* Type correctness: the file has one of the two permissions master_key gives it,
\* and every process is at a step of master_key.
THEOREM KeyTypeCorrect == KeySpec => []KeyTypeOK
<1>1. KeyInv => KeyTypeOK
  BY DEF KeyInv
<1> QED
  BY <1>1, KeyInvCorrect, PTL

-----------------------------------------------------------------------------
(* One command at a time.                                                  *)
(*                                                                         *)
(* KeyStays and SuccessIsReadable are about single steps, and hold because *)
(* of where the running command is: between its check that the file does   *)
(* not exist and its chmod, the file is its own.                           *)

AtMostOne == \A p, q \in KeyProcs : KeyRunning(p) /\ KeyRunning(q) => p = q

\* No process is between its check for the file and its fopen when the file exists.
CheckedInTime == \A p \in KeyProcs : mk[p].pc = "create" => ~keyFile.exists

\* The file is strict only when it holds a key and no process is working on it.
StillOpen ==
  /\ ~keyFile.exists => keyFile.mode = "umask"
  /\ \A p \in KeyProcs :
       mk[p].pc \in {"password", "write", "chmod"} =>
         keyFile.exists /\ keyFile.mode = "umask"

\* What a process has found or done is still so.
DirectoryReady ==
  \A p \in KeyProcs : mk[p].pc \in MkSteps \ {"statdir", "mkdir"} => keyDir = "strict"

OwnKeyWritten ==
  \A p \in KeyProcs : mk[p].pc = "chmod" => keyFile.line = mk[p].key

SerialInv ==
  /\ KeyInv
  /\ AtMostOne
  /\ CheckedInTime
  /\ StillOpen
  /\ DirectoryReady
  /\ OwnKeyWritten

\* One command at a time: every step keeps the file the running command's own
\* between its check and its chmod.
LEMMA SerialInvStep ==
  ASSUME KeySerial, SerialInv, [KeyNext]_keyVars
  PROVE  SerialInv'
<1> USE DEF SerialInv, AtMostOne, CheckedInTime, StillOpen, DirectoryReady, OwnKeyWritten
<1>0. KeyInv'
  BY KeyInvStep
<1> USE MasterKeyAssumption DEF KeyInv, KeyTypeOK, KeyKnown, KeyFiles
<1>1. CASE UNCHANGED keyVars
  BY <1>0, <1>1 DEF keyVars
<1> SUFFICES ASSUME NEW p \in KeyProcs, MkStart(p) \/ MkStep(p) \/ MkCrash(p)
             PROVE  SerialInv'
  BY <1>1 DEF KeyNext
<1>2. CASE MkStart(p)
  BY <1>0, <1>2 DEF MkStart, KeyBusy
<1>3. CASE MkStatDir(p)
  BY <1>0, <1>3, SMTT(30) DEF MkStatDir
<1>4. CASE MkMkdir(p)
  <2>1. CASE keyDir' = "strict" /\ MkGoto(p, "exists")
    BY <1>0, <1>4, <2>1 DEF MkMkdir
  <2>2. CASE MkEnd(p, "failure") /\ UNCHANGED keyDir
    BY <1>0, <1>4, <2>2 DEF MkMkdir
  <2> QED
    BY <1>4, <2>1, <2>2 DEF MkMkdir
<1>5. CASE MkExists(p)
  BY <1>0, <1>5 DEF MkExists
<1>6. CASE MkCreate(p)
  BY <1>0, <1>6 DEF MkCreate
<1>7. CASE MkPassword(p)
  <2>1. CASE MkEnd(p, "failure")
    BY <1>0, <2>1, <1>7 DEF MkPassword
  <2>2. CASE MkGoto(p, "write")
    <3>1. mk[p].pc = "password" /\ UNCHANGED <<keyDir, keyFile, keyJobs>>
      BY <1>7 DEF MkPassword
    <3> QED
      BY <1>0, <2>2, <3>1
  <2>3. ASSUME NEW k \in Keys,
               mk' = [mk EXCEPT ![p] = [pc |-> "write", key |-> k, src |-> "prompt"]]
        PROVE  SerialInv'
    <3>1. mk[p].pc = "password" /\ UNCHANGED <<keyDir, keyFile, keyJobs>>
      BY <1>7 DEF MkPassword
    <3> QED
      BY <1>0, <2>3, <3>1
  <2> QED
    BY <2>1, <2>2, <2>3, <1>7 DEF MkPassword
<1>8. CASE MkWrite(p)
  <2>1. CASE MkEnd(p, "failure") /\ UNCHANGED <<keyDir, keyFile, keyJobs>>
    BY <1>0, <2>1
  <2>2. CASE MkGoto(p, "chmod") /\ keyFile' = [keyFile EXCEPT !.line = mk[p].key]
    <3>1. mk[p].pc = "write" /\ UNCHANGED <<keyDir, keyJobs>>
      BY <1>8 DEF MkWrite
    <3> QED
      BY <1>0, <2>2, <3>1
  <2> QED
    BY <1>8, <2>1, <2>2 DEF MkWrite
<1>9. CASE MkChmod(p)
  BY <1>0, <1>9 DEF MkChmod
<1>10. CASE MkCrash(p)
  BY <1>0, <1>10 DEF MkCrash
<1> QED
  BY <1>2, <1>3, <1>4, <1>5, <1>6, <1>7, <1>8, <1>9, <1>10 DEF MkStep

\* Before any command the file does not exist.
LEMMA SerialInvInit == KeyInit => SerialInv
BY MasterKeyAssumption
DEF KeyInit, SerialInv, KeyInv, KeyTypeOK, KeyKnown, KeyFiles, AtMostOne,
    CheckedInTime, StillOpen, DirectoryReady, OwnKeyWritten

\* The inductive invariant of commands that run one at a time.
LEMMA SerialInvCorrect ==
  ASSUME KeySerial
  PROVE  KeySpec => []SerialInv
<1>1. SerialInv /\ [KeyNext]_keyVars => SerialInv'
  BY SerialInvStep
<1> QED
  BY <1>1, SerialInvInit, PTL DEF KeySpec

\* Between its check and its chmod the file is the running command's own, and not
\* strict: no step changes a key that can be read.
LEMMA ReadableKept ==
  ASSUME SerialInv, [KeyNext]_keyVars, KeyRead # NoKey
  PROVE  KeyRead' = KeyRead
<1> USE MasterKeyAssumption
    DEF SerialInv, CheckedInTime, StillOpen, KeyInv, KeyTypeOK, KeyFiles, KeyRead
<1>1. CASE UNCHANGED keyVars
  BY <1>1 DEF keyVars
<1> SUFFICES ASSUME NEW p \in KeyProcs, MkStart(p) \/ MkStep(p) \/ MkCrash(p)
             PROVE  KeyRead' = KeyRead
  BY <1>1 DEF KeyNext
<1>2. CASE MkMkdir(p)
  BY <1>2 DEF MkMkdir
<1>3. CASE MkCreate(p)
  BY <1>3 DEF MkCreate
<1>4. CASE MkWrite(p)
  BY <1>4 DEF MkWrite
<1>5. CASE MkChmod(p)
  BY <1>5 DEF MkChmod
<1>6. ASSUME UNCHANGED <<keyDir, keyFile>> PROVE KeyRead' = KeyRead
  BY <1>6
<1> QED
  BY <1>2, <1>3, <1>4, <1>5, <1>6
  DEF MkStart, MkStep, MkCrash, MkStatDir, MkExists, MkPassword

\* When the operator runs one command at a time, a key that can be read is never
\* replaced, whatever commands fail, are killed or are run again.
THEOREM KeyNeverReplaced ==
  ASSUME KeySerial
  PROVE  KeySpec => KeyStays
<1>1. ASSUME SerialInv, [KeyNext]_keyVars
      PROVE  [KeyRead # NoKey => KeyRead' = KeyRead]_keyVars
  BY <1>1, ReadableKept
<1> QED
  BY <1>1, SerialInvCorrect, PTL DEF KeySpec, KeyStays

\* When the operator runs one command at a time, a command that reports success
\* leaves a file that get_master_key accepts, and what it reads from it is the key the
\* command had, unless that is one of the long keys.
THEOREM SuccessReadable ==
  ASSUME KeySerial
  PROVE  KeySpec => SuccessIsReadable
<1>1. ASSUME SerialInv, [KeyNext]_keyVars
      PROVE  [\A p \in KeyProcs :
                KeyRunning(p) /\ mk'[p].pc = "success" =>
                  /\ KeyRead' # NoKey
                  /\ mk[p].key \notin LongKeys => KeyRead' = mk[p].key]_keyVars
  <2> USE <1>1, MasterKeyAssumption DEF SerialInv, KeyInv, KeyTypeOK, KeyFiles
  <2>1. CASE UNCHANGED keyVars
    BY <2>1
  <2> SUFFICES ASSUME NEW p \in KeyProcs, MkStart(p) \/ MkStep(p) \/ MkCrash(p),
                      NEW q \in KeyProcs, KeyRunning(q), mk'[q].pc = "success"
               PROVE  /\ KeyRead' # NoKey
                      /\ mk[q].key \notin LongKeys => KeyRead' = mk[q].key
    BY <2>1 DEF KeyNext
  <2>2. ~MkPassword(p)
    <3>1. ASSUME MkPassword(p)
          PROVE  \E r \in [pc : {"failure", "write"}, key : Keys \union {NoKey},
                           src : {"option", "env", "generate", "prompt", "none"}] :
                   mk' = [mk EXCEPT ![p] = r]
      BY <3>1 DEF MkPassword
    <3> QED
      BY <3>1
  <2>3. MkChmod(p) /\ p = q
    BY <2>2 DEF MkStart, MkStep, MkCrash, MkStatDir, MkMkdir, MkExists, MkCreate,
                MkWrite, MkChmod
  <2> QED
    BY <2>3 DEF MkChmod, StillOpen, DirectoryReady, OwnKeyWritten, KeyKnown, KeyRead
<1> QED
  BY <1>1, SerialInvCorrect, PTL DEF KeySpec, SuccessIsReadable

HIDE DEF MkEnded, MkSteps, Empty, MkAt, MkGoto, MkEnd, NoMk, KeyRunning

-----------------------------------------------------------------------------
(* The key file and the users file. *)

UP == INSTANCE UsersFileProofs WITH masterKey <- KeyRead

DecryptInv == SerialInv /\ UP!TypeInv /\ UP!Keyed

\* The steps of Admin are those the proofs of UsersFile are about.
LEMMA SameSteps ==
  ASSUME NEW p
  PROVE  U!Start(p) \/ U!Step(p) \/ U!Crash(p) <=> UP!Start(p) \/ UP!Step(p) \/ UP!Crash(p)
BY DEF U!Start, U!Step, U!Crash, UP!Start, UP!Step, UP!Crash,
       U!AddStep, UP!AddStep, U!ReplaceStep, UP!ReplaceStep,
       U!ReadKey, UP!ReadKey, U!AskPassword, UP!AskPassword,
       U!AddCheck, UP!AddCheck, U!AddOpen, UP!AddOpen, U!AddWrite, UP!AddWrite,
       U!OpenUsers, UP!OpenUsers, U!OpenTmp, UP!OpenTmp, U!ReadUsers, UP!ReadUsers,
       U!Flush, UP!Flush, U!Rename, UP!Rename, U!AbortFlush, UP!AbortFlush,
       U!AbortRemove, UP!AbortRemove, U!Running, UP!Running, U!Ended, UP!Ended,
       U!At, UP!At, U!Goto, UP!Goto, U!End, UP!End, U!NoJob, UP!NoJob, U!NewJob, UP!NewJob,
       U!Cred, UP!Cred, U!Has, UP!Has, U!NameIs, UP!NameIs, U!Edited, UP!Edited,
       U!Removed, UP!Removed, U!Entry, UP!Entry, U!Overlay, UP!Overlay,
       U!Report, UP!Report, U!EditLines, UP!EditLines, U!Answers, UP!Answers,
       U!Fresh, UP!Fresh, U!Free, UP!Free, U!UsersLines, UP!UsersLines,
       U!FlattenSeq, UP!FlattenSeq

\* The constants are such as those proofs assume.
LEMMA UsersAssumption ==
  /\ UP!IsFiniteSet(Procs) /\ Procs # {}
  /\ Wide \subseteq Passwords
  /\ NoKey \notin Keys
  /\ BadSources \subseteq Sources
  /\ Commands \subseteq {"add", "edit", "del"}
  /\ Prompts \subseteq BOOLEAN
  /\ Serial \in BOOLEAN
  /\ NUMBER_OF_USERS \in Nat \ {0}
  /\ Inodes \subseteq Nat
  /\ NoInode \notin Inodes
  /\ MaxJobs \in Nat
BY AdminAssumption, MasterKeyAssumption DEF UP!IsFiniteSet, IsFiniteSet

\* In the beginning the key file is not there and the users file is empty.
LEMMA DecryptInit == Init => DecryptInv
<1> SUFFICES ASSUME Init PROVE DecryptInv
  OBVIOUS
<1>1. SerialInv
  <2>1. KeyInit
    BY DEF Init
  <2> QED
    BY <2>1, SerialInvInit
<1>2. UP!Init
  <2>1. KeyRead = NoKey
    BY DEF Init, KeyInit, KeyRead
  <2> QED
    BY <2>1 DEF Init, UP!Init, UP!NoJob, UP!NewJob, U!NoJob, U!NewJob
<1>3. UP!TypeInv
  BY <1>2, UP!TypeInit, UsersAssumption
<1>4. UP!Keyed
  BY <1>2, UP!KeyedInit, UsersAssumption
<1> QED
  BY <1>1, <1>3, <1>4 DEF DecryptInv

\* A key command does not touch the users file, and does not replace a key that can
\* be read: while there is none, no line and no command has one.
LEMMA KeyCommandKeeps ==
  ASSUME KeySerial, DecryptInv, UNCHANGED userVars, [KeyNext]_keyVars
  PROVE  DecryptInv'
<1>1. SerialInv'
  BY SerialInvStep DEF DecryptInv
<1>2. KeyRead # NoKey => KeyRead' = KeyRead
  BY ReadableKept DEF DecryptInv
<1>3. KeyRead \in Keys \union {NoKey} /\ KeyRead' \in Keys \union {NoKey}
  <2>1. keyFile.line \in Keys \union {Empty} /\ keyFile'.line \in Keys \union {Empty}
    BY <1>1 DEF DecryptInv, SerialInv, KeyInv, KeyTypeOK, KeyFiles
  <2>2. \A k \in Keys : ReadBack[k] \in Keys
    BY MasterKeyAssumption
  <2> QED
    BY <2>1, <2>2 DEF KeyRead
<1>4. UP!TypeInv'
  BY <1>3 DEF userVars, DecryptInv, UP!TypeInv, UP!TypeOK, UP!Sound, UP!Job
<1>5. UP!Keyed'
  <2>1. CASE KeyRead' = KeyRead
    BY <2>1 DEF userVars, DecryptInv, UP!Keyed, UP!KeyedPiece
  <2>2. CASE KeyRead = NoKey
    <3>1. UP!KeyedPiece = {}
      BY <2>2, MasterKeyAssumption DEF UP!KeyedPiece, UP!Piece, UP!Credentials
    <3>2. \A s \in Seq(UP!KeyedPiece) : s = <<>>
      BY <3>1
    <3>3. \A i \in Inodes : lines'[i] = <<>>
      BY <3>2 DEF DecryptInv, UP!Keyed, userVars
    <3>4. \A p \in Procs : job'[p].out = <<>> /\ job'[p].key = NoKey
      BY <2>2, <3>2 DEF DecryptInv, UP!Keyed, userVars
    <3>5. <<>> \in Seq(UP!KeyedPiece')
      OBVIOUS
    <3> QED
      BY <3>3, <3>4, <3>5 DEF UP!Keyed
  <2> QED
    BY <1>2, <2>1, <2>2
<1> QED
  BY <1>1, <1>4, <1>5 DEF DecryptInv

\* A user command writes what it encrypts with the key it read, which is still the one
\* in the key file.
LEMMA UserCommandKeeps ==
  ASSUME DecryptInv, NEW p \in Procs, UserCommand(p)
  PROVE  DecryptInv'
<1>1. UNCHANGED keyVars
  BY DEF UserCommand
<1>2. UP!Start(p) \/ UP!Step(p) \/ UP!Crash(p)
  BY SameSteps DEF UserCommand
<1>3. SerialInv'
  BY <1>1 DEF DecryptInv, SerialInv, KeyInv, KeyTypeOK, KeyKnown, AtMostOne, CheckedInTime,
     StillOpen, DirectoryReady, OwnKeyWritten, keyVars, KeyRunning
<1>4. UP!TypeInv'
  <2>1. UP!Next
    BY <1>2 DEF UP!Next
  <2> QED
    BY <2>1, UP!TypeStep, UsersAssumption DEF DecryptInv
<1>5. UP!Keyed'
  BY <1>2, UP!KeyedStep, UsersAssumption DEF DecryptInv
<1> QED
  BY <1>3, <1>4, <1>5 DEF DecryptInv

\* When the operator creates the key with one command at a time, every password in the
\* users file can be decrypted with the key that is in the key file, however the user
\* commands overlap with it and with each other, and whatever is killed.
THEOREM PasswordsDecryptable ==
  ASSUME KeySerial
  PROVE  Spec => []Decryptable
<1>1. ASSUME DecryptInv, [Next]_<<keyVars, userVars>> PROVE DecryptInv'
  <2>1. CASE UNCHANGED <<keyVars, userVars>>
    BY <1>1, <2>1, KeyCommandKeeps
  <2>2. ASSUME NEW p \in KeyProcs, KeyCommand(p) PROVE DecryptInv'
    <3>1. KeyNext /\ UNCHANGED userVars
      BY <2>2 DEF KeyCommand, KeyNext
    <3> QED
      BY <1>1, <3>1, KeyCommandKeeps
  <2> QED
    BY <1>1, <2>1, <2>2, UserCommandKeeps DEF Next
<1>2. ASSUME DecryptInv PROVE Decryptable
  <2>1. U!UsersLines \in Seq(UP!KeyedPiece)
    BY <1>2 DEF DecryptInv, UP!Keyed, UP!TypeInv, UP!TypeOK, U!UsersLines
  <2>2. \A x \in UP!KeyedPiece : x.cred.key = KeyRead
    BY DEF UP!KeyedPiece
  <2> QED
    BY <2>1, <2>2 DEF Decryptable
<1> QED
  BY <1>1, <1>2, DecryptInit, PTL DEF Spec

\* Seen from the key file, the installation is MasterKey: user commands never touch it.
THEOREM KeySide == Spec => KeySpec
<1>1. Init => KeyInit
  BY DEF Init
<1>2. [Next]_<<keyVars, userVars>> => [KeyNext]_keyVars
  BY DEF Next, KeyCommand, UserCommand, KeyNext, keyVars
<1> QED
  BY <1>1, <1>2, PTL DEF Spec, KeySpec

\* So what holds of the key file alone holds of the installation.
THEOREM KeyKept ==
  ASSUME KeySerial
  PROVE  Spec => []KeyTypeOK /\ KeyStays /\ SuccessIsReadable
BY KeySide, KeyTypeCorrect, KeyNeverReplaced, SuccessReadable, PTL
=============================================================================
