------------------------------ MODULE UsersFile ------------------------------
(***************************************************************************)
(* pgvictoria-admin `user add | edit | del` on pgvictoria_users.conf.      *)
(*                                                                         *)
(* Every command is a process of its own.  The processes share a directory *)
(* with two names in it, the users file and the one temporary name         *)
(* "<users file>.tmp" that every edit and del uses, and take no lock.      *)
(* The steps of a process are the system calls that touch the directory or *)
(* a file: what stdio buffers reaches the file at the final fflush, so a   *)
(* process killed before it has written nothing.                           *)
(*                                                                         *)
(* Bounds: Inodes (files that exist or are open at a time) and MaxJobs     *)
(* (commands run) bound the model, not the program.                        *)
(***************************************************************************)
EXTENDS Naturals, Sequences, FiniteSets, SequencesExt

CONSTANTS
  Procs,            \* the processes that run commands
  Names,            \* user names
  Passwords,        \* passwords that pass validation
  Wide,             \* those whose line does not fit in char line[MISC_LENGTH]
  Keys, NoKey,      \* master keys; NoKey when get_master_key fails
  Sources,          \* where passwords come from: option, env, generate, prompt
  BadSources,       \* password sources that only give values validation refuses
  Commands,         \* the commands in use: a subset of {"add", "edit", "del"}
  Prompts,          \* {TRUE}: always -U; {TRUE, FALSE}: the name may be prompted
  Serial,           \* TRUE: the operator runs one command at a time
  NUMBER_OF_USERS,
  Inodes, NoInode,
  MaxJobs

ASSUME UsersFileAssumption ==
  /\ IsFiniteSet(Procs) /\ Procs # {}
  /\ Wide \subseteq Passwords
  /\ NoKey \notin Keys
  /\ BadSources \subseteq Sources
  /\ Commands \subseteq {"add", "edit", "del"}
  /\ Prompts \subseteq BOOLEAN
  /\ Serial \in BOOLEAN
  /\ NUMBER_OF_USERS \in Nat \ {0}
  /\ Inodes \subseteq Nat
  /\ NoInode \notin Inodes
  /\ MaxJobs \in Nat

VARIABLES
  masterKey,   \* what pgvictoria_get_master_key returns, or NoKey
  dir,         \* the inode of each of the two names, or NoInode
  lines,       \* the content of each inode, as fgets cuts it
  mode,        \* the permissions of each inode
  job,         \* what each process is doing
  started      \* the number of commands run

vars == <<masterKey, dir, lines, mode, job, started>>

-----------------------------------------------------------------------------
(* Lines.  fgets reads at most MISC_LENGTH - 1 characters: the line of a   *)
(* long password comes back in two pieces, of which only the first holds   *)
(* the name.                                                               *)

Credentials == [pw : Passwords, key : Keys]
Piece == [kind : {"whole", "head", "tail"}, user : Names, cred : Credentials]

Entry(u, c) ==
  IF c.pw \in Wide
  THEN <<[kind |-> "head", user |-> u, cred |-> c],
         [kind |-> "tail", user |-> u, cred |-> c]>>
  ELSE <<[kind |-> "whole", user |-> u, cred |-> c]>>

\* strtok(line, ":") gives the name, except on the rest of a long line.
NameIs(piece, u) == piece.kind # "tail" /\ piece.user = u

Has(s, u) == \E i \in DOMAIN s : NameIs(s[i], u)

\* cs gives what is written at each line of the user: see EditLines.
Edited(s, u, cs) ==
  FlattenSeq([i \in DOMAIN s |-> IF NameIs(s[i], u) THEN Entry(u, cs[i]) ELSE <<s[i]>>])

Removed(s, u) ==
  FlattenSeq([i \in DOMAIN s |-> IF NameIs(s[i], u) THEN <<>> ELSE <<s[i]>>])

\* What pwrite(2) at offset 0 leaves of a file that was longer.
Overlay(old, new) == new \o SubSeq(old, Len(new) + 1, Len(old))

\* The entries the reader accepts for a user, in order.
PasswordsOf(s, u) ==
  FlattenSeq([i \in DOMAIN s |-> IF NameIs(s[i], u) THEN <<s[i].cred>> ELSE <<>>])

-----------------------------------------------------------------------------
Ended == {"idle", "success", "failure", "killed"}
Steps == {"key", "check", "append", "source", "tmp", "read", "password",
          "write", "flush", "rename", "report", "abortflush", "abortremove"}

Running(p) == job[p].pc \notin Ended

NewJob(pc, cmd, u, named, w, src) ==
  [pc |-> pc, cmd |-> cmd, user |-> u, named |-> named, pw |-> w, src |-> src,
   key |-> NoKey, fd |-> NoInode, tfd |-> NoInode, out |-> <<>>]

NoJob(pc) == NewJob(pc, "none", "none", TRUE, "none", "none")

UsersLines == IF dir.users = NoInode THEN <<>> ELSE lines[dir.users]

Init ==
  /\ masterKey \in Keys \union {NoKey}
  /\ \E i \in Inodes \union {NoInode} :
       /\ dir = [users |-> i, tmp |-> NoInode]
       /\ i # NoInode => \A j \in Inodes : i <= j
  /\ lines = [i \in Inodes |-> <<>>]
  /\ mode = [i \in Inodes |-> "0600"]
  /\ job = [p \in Procs |-> NoJob("idle")]
  /\ started = 0

Goto(p, pc) == job' = [job EXCEPT ![p].pc = pc]
End(p, pc) == job' = [job EXCEPT ![p] = NoJob(pc)]
At(p, pc) == job[p].pc = pc

\* The lowest inode that no name and no process refers to.
Free(i) == /\ i \notin {dir.users, dir.tmp}
           /\ \A p \in Procs : i \notin {job[p].fd, job[p].tfd}
Fresh(i) == Free(i) /\ \A j \in Inodes : Free(j) => i <= j

-----------------------------------------------------------------------------
\* main: the arguments of a command.
Start(p) ==
  /\ ~Running(p)
  /\ Serial => \A q \in Procs : ~Running(q)
  /\ started < MaxJobs
  /\ started' = started + 1
  /\ \E cmd \in Commands, u \in Names, named \in Prompts :
       \/ /\ cmd = "del"
          /\ job' = [job EXCEPT ![p] =
                       NewJob("source", cmd, u, named, "none", "none")]
       \/ /\ cmd \in {"add", "edit"}
          /\ \E w \in Passwords, s \in Sources :
               job' = [job EXCEPT ![p] = NewJob("key", cmd, u, named, w, s)]
  /\ UNCHANGED <<masterKey, dir, lines, mode>>

\* Mutant of ReadKey: the result of pgvictoria_get_master_key is not looked at.
ReadKeyUnchecked(p) ==
  /\ At(p, "key")
  /\ job' = [job EXCEPT ![p].key = masterKey,
                        ![p].pc = IF job[p].cmd = "add" THEN "check" ELSE "source"]
  /\ UNCHANGED <<masterKey, dir, lines, mode, started>>

\* pgvictoria_get_master_key, the first thing add and edit do.
ReadKey(p) ==
  /\ At(p, "key")
  /\ \/ masterKey = NoKey /\ End(p, "failure")
     \/ /\ masterKey # NoKey
        /\ job' = [job EXCEPT ![p].key = masterKey,
                              ![p].pc = IF job[p].cmd = "add" THEN "check" ELSE "source"]
  /\ UNCHANGED <<masterKey, dir, lines, mode, started>>

\* add: read the file once and close it.  The name is looked for only when -U
\* gave it, and what is counted is what fgets returned.
AddCheck(p) ==
  /\ At(p, "check")
  /\ LET taken == job[p].named /\ Has(UsersLines, job[p].user)
         full  == dir.users # NoInode /\ Len(UsersLines) >= NUMBER_OF_USERS
     IN  IF taken \/ full THEN End(p, "failure") ELSE Goto(p, "append")
  /\ UNCHANGED <<masterKey, dir, lines, mode, started>>

\* Mutant of AddOpen: the file is opened with "w+".
AddOpenTruncates(p) ==
  /\ At(p, "append")
  /\ \E i \in Inodes :
       /\ \/ i = dir.users /\ UNCHANGED <<dir, mode>>
          \/ /\ dir.users = NoInode /\ Fresh(i)
             /\ dir' = [dir EXCEPT !.users = i]
             /\ mode' = [mode EXCEPT ![i] = "umask"]
       /\ lines' = [lines EXCEPT ![i] = <<>>]
       /\ job' = [job EXCEPT ![p].fd = i, ![p].pc = "password"]
  /\ UNCHANGED <<masterKey, started>>

\* add: fopen(users_path, "a+") opens the file or creates it; then the name is
\* prompted for, and the end of the input ends the command.
AddOpen(p) ==
  /\ At(p, "append")
  /\ \E i \in Inodes :
       /\ \/ /\ i = dir.users
             /\ UNCHANGED <<dir, lines, mode>>
          \/ /\ dir.users = NoInode
             /\ Fresh(i)
             /\ dir' = [dir EXCEPT !.users = i]
             /\ lines' = [lines EXCEPT ![i] = <<>>]
             /\ mode' = [mode EXCEPT ![i] = "umask"]
       /\ \/ job' = [job EXCEPT ![p].fd = i, ![p].pc = "password"]
          \/ ~job[p].named /\ End(p, "failure")
  /\ UNCHANGED <<masterKey, started>>

\* Mutant of AskPassword: a refused option is not reset and is tried again.
AskPasswordAgain(p) ==
  /\ At(p, "password") /\ job[p].cmd = "add"
  /\ job[p].src \notin BadSources
  /\ Goto(p, "write")
  /\ UNCHANGED <<masterKey, dir, lines, mode, started>>

\* add, edit: the password.  An option that is refused falls back to one of the
\* other sources; the environment and the generator are asked again and give a
\* value of the same kind; a person answers something else in the end.
AskPassword(p) ==
  /\ At(p, "password")
  /\ \/ /\ job[p].cmd = "add" /\ job[p].src \notin BadSources
        /\ Goto(p, "write")
     \/ /\ job[p].src = "option" /\ "option" \in BadSources
        /\ \E s \in Sources \ {"option"} : job' = [job EXCEPT ![p].src = s]
  /\ UNCHANGED <<masterKey, dir, lines, mode, started>>

Cred(p) == [pw |-> job[p].pw, key |-> job[p].key]

\* What edit can write at a line of the user.  A person is asked to verify the
\* password at every such line, and for another one when the two differ.
Answers(p) ==
  IF job[p].src = "prompt"
  THEN [pw : Passwords, key : {job[p].key}]
  ELSE {Cred(p)}

\* edit: the rest of the loop over the lines, once there is a password.
EditLines(p) ==
  /\ At(p, "password") /\ job[p].cmd = "edit"
  /\ job[p].src \notin BadSources
  /\ \E cs \in [DOMAIN job[p].out -> Answers(p)] :
       job' = [job EXCEPT ![p].out = Edited(@, job[p].user, cs), ![p].pc = "flush"]
  /\ UNCHANGED <<masterKey, dir, lines, mode, started>>

\* add: fflush and fclose.  The file is open for appending: the write goes to
\* the end of the inode opened before, whatever name it has now.
AddWrite(p) ==
  /\ At(p, "write")
  /\ lines' = [lines EXCEPT ![job[p].fd] = @ \o Entry(job[p].user, Cred(p))]
  /\ job' = [job EXCEPT ![p].fd = NoInode, ![p].pc = "report"]
  /\ UNCHANGED <<masterKey, dir, mode, started>>

\* edit, del: fopen(users_path, "r").  Where it fails remove_user has not written the
\* temporary name yet, and removes what was on the stack: that name, or no file.
OpenUsers(p) ==
  /\ At(p, "source")
  /\ IF dir.users = NoInode
     THEN End(p, "failure") \/ (job[p].cmd = "del" /\ Goto(p, "abortremove"))
     ELSE job' = [job EXCEPT ![p].fd = dir.users, ![p].pc = "tmp"]
  /\ UNCHANGED <<masterKey, dir, lines, mode, started>>

\* Mutant of OpenTmp: the file is opened with "r+" where it exists.
OpenTmpKeeps(p) ==
  /\ At(p, "tmp")
  /\ \E i \in Inodes :
       /\ \/ /\ i = dir.tmp
             /\ UNCHANGED <<dir, mode, lines>>
          \/ /\ dir.tmp = NoInode
             /\ Fresh(i)
             /\ dir' = [dir EXCEPT !.tmp = i]
             /\ mode' = [mode EXCEPT ![i] = "umask"]
             /\ lines' = [lines EXCEPT ![i] = <<>>]
       /\ job' = [job EXCEPT ![p].tfd = i, ![p].pc = "read"]
  /\ UNCHANGED <<masterKey, started>>

\* Mutant of OpenTmp: the users file itself is rewritten.
OpenTmpInPlace(p) ==
  /\ At(p, "tmp")
  /\ \E i \in Inodes :
       /\ i = dir.users
       /\ lines' = [lines EXCEPT ![i] = <<>>]
       /\ job' = [job EXCEPT ![p].tfd = i, ![p].pc = "read"]
  /\ UNCHANGED <<masterKey, dir, mode, started>>

\* edit, del: fopen(tmpfilename, "w+") creates the temporary file, or truncates
\* the one that is there: a dead process's, or a live one's.
OpenTmp(p) ==
  /\ At(p, "tmp")
  /\ \E i \in Inodes :
       /\ \/ /\ i = dir.tmp
             /\ UNCHANGED <<dir, mode>>
          \/ /\ dir.tmp = NoInode
             /\ Fresh(i)
             /\ dir' = [dir EXCEPT !.tmp = i]
             /\ mode' = [mode EXCEPT ![i] = "umask"]
       /\ lines' = [lines EXCEPT ![i] = <<>>]
       /\ job' = [job EXCEPT ![p].tfd = i, ![p].pc = "read"]
  /\ UNCHANGED <<masterKey, started>>

\* edit, del: the loop over the lines, whose output stays in the stdio buffer.  edit
\* has read its lines here and still needs a password for those of the user.
ReadUsers(p) ==
  LET s == lines[job[p].fd]
      u == job[p].user
  IN  /\ At(p, "read")
      /\ \/ /\ Has(s, u) /\ job[p].cmd = "edit"
            /\ job' = [job EXCEPT ![p].out = s, ![p].pc = "password"]
         \/ /\ Has(s, u) /\ job[p].cmd = "del"
            /\ job' = [job EXCEPT ![p].out = Removed(s, u), ![p].pc = "flush"]
         \/ /\ ~Has(s, u)
            /\ job' = [job EXCEPT ![p].out = s, ![p].pc = "abortflush"]
         \/ /\ ~job[p].named    \* end of the input at the prompt for the name
            /\ Goto(p, "abortflush")
      /\ UNCHANGED <<masterKey, dir, lines, mode, started>>

\* Mutant of Flush: the file is renamed while its content is still in the buffer.
FlushForgotten(p) ==
  /\ At(p, "flush")
  /\ job' = [job EXCEPT ![p].tfd = NoInode, ![p].fd = NoInode, ![p].pc = "rename"]
  /\ UNCHANGED <<masterKey, dir, lines, mode, started>>

\* edit, del: fflush(users_file_tmp) and fclose.
Flush(p) ==
  /\ At(p, "flush")
  /\ lines' = [lines EXCEPT ![job[p].tfd] = Overlay(@, job[p].out)]
  /\ job' = [job EXCEPT ![p].tfd = NoInode, ![p].fd = NoInode, ![p].pc = "rename"]
  /\ UNCHANGED <<masterKey, dir, mode, started>>

\* Mutant of Rename: link(2), so that the temporary name stays.
RenameLinks(p) ==
  /\ At(p, "rename")
  /\ dir.tmp # NoInode
  /\ dir' = [dir EXCEPT !.users = dir.tmp]
  /\ Goto(p, "report")
  /\ UNCHANGED <<masterKey, lines, mode, started>>

\* edit, del: rename(tmpfilename, users_path) moves whatever has that name now.
Rename(p) ==
  /\ At(p, "rename")
  /\ \/ /\ dir.tmp # NoInode
        /\ dir' = [users |-> dir.tmp, tmp |-> NoInode]
        /\ Goto(p, "report")
     \/ /\ dir.tmp = NoInode
        /\ Goto(p, "abortremove")
        /\ UNCHANGED dir
  /\ UNCHANGED <<masterKey, lines, mode, started>>

\* The outcome and the response, which opens the users file again, are made when the
\* change is there: where that fails, for want of memory or of the file, the command
\* fails all the same, edit and del through the path that removes the temporary name.
Report(p) ==
  /\ At(p, "report")
  /\ \/ End(p, "success")
     \/ job[p].cmd = "add" /\ End(p, "failure")
     \/ job[p].cmd # "add" /\ Goto(p, "abortremove")
  /\ UNCHANGED <<masterKey, dir, lines, mode, started>>

\* edit, del: the error path flushes and closes the temporary file ...
AbortFlush(p) ==
  /\ At(p, "abortflush")
  /\ lines' = [lines EXCEPT ![job[p].tfd] = Overlay(@, job[p].out)]
  /\ job' = [job EXCEPT ![p].tfd = NoInode, ![p].fd = NoInode, ![p].pc = "abortremove"]
  /\ UNCHANGED <<masterKey, dir, mode, started>>

\* ... and removes the name, whoever's file it names now.
AbortRemove(p) ==
  /\ At(p, "abortremove")
  /\ dir' = [dir EXCEPT !.tmp = NoInode]
  /\ End(p, "failure")
  /\ UNCHANGED <<masterKey, lines, mode, started>>

\* The process is killed: its buffers are lost, the files stay as they are.
Crash(p) ==
  /\ Running(p)
  /\ End(p, "killed")
  /\ UNCHANGED <<masterKey, dir, lines, mode, started>>

-----------------------------------------------------------------------------
AddStep(p) == AddCheck(p) \/ AddOpen(p) \/ AddWrite(p)
ReplaceStep(p) == \/ OpenUsers(p) \/ OpenTmp(p) \/ ReadUsers(p) \/ EditLines(p)
                  \/ Flush(p) \/ Rename(p) \/ AbortFlush(p) \/ AbortRemove(p)
Step(p) == ReadKey(p) \/ AskPassword(p) \/ AddStep(p) \/ ReplaceStep(p) \/ Report(p)

Next == \E p \in Procs : Start(p) \/ Step(p) \/ Crash(p)

Spec == Init /\ [][Next]_vars

\* A process that is not killed keeps running.
FairSpec == Spec /\ \A p \in Procs : WF_vars(Step(p))

-----------------------------------------------------------------------------
(* Properties *)

Job == [pc : Ended \union Steps, cmd : Commands \union {"none"},
        user : Names \union {"none"}, named : BOOLEAN,
        pw : Passwords \union {"none"},
        src : Sources \union {"none"},
        key : Keys \union {NoKey},
        fd : Inodes \union {NoInode}, tfd : Inodes \union {NoInode},
        out : Seq(Piece)]

\* The type of the state, and: the two names never share an inode, so that the
\* truncating fopen of the temporary file never empties the users file.
TypeOK ==
  /\ masterKey \in Keys \union {NoKey}
  /\ dir \in [users : Inodes \union {NoInode}, tmp : Inodes \union {NoInode}]
  /\ lines \in [Inodes -> Seq(Piece)]
  /\ mode \in [Inodes -> {"0600", "umask"}]
  /\ job \in [Procs -> Job]
  /\ started \in 0 .. MaxJobs

NamesApart == dir.users # NoInode => dir.users # dir.tmp

Store == INSTANCE UsersStore WITH
           Unique <- Prompts = {TRUE},
           store <- [u \in Names |-> PasswordsOf(UsersLines, u)]

\* One command at a time, killed anywhere: the file is changed as the table of
\* UsersStore is, by a whole add, edit or del or not at all.
StoreRefinement == Store!Spec

Succeeds(p) == At(p, "report") /\ job'[p].pc = "success"

\* What a command that has come to its report has done: the new entry is in the
\* file, every entry of the user holds a password that was given, encrypted with the
\* key that was read, or nothing of the user is left, the rest of a long line included.
Done(p) ==
  LET u == job[p].user
      s == UsersLines
  IN  CASE job[p].cmd = "add" -> \E i \in DOMAIN s : s[i] = Entry(u, Cred(p))[1]
        [] job[p].cmd = "edit" ->
             /\ Has(s, u)
             /\ \A i \in DOMAIN s : s[i].user = u => s[i].cred \in Answers(p)
        [] job[p].cmd = "del" -> \A i \in DOMAIN s : s[i].user # u

\* A command that reports success has done what it says.
SuccessIsVisible == [][\A p \in Procs : Succeeds(p) => Done(p)]_vars

\* The least that is left of it for commands that overlap: a user whose `user add` has
\* reported success is in the file then, nobody having asked for a removal.
AddIsVisible ==
  [][\A p \in Procs : Succeeds(p) /\ job[p].cmd = "add" =>
       Has(UsersLines, job[p].user)]_vars

\* The entries of the file change only in the step that brings a command to its report:
\* one that fails or is killed on the way there, at any step, has changed none.  One
\* that fails in the report has changed what it was to change.
ChangesLeaveReport ==
  [][UsersLines' # UsersLines =>
       \E p \in Procs : job[p].pc # "report" /\ job'[p].pc = "report"]_vars

\* As long as the users file is the same inode it never gets shorter.  Its lines may change:
\* of two editors that share the temporary file, one installs it and the other flushes
\* into it, which by then is the users file.
LiveNeverShrinks ==
  [][dir.users # NoInode /\ dir'.users = dir.users =>
       Len(UsersLines) <= Len(UsersLines')]_vars

\* Adders that overlap: the check of the capacity and the append are apart, so the
\* capacity can be passed, but by no more than what every process but one adds once.
\* Only of adders: an editor flushes the copy of a file that was longer into one that
\* has been replaced since, and passes any bound.  Without long lines: they count twice.
LimitOvershoot ==
  Wide = {} => Len(UsersLines) <= NUMBER_OF_USERS - 1 + Cardinality(Procs)

\* A command that nobody kills comes to its end.
EveryCommandEnds == \A p \in Procs : Running(p) ~> ~Running(p)
=============================================================================
