--------------------------- MODULE UsersFileProofs ---------------------------
(***************************************************************************)
(* Proofs about UsersFile, for any number of processes, names and inodes:  *)
(* first for commands that overlap in any way, then for one at a time.     *)
(***************************************************************************)
EXTENDS UsersFile, SequenceFacts, FiniteSetTheorems, TLAPS

-----------------------------------------------------------------------------
(* Types. *)

\* What a job holds is of the kind that its step needs.
Sound(j) ==
  /\ j.pc \notin Ended => j.cmd \in Commands /\ j.user \in Names
  /\ j.pc \in {"check", "append", "write"} => j.cmd = "add"
  /\ j.pc \in {"key", "password"} => j.cmd \in {"add", "edit"}
  /\ j.pc \in {"source", "tmp", "read", "flush", "rename", "abortflush", "abortremove"}
       => j.cmd \in {"edit", "del"}
  /\ j.pc \notin Ended /\ j.cmd \in {"add", "edit"} => j.pw \in Passwords /\ j.src \in Sources
  /\ j.pc \notin Ended \union {"key"} /\ j.cmd \in {"add", "edit"} => j.key \in Keys
  /\ j.pc \in {"password", "write"} /\ j.cmd = "add" => j.fd \in Inodes
  /\ j.pc \in {"tmp", "read"} => j.fd \in Inodes
  /\ j.pc \in {"read", "flush", "abortflush"} => j.tfd \in Inodes
  /\ j.pc = "password" /\ j.cmd = "edit" => j.tfd \in Inodes

TypeInv == TypeOK /\ \A p \in Procs : Sound(job[p])

\* What add writes for a user is a sequence of lines.
LEMMA EntryType ==
  ASSUME NEW u \in Names, NEW c \in Credentials
  PROVE  Entry(u, c) \in Seq(Piece)
<1> DEFINE P(k) == [kind |-> k, user |-> u, cred |-> c]
<1>1. P("head") \in Piece /\ P("tail") \in Piece /\ P("whole") \in Piece
  BY DEF Piece
<1> HIDE DEF P
<1>2. <<P("head"), P("tail")>> \in Seq(Piece) /\ <<P("whole")>> \in Seq(Piece)
  BY <1>1
<1> QED
  BY <1>2 DEF Entry, P

\* What edit and del make of each line, as a function on the lines, for edit together
\* with what is written if the line is one of the user.
Pairs(s, cs) == [i \in DOMAIN s |-> <<s[i], cs[i]>>]

EditedPair(u) == [x \in Piece \X Credentials |->
                    IF NameIs(x[1], u) THEN Entry(u, x[2]) ELSE <<x[1]>>]
RemovedPiece(u) == [x \in Piece |-> IF NameIs(x, u) THEN <<>> ELSE <<x>>]
PiecePassword(u) == [x \in Piece |-> IF NameIs(x, u) THEN <<x.cred>> ELSE <<>>]

\* The loops over the lines replace each line on its own.
LEMMA AsFlatMap ==
  ASSUME NEW s \in Seq(Piece), NEW u
  PROVE  /\ Removed(s, u) = FlatMap(RemovedPiece(u), s)
         /\ PasswordsOf(s, u) = FlatMap(PiecePassword(u), s)
<1>1. \A i \in DOMAIN s : s[i] \in Piece
  OBVIOUS
<1>3. Images(RemovedPiece(u), s) = [i \in DOMAIN s |-> IF NameIs(s[i], u) THEN <<>> ELSE <<s[i]>>]
  BY <1>1 DEF Images, RemovedPiece
<1>4. Images(PiecePassword(u), s) = [i \in DOMAIN s |-> IF NameIs(s[i], u) THEN <<s[i].cred>> ELSE <<>>]
  BY <1>1 DEF Images, PiecePassword
<1> QED
  BY <1>3, <1>4, Zenon DEF FlatMap, Removed, PasswordsOf

\* What they replace a line with.
LEMMA PieceMaps ==
  ASSUME NEW u \in Names
  PROVE  /\ EditedPair(u) \in [Piece \X Credentials -> Seq(Piece)]
         /\ RemovedPiece(u) \in [Piece -> Seq(Piece)]
         /\ PiecePassword(u) \in [Piece -> Seq(Credentials)]
<1>1. \A x \in Piece : <<x>> \in Seq(Piece) /\ <<>> \in Seq(Piece)
  OBVIOUS
<1>2. \A x \in Piece : x.cred \in Credentials
  BY DEF Piece
<1>3. \A x \in Piece : <<x.cred>> \in Seq(Credentials) /\ <<>> \in Seq(Credentials)
  BY <1>2
<1>4. EditedPair(u) \in [Piece \X Credentials -> Seq(Piece)]
  <2>1. ASSUME NEW x \in Piece \X Credentials PROVE EditedPair(u)[x] \in Seq(Piece)
    <3>1. x[1] \in Piece /\ x[2] \in Credentials
      OBVIOUS
    <3>2. Entry(u, x[2]) \in Seq(Piece)
      BY <3>1, EntryType
    <3> QED
      BY <1>1, <3>1, <3>2 DEF EditedPair
  <2> QED
    BY <2>1 DEF EditedPair
<1> QED
  BY <1>1, <1>3, <1>4 DEF RemovedPiece, PiecePassword

\* The lines, each with what is written if it is one of the user.
LEMMA PairsType ==
  ASSUME NEW R, NEW C, NEW s \in Seq(R), NEW cs \in [DOMAIN s -> C]
  PROVE  Pairs(s, cs) \in Seq(R \X C) /\ DOMAIN Pairs(s, cs) = DOMAIN s
<1>1. /\ DOMAIN s = 1 .. Len(s) /\ Len(s) \in Nat
      /\ \A i \in DOMAIN s : s[i] \in R /\ cs[i] \in C
  OBVIOUS
<1>2. Pairs(s, cs) \in [1 .. Len(s) -> R \X C]
  BY <1>1 DEF Pairs
<1> QED
  BY <1>1, <1>2

\* The loop of edit, as a FlatMap over the lines and what is written at each.
LEMMA EditedAsFlatMap ==
  ASSUME NEW u, NEW s \in Seq(Piece), NEW cs \in [DOMAIN s -> Credentials]
  PROVE  Edited(s, u, cs) = FlatMap(EditedPair(u), Pairs(s, cs))
<1>1. /\ DOMAIN s = 1 .. Len(s) /\ Len(s) \in Nat
      /\ \A i \in DOMAIN s : s[i] \in Piece /\ cs[i] \in Credentials
  OBVIOUS
<1>2. DOMAIN Pairs(s, cs) = DOMAIN s
  BY DEF Pairs
<1>3. Images(EditedPair(u), Pairs(s, cs)) =
        [i \in DOMAIN s |-> IF NameIs(s[i], u) THEN Entry(u, cs[i]) ELSE <<s[i]>>]
  <2>1. ASSUME NEW i \in DOMAIN s
        PROVE  EditedPair(u)[Pairs(s, cs)[i]] =
                 IF NameIs(s[i], u) THEN Entry(u, cs[i]) ELSE <<s[i]>>
    <3>1. Pairs(s, cs)[i] = <<s[i], cs[i]>> /\ <<s[i], cs[i]>> \in Piece \X Credentials
      BY <1>1 DEF Pairs
    <3> QED
      BY <3>1 DEF EditedPair
  <2> QED
    BY <1>2, <2>1 DEF Images
<1> QED
  BY <1>3, Zenon DEF FlatMap, Edited

\* Where what is written for each line is over a set, so is the file that edit makes.
LEMMA EditedInto ==
  ASSUME NEW u \in Names, NEW R, R \subseteq Piece, NEW C, C \subseteq Credentials,
         NEW U,
         \A x \in R : ~NameIs(x, u) => <<x>> \in Seq(U),
         \A c \in C : Entry(u, c) \in Seq(U)
  PROVE  \A s \in Seq(R) : \A cs \in [DOMAIN s -> C] : Edited(s, u, cs) \in Seq(U)
<1> DEFINE F == EditedPair(u)
<1>1. F \in [Piece \X Credentials -> Seq(Piece)]
  BY PieceMaps
<1>2. ASSUME NEW x \in R \X C PROVE F[x] \in Seq(U)
  <2>1. x \in Piece \X Credentials /\ x[1] \in R /\ x[2] \in C
    OBVIOUS
  <2> QED
    BY <2>1 DEF EditedPair
<1>3. R \X C \subseteq Piece \X Credentials
  OBVIOUS
<1> SUFFICES ASSUME NEW s \in Seq(R), NEW cs \in [DOMAIN s -> C]
             PROVE  Edited(s, u, cs) \in Seq(U)
  OBVIOUS
<1>4. Edited(s, u, cs) = FlatMap(F, Pairs(s, cs))
  <2>1. s \in Seq(Piece) /\ cs \in [DOMAIN s -> Credentials]
    OBVIOUS
  <2> QED
    BY <2>1, EditedAsFlatMap, Zenon
<1>5. Pairs(s, cs) \in Seq(R \X C)
  BY PairsType, Zenon
<1> HIDE DEF F
<1>6. \A t \in Seq(R \X C) : FlatMap(F, t) \in Seq(U)
  BY <1>1, <1>2, <1>3, FlatMapInto
<1> QED
  BY <1>4, <1>5, <1>6, Zenon

\* So the loops make files of files, and lists of passwords of files.
LEMMA EditType ==
  ASSUME NEW u \in Names, NEW s \in Seq(Piece)
  PROVE  /\ \A cs \in [DOMAIN s -> Credentials] : Edited(s, u, cs) \in Seq(Piece)
         /\ Removed(s, u) \in Seq(Piece)
         /\ PasswordsOf(s, u) \in Seq(Credentials)
<1>1. \A cs \in [DOMAIN s -> Credentials] : Edited(s, u, cs) \in Seq(Piece)
  <2>1. \A x \in Piece : <<x>> \in Seq(Piece)
    OBVIOUS
  <2>2. \A c \in Credentials : Entry(u, c) \in Seq(Piece)
    BY EntryType
  <2> QED
    BY <2>1, <2>2, EditedInto
<1>2. FlatMap(RemovedPiece(u), s) \in Seq(Piece)
  BY PieceMaps, FlatMapType, Zenon
<1>3. FlatMap(PiecePassword(u), s) \in Seq(Credentials)
  BY PieceMaps, FlatMapType, Zenon
<1> QED
  BY <1>1, <1>2, <1>3, AsFlatMap, Zenon

\* What is written over a file never makes it shorter.
LEMMA OverlayType ==
  ASSUME NEW S, NEW old \in Seq(S), NEW new \in Seq(S)
  PROVE  /\ Overlay(old, new) \in Seq(S)
         /\ Len(Overlay(old, new)) = IF Len(new) <= Len(old) THEN Len(old) ELSE Len(new)
<1>1. SubSeq(old, Len(new) + 1, Len(old)) \in Seq(S)
  OBVIOUS
<1>2. Len(SubSeq(old, Len(new) + 1, Len(old))) = IF Len(new) <= Len(old) THEN Len(old) - Len(new) ELSE 0
  OBVIOUS
<1> QED
  BY <1>1, <1>2, ConcatProperties DEF Overlay

\* No command has run: nothing is open.
LEMMA TypeInit == Init => TypeInv
<1> SUFFICES ASSUME Init PROVE TypeInv
  OBVIOUS
<1>1. \A p \in Procs : job[p] = NoJob("idle")
  BY DEF Init
<1>2. NoJob("idle") \in Job /\ Sound(NoJob("idle"))
  BY DEF Job, NoJob, NewJob, Sound, Ended
<1>3. job \in [Procs -> Job] /\ \A p \in Procs : Sound(job[p])
  BY <1>1, <1>2 DEF Init
<1>4. lines \in [Inodes -> Seq(Piece)]
  BY DEF Init
<1> QED
  BY <1>3, <1>4, UsersFileAssumption DEF Init, TypeInv, TypeOK

\* The job of one process changes to another sound one.
JobChange(p) == \E j \in Job : Sound(j) /\ job' = [job EXCEPT ![p] = j]

\* A process that ends holds nothing.
LEMMA EndChange ==
  ASSUME NEW p \in Procs, NEW pc \in Ended, End(p, pc)
  PROVE  JobChange(p)
<1>1. NoJob(pc) \in Job /\ Sound(NoJob(pc))
  BY DEF Job, NoJob, NewJob, Sound, Ended
<1> QED
  BY <1>1 DEF End, JobChange

\* The job of each process.
LEMMA SoundField ==
  ASSUME NEW p \in Procs, TypeInv
  PROVE  job[p] \in Job /\ Sound(job[p])
BY DEF TypeInv, TypeOK

\* The arguments of a command make a sound job.
LEMMA StartJob ==
  ASSUME NEW p \in Procs, TypeInv, Start(p)
  PROVE  JobChange(p)
<1> USE UsersFileAssumption DEF JobChange, Job, Sound, NewJob, Ended, Steps
<1>1. ASSUME NEW u \in Names, NEW named \in Prompts, "del" \in Commands,
             job' = [job EXCEPT ![p] = NewJob("source", "del", u, named, "none", "none")]
      PROVE  JobChange(p)
  <2>1. NewJob("source", "del", u, named, "none", "none") \in Job
    BY <1>1
  <2>2. Sound(NewJob("source", "del", u, named, "none", "none"))
    BY <1>1
  <2> QED
    BY <1>1, <2>1, <2>2
<1>2. ASSUME NEW u \in Names, NEW named \in Prompts, NEW cmd \in Commands,
             NEW w \in Passwords, NEW s \in Sources, cmd \in {"add", "edit"},
             job' = [job EXCEPT ![p] = NewJob("key", cmd, u, named, w, s)]
      PROVE  JobChange(p)
  <2>1. NewJob("key", cmd, u, named, w, s) \in Job
    BY <1>2
  <2>2. Sound(NewJob("key", cmd, u, named, w, s))
    BY <1>2
  <2> QED
    BY <1>2, <2>1, <2>2
<1> QED
  BY <1>1, <1>2 DEF Start

\* The steps of add, and those it shares with edit, keep the job sound.
LEMMA AddJob ==
  ASSUME NEW p \in Procs, TypeInv, ReadKey(p) \/ AskPassword(p) \/ AddStep(p)
  PROVE  JobChange(p)
<1> DEFINE j == job[p]
<1>0. j \in Job /\ Sound(j)
  BY SoundField
<1>1. CASE End(p, "failure")
  BY <1>1, EndChange DEF Ended
<1>2. CASE ReadKey(p)
  <2>1. CASE masterKey # NoKey
    <3> DEFINE next == IF job[p].cmd = "add" THEN "check" ELSE "source"
               k == [j EXCEPT !.key = masterKey, !.pc = next]
    <3>1. job' = [job EXCEPT ![p] = k]
      BY <1>2, <2>1 DEF ReadKey, TypeInv, TypeOK
    <3>2. /\ masterKey \in Keys /\ j.pc = "key" /\ next \in {"check", "source"}
          /\ j.cmd = "add" <=> next = "check"
      BY <1>2, <2>1 DEF ReadKey, TypeInv, TypeOK, At
    <3> HIDE DEF next
    <3>3. k \in Job /\ Sound(k)
      BY <1>0, <3>2, ZenonT(30) DEF Job, Sound, Ended, Steps
    <3> QED
      BY <3>1, <3>3 DEF JobChange
  <2> QED
    BY <1>1, <1>2, <2>1 DEF ReadKey
<1>3. CASE AddCheck(p)
  <2>1. CASE Goto(p, "append")
    <3> DEFINE k == [j EXCEPT !.pc = "append"]
    <3>1. k \in Job /\ Sound(k)
      BY <1>0, <1>3, <2>1 DEF AddCheck, Job, Sound, Ended, Steps, At
    <3>2. job' = [job EXCEPT ![p] = k]
      BY <1>3, <2>1 DEF Goto, TypeInv, TypeOK
    <3> QED
      BY <3>1, <3>2 DEF JobChange
  <2> QED
    BY <1>1, <1>3, <2>1 DEF AddCheck
<1>4. CASE AddOpen(p)
  <2>1. ASSUME NEW i \in Inodes, job' = [job EXCEPT ![p].fd = i, ![p].pc = "password"]
        PROVE  JobChange(p)
    <3> DEFINE k == [j EXCEPT !.fd = i, !.pc = "password"]
    <3>1. k \in Job /\ Sound(k)
      BY <1>0, <1>4, <2>1 DEF AddOpen, Job, Sound, Ended, Steps, At
    <3>2. job' = [job EXCEPT ![p] = k]
      BY <1>4, <2>1 DEF TypeInv, TypeOK
    <3> QED
      BY <3>1, <3>2 DEF JobChange
  <2> QED
    BY <1>1, <1>4, <2>1 DEF AddOpen
<1>5. CASE AskPassword(p)
  <2>1. CASE job[p].cmd = "add" /\ Goto(p, "write")
    <3> DEFINE k == [j EXCEPT !.pc = "write"]
    <3>1. k \in Job /\ Sound(k)
      BY <1>0, <1>5, <2>1 DEF AskPassword, Job, Sound, Ended, Steps, At
    <3>2. job' = [job EXCEPT ![p] = k]
      BY <1>5, <2>1 DEF Goto, TypeInv, TypeOK
    <3> QED
      BY <3>1, <3>2 DEF JobChange
  <2>2. ASSUME NEW s \in Sources, job' = [job EXCEPT ![p].src = s]
        PROVE  JobChange(p)
    <3> DEFINE k == [j EXCEPT !.src = s]
    <3>1. k \in Job /\ Sound(k)
      BY <1>0, <1>5, <2>2 DEF AskPassword, Job, Sound, Ended, Steps, At
    <3>2. job' = [job EXCEPT ![p] = k]
      BY <1>5, <2>2 DEF TypeInv, TypeOK
    <3> QED
      BY <3>1, <3>2 DEF JobChange
  <2> QED
    BY <1>5, <2>1, <2>2 DEF AskPassword
<1>6. CASE AddWrite(p)
  <2> DEFINE k == [j EXCEPT !.fd = NoInode, !.pc = "report"]
  <2>1. k \in Job /\ Sound(k)
    BY <1>0, <1>6, ZenonT(30) DEF AddWrite, Job, Sound, Ended, Steps, At
  <2>2. job' = [job EXCEPT ![p] = k]
    BY <1>6 DEF AddWrite, TypeInv, TypeOK
  <2> QED
    BY <2>1, <2>2 DEF JobChange
<1> QED
  BY <1>2, <1>3, <1>4, <1>5, <1>6 DEF AddStep

\* What edit can write is a credential made with the key it has read.
LEMMA AnswersType ==
  ASSUME NEW p \in Procs, Sound(job[p]), job[p].pc \notin Ended \union {"key"},
         job[p].cmd = "edit"
  PROVE  /\ Answers(p) \subseteq Credentials
         /\ \A c \in Answers(p) : c.key = job[p].key
<1>1. job[p].pw \in Passwords /\ job[p].key \in Keys
  BY DEF Sound
<1> QED
  BY <1>1 DEF Answers, Cred, Credentials

\* The steps of edit and del, and the report, keep the job sound.
LEMMA ReplaceJob ==
  ASSUME NEW p \in Procs, TypeInv, ReplaceStep(p) \/ Report(p) \/ Crash(p)
  PROVE  JobChange(p)
<1> DEFINE j == job[p]
<1>0. j \in Job /\ Sound(j)
  BY SoundField
<1>1. CASE End(p, "failure") \/ End(p, "success") \/ End(p, "killed")
  BY <1>1, EndChange DEF Ended
<1>2. CASE OpenUsers(p)
  <2>1. CASE dir.users # NoInode
    <3> DEFINE k == [j EXCEPT !.fd = dir.users, !.pc = "tmp"]
    <3>1. k \in Job /\ Sound(k)
      BY <1>0, <1>2, <2>1, ZenonT(30)
      DEF OpenUsers, TypeInv, TypeOK, Job, Sound, Ended, Steps, At
    <3>2. job' = [job EXCEPT ![p] = k]
      BY <1>2, <2>1 DEF OpenUsers, TypeInv, TypeOK
    <3> QED
      BY <3>1, <3>2 DEF JobChange
  <2>2. CASE job[p].cmd = "del" /\ Goto(p, "abortremove")
    <3> DEFINE k == [j EXCEPT !.pc = "abortremove"]
    <3>1. k \in Job /\ Sound(k)
      BY <1>0, <1>2, <2>2 DEF OpenUsers, Job, Sound, Ended, Steps, At
    <3>2. job' = [job EXCEPT ![p] = k]
      BY <2>2 DEF Goto, TypeInv, TypeOK
    <3> QED
      BY <3>1, <3>2 DEF JobChange
  <2> QED
    BY <1>1, <1>2, <2>1, <2>2 DEF OpenUsers
<1>3. CASE OpenTmp(p)
  <2>1. PICK i \in Inodes : job' = [job EXCEPT ![p].tfd = i, ![p].pc = "read"]
    BY <1>3 DEF OpenTmp
  <2> DEFINE k == [j EXCEPT !.tfd = i, !.pc = "read"]
  <2>2. k \in Job /\ Sound(k)
    BY <1>0, <1>3, <2>1 DEF OpenTmp, Job, Sound, Ended, Steps, At
  <2>3. job' = [job EXCEPT ![p] = k]
    BY <2>1 DEF TypeInv, TypeOK
  <2> QED
    BY <2>2, <2>3 DEF JobChange
<1>4. CASE ReadUsers(p)
  <2>1. j.pc = "read" /\ j.user \in Names /\ lines[j.fd] \in Seq(Piece)
    BY <1>0, <1>4 DEF ReadUsers, At, TypeInv, TypeOK, Sound, Ended
  <2>2. ASSUME NEW o \in Seq(Piece), NEW pc \in {"password", "flush", "abortflush"},
               job' = [job EXCEPT ![p].out = o, ![p].pc = pc],
               pc = "password" => j.cmd = "edit"
        PROVE  JobChange(p)
    <3> DEFINE k == [j EXCEPT !.out = o, !.pc = pc]
    <3>1. k \in Job /\ Sound(k)
      BY <1>0, <2>1, <2>2 DEF Job, Sound, Ended, Steps
    <3>2. job' = [job EXCEPT ![p] = k]
      BY <2>2 DEF TypeInv, TypeOK
    <3> QED
      BY <3>1, <3>2 DEF JobChange
  <2>3. CASE Goto(p, "abortflush")
    <3> DEFINE k == [j EXCEPT !.pc = "abortflush"]
    <3>1. k \in Job /\ Sound(k)
      BY <1>0, <2>1 DEF Job, Sound, Ended, Steps
    <3>2. job' = [job EXCEPT ![p] = k]
      BY <2>3 DEF Goto, TypeInv, TypeOK
    <3> QED
      BY <3>1, <3>2 DEF JobChange
  <2>4. Removed(lines[j.fd], j.user) \in Seq(Piece)
    BY <2>1, EditType
  <2> QED
    BY <1>4, <2>1, <2>2, <2>3, <2>4 DEF ReadUsers
<1>5. CASE job' = [job EXCEPT ![p].tfd = NoInode, ![p].fd = NoInode, ![p].pc = "rename"]
           /\ At(p, "flush")
  <2> DEFINE k == [j EXCEPT !.tfd = NoInode, !.fd = NoInode, !.pc = "rename"]
  <2>1. k \in Job /\ Sound(k)
    BY <1>0, <1>5, ZenonT(30) DEF Job, Sound, Ended, Steps, At
  <2>2. job' = [job EXCEPT ![p] = k]
    BY <1>5 DEF TypeInv, TypeOK
  <2> QED
    BY <2>1, <2>2 DEF JobChange
<1>6. CASE job' = [job EXCEPT ![p].tfd = NoInode, ![p].fd = NoInode,
                              ![p].pc = "abortremove"]
           /\ At(p, "abortflush")
  <2> DEFINE k == [j EXCEPT !.tfd = NoInode, !.fd = NoInode, !.pc = "abortremove"]
  <2>1. k \in Job /\ Sound(k)
    BY <1>0, <1>6, ZenonT(30) DEF Job, Sound, Ended, Steps, At
  <2>2. job' = [job EXCEPT ![p] = k]
    BY <1>6 DEF TypeInv, TypeOK
  <2> QED
    BY <2>1, <2>2 DEF JobChange
<1>7. CASE Rename(p)
  <2>1. ASSUME NEW pc \in {"abortremove", "report"}, Goto(p, pc) PROVE JobChange(p)
    <3> DEFINE k == [j EXCEPT !.pc = pc]
    <3>1. k \in Job /\ Sound(k)
      BY <1>0, <1>7 DEF Rename, Job, Sound, Ended, Steps, At
    <3>2. job' = [job EXCEPT ![p] = k]
      BY <2>1 DEF Goto, TypeInv, TypeOK
    <3> QED
      BY <3>1, <3>2 DEF JobChange
  <2> QED
    BY <1>7, <2>1 DEF Rename
<1>8. CASE EditLines(p)
  <2>1. /\ j.pc = "password" /\ j.cmd = "edit" /\ j.user \in Names /\ j.out \in Seq(Piece)
        /\ j.tfd \in Inodes
    BY <1>0, <1>8 DEF EditLines, At, Sound, Ended, Job
  <2>2. PICK cs \in [DOMAIN j.out -> Answers(p)] :
          job' = [job EXCEPT ![p].out = Edited(@, job[p].user, cs), ![p].pc = "flush"]
    BY <1>8 DEF EditLines
  <2>3. Answers(p) \subseteq Credentials
    BY <1>0, <2>1, AnswersType DEF Ended
  <2>4. cs \in [DOMAIN j.out -> Credentials]
    BY <2>2, <2>3
  <2> DEFINE o == Edited(j.out, j.user, cs)
             k == [j EXCEPT !.out = o, !.pc = "flush"]
  <2>5. o \in Seq(Piece)
    BY <2>1, <2>4, EditType
  <2>6. job' = [job EXCEPT ![p] = k]
    BY <2>2 DEF TypeInv, TypeOK
  <2> HIDE DEF o
  <2>7. k \in Job /\ Sound(k)
    BY <1>0, <2>1, <2>5 DEF Job, Sound, Ended, Steps
  <2> QED
    BY <2>6, <2>7 DEF JobChange
<1>9. CASE Report(p)
  <2>1. CASE job[p].cmd # "add" /\ Goto(p, "abortremove")
    <3> DEFINE k == [j EXCEPT !.pc = "abortremove"]
    <3>1. k \in Job /\ Sound(k)
      BY <1>0, <1>9, <2>1, UsersFileAssumption DEF Report, Job, Sound, Ended, Steps, At
    <3>2. job' = [job EXCEPT ![p] = k]
      BY <2>1 DEF Goto, TypeInv, TypeOK
    <3> QED
      BY <3>1, <3>2 DEF JobChange
  <2> QED
    BY <1>1, <1>9, <2>1 DEF Report
<1> QED
  BY <1>1, <1>2, <1>3, <1>4, <1>5, <1>6, <1>7, <1>8, <1>9
  DEF ReplaceStep, Flush, AbortFlush, AbortRemove, Crash

\* Every step keeps the types and the jobs sound.
LEMMA TypeStep == TypeInv /\ [Next]_vars => TypeInv'
<1> SUFFICES ASSUME TypeInv, [Next]_vars PROVE TypeInv'
  OBVIOUS
<1> USE UsersFileAssumption
<1>1. CASE UNCHANGED vars
  BY <1>1 DEF vars, TypeInv, TypeOK, Sound, Job
<1>2. ASSUME NEW p \in Procs, Start(p) \/ Step(p) \/ Crash(p) PROVE TypeInv'
  <2>1. PICK j \in Job : Sound(j) /\ job' = [job EXCEPT ![p] = j]
    BY <1>2, StartJob, AddJob, ReplaceJob DEF Step, JobChange
  <2>2. job' \in [Procs -> Job] /\ \A q \in Procs : Sound(job'[q])
    BY <2>1 DEF TypeInv, TypeOK
  <2>3. masterKey' \in Keys \union {NoKey} /\ started' \in 0 .. MaxJobs
    <3>1. masterKey' = masterKey
      BY <1>2 DEF Step, AddStep, ReplaceStep, Start, Crash, ReadKey, AskPassword,
         AddCheck, AddOpen, AddWrite, OpenUsers, OpenTmp, ReadUsers, EditLines, Flush,
         Rename, Report, AbortFlush, AbortRemove
    <3>2. started' = started \/ (started < MaxJobs /\ started' = started + 1)
      BY <1>2 DEF Step, AddStep, ReplaceStep, Start, Crash, ReadKey, AskPassword,
         AddCheck, AddOpen, AddWrite, OpenUsers, OpenTmp, ReadUsers, EditLines, Flush,
         Rename, Report, AbortFlush, AbortRemove
    <3> QED
      BY <3>1, <3>2 DEF TypeInv, TypeOK
  <2>4. /\ dir' \in [users : Inodes \union {NoInode}, tmp : Inodes \union {NoInode}]
        /\ mode' \in [Inodes -> {"0600", "umask"}]
    <3> DEFINE D == [users : Inodes \union {NoInode}, tmp : Inodes \union {NoInode}]
               M == [Inodes -> {"0600", "umask"}]
    <3>0. dir \in D /\ mode \in M
      BY DEF TypeInv, TypeOK
    <3>a. /\ \A i \in Inodes : [dir EXCEPT !.users = i] \in D
          /\ \A i \in Inodes : [dir EXCEPT !.tmp = i] \in D
          /\ [dir EXCEPT !.tmp = NoInode] \in D
          /\ [users |-> dir.tmp, tmp |-> NoInode] \in D
      BY <3>0
    <3>b. \A i \in Inodes : [mode EXCEPT ![i] = "umask"] \in M
      BY <3>0
    <3> SUFFICES dir' \in D /\ mode' \in M
      OBVIOUS
    <3> HIDE DEF D, M
    <3>1. CASE UNCHANGED <<dir, mode>>
      BY <3>0, <3>1
    <3>2. CASE AddOpen(p)
      BY <3>0, <3>a, <3>b, <3>2 DEF AddOpen
    <3>3. CASE OpenTmp(p)
      BY <3>0, <3>a, <3>b, <3>3 DEF OpenTmp
    <3>4. CASE Rename(p) \/ AbortRemove(p)
      BY <3>0, <3>a, <3>4 DEF Rename, AbortRemove
    <3> QED
      BY <1>2, <3>1, <3>2, <3>3, <3>4
      DEF Step, AddStep, ReplaceStep, Start, Crash, ReadKey, AskPassword,
          AddCheck, AddWrite, OpenUsers, ReadUsers, EditLines, Flush, Report, AbortFlush
  <2>5. lines' \in [Inodes -> Seq(Piece)]
    <3>1. CASE UNCHANGED lines
      BY <3>1 DEF TypeInv, TypeOK
    <3>2. CASE \E i \in Inodes : lines' = [lines EXCEPT ![i] = <<>>]
      BY <3>2 DEF TypeInv, TypeOK
    <3>3. CASE AddWrite(p)
      <4>1. /\ job[p].fd \in Inodes /\ lines[job[p].fd] \in Seq(Piece)
            /\ job[p].user \in Names /\ Cred(p) \in Credentials
        BY <3>3, SoundField
        DEF AddWrite, At, Sound, Ended, TypeInv, TypeOK, Cred, Credentials
      <4>2. lines[job[p].fd] \o Entry(job[p].user, Cred(p)) \in Seq(Piece)
        BY <4>1, EntryType
      <4> QED
        BY <3>3, <4>1, <4>2 DEF AddWrite, TypeInv, TypeOK
    <3>4. CASE Flush(p) \/ AbortFlush(p)
      <4>1. job[p].out \in Seq(Piece)
        BY SoundField DEF Job
      <4>2. job[p].tfd \in Inodes /\ lines[job[p].tfd] \in Seq(Piece)
        BY <3>4, SoundField DEF Flush, AbortFlush, At, Sound, TypeInv, TypeOK
      <4>3. Overlay(lines[job[p].tfd], job[p].out) \in Seq(Piece)
        BY <4>1, <4>2, OverlayType
      <4> QED
        BY <3>4, <4>2, <4>3 DEF Flush, AbortFlush, TypeInv, TypeOK
    <3> QED
      BY <1>2, <3>1, <3>2, <3>3, <3>4 DEF Step, AddStep, ReplaceStep, Start, Crash,
         ReadKey, AskPassword, AddCheck, AddOpen, OpenUsers, OpenTmp, ReadUsers,
         EditLines, Rename, Report, AbortRemove
  <2> QED
    BY <2>2, <2>3, <2>4, <2>5 DEF TypeInv, TypeOK, Job
<1> QED
  BY <1>1, <1>2 DEF Next

\* Whatever the commands are, however they overlap and whichever are killed, every
\* variable keeps its type: in particular every step that writes has a file open.
THEOREM TypeCorrect == Spec => []TypeOK
<1>1. TypeInv => TypeOK
  BY DEF TypeInv
<1> QED
  BY <1>1, TypeInit, TypeStep, PTL DEF Spec

-----------------------------------------------------------------------------
USE DEF At, Goto, End, Running, Ended, NoJob, NewJob

-----------------------------------------------------------------------------
(* Any number of commands at a time. *)

Dirs == [users : Inodes \union {NoInode}, tmp : Inodes \union {NoInode}]

Apart == dir \in Dirs /\ NamesApart

\* In the beginning there is no file with the temporary name.
LEMMA ApartInit == Init => Apart
BY UsersFileAssumption DEF Init, Apart, Dirs, NamesApart

\* Every step of every command keeps the two names on different inodes.
LEMMA ApartStep == Apart /\ [Next]_vars => Apart'
<1> USE UsersFileAssumption DEF Apart, Dirs, NamesApart
<1> SUFFICES ASSUME Apart, [Next]_vars PROVE Apart'
  OBVIOUS
<1>1. ASSUME UNCHANGED dir PROVE Apart'
  BY <1>1
<1>2. CASE UNCHANGED vars
  BY <1>1, <1>2 DEF vars
<1> SUFFICES ASSUME NEW p \in Procs, Start(p) \/ Step(p) \/ Crash(p)
             PROVE  Apart'
  BY <1>2 DEF Next
<1>3. CASE AddOpen(p)
  BY <1>3 DEF AddOpen, Fresh, Free
<1>4. CASE OpenTmp(p)
  BY <1>4 DEF OpenTmp, Fresh, Free
<1>5. CASE Rename(p)
  BY <1>5 DEF Rename
<1>6. CASE AbortRemove(p)
  BY <1>6 DEF AbortRemove
<1>7. CASE Start(p) \/ Crash(p) \/ ReadKey(p) \/ AskPassword(p)
  BY <1>1, <1>7 DEF Start, Crash, ReadKey, AskPassword
<1>8. CASE AddCheck(p) \/ AddWrite(p) \/ OpenUsers(p)
  BY <1>1, <1>8 DEF AddCheck, AddWrite, OpenUsers
<1>9. CASE ReadUsers(p) \/ EditLines(p) \/ Flush(p) \/ Report(p) \/ AbortFlush(p)
  BY <1>1, <1>9 DEF ReadUsers, EditLines, Flush, Report, AbortFlush
<1> QED
  BY <1>3, <1>4, <1>5, <1>6, <1>7, <1>8, <1>9 DEF Step, AddStep, ReplaceStep

\* However the commands overlap, and whatever is killed, the temporary name never
\* names the users file: an fopen of the former never truncates the latter.
THEOREM NamesStayApart == Spec => []NamesApart
<1>1. Apart => NamesApart
  BY DEF Apart
<1> QED
  BY <1>1, ApartInit, ApartStep, PTL DEF Spec

-----------------------------------------------------------------------------
\* While the users file is the same inode it never gets shorter, whatever commands
\* overlap and are killed: the only file that is truncated has the temporary name.
THEOREM NeverShorter == Spec => LiveNeverShrinks
<1> DEFINE Grows == dir.users # NoInode /\ dir'.users = dir.users =>
                      Len(UsersLines) <= Len(UsersLines')
<1>1. ASSUME TypeInv, Apart, [Next]_vars PROVE Grows
  <2> SUFFICES ASSUME dir.users # NoInode, dir'.users = dir.users
               PROVE  Len(lines[dir.users]) <= Len(lines'[dir.users])
    BY DEF UsersLines
  <2>1. /\ dir.users \in Inodes /\ lines \in [Inodes -> Seq(Piece)]
        /\ lines[dir.users] \in Seq(Piece) /\ dir.users # dir.tmp
    BY <1>1 DEF TypeInv, TypeOK, Apart, NamesApart
  <2>2. CASE lines'[dir.users] = lines[dir.users]
    BY <2>1, <2>2
  <2>3. ASSUME NEW p \in Procs, Start(p) \/ Step(p) \/ Crash(p)
        PROVE  Len(lines[dir.users]) <= Len(lines'[dir.users])
    <3>1. CASE AddWrite(p)
      <4>1. /\ job[p].fd \in Inodes /\ job[p].user \in Names /\ Cred(p) \in Credentials
        BY <1>1, <3>1, SoundField
        DEF AddWrite, At, Sound, Ended, TypeInv, TypeOK, Cred, Credentials
      <4>2. Len(lines[dir.users]) <= Len(lines[dir.users] \o Entry(job[p].user, Cred(p)))
        <5>1. Entry(job[p].user, Cred(p)) \in Seq(Piece)
          BY <4>1, EntryType
        <5>2. \A a, b \in Seq(Piece) : Len(a) <= Len(a \o b)
          OBVIOUS
        <5> QED
          BY <2>1, <5>1, <5>2
      <4>3. lines' = [lines EXCEPT ![job[p].fd] = @ \o Entry(job[p].user, Cred(p))]
        BY <3>1 DEF AddWrite
      <4>4. CASE job[p].fd = dir.users
        BY <2>1, <4>2, <4>3, <4>4
      <4> QED
        BY <2>1, <2>2, <4>1, <4>3, <4>4
    <3>2. CASE Flush(p) \/ AbortFlush(p)
      <4>1. job[p].out \in Seq(Piece)
        BY <1>1, SoundField DEF Job
      <4>2. Len(lines[dir.users]) <= Len(Overlay(lines[dir.users], job[p].out))
        <5>1. \A a, b \in Seq(Piece) : Len(a) <= Len(Overlay(a, b))
          <6> TAKE a, b \in Seq(Piece)
          <6>1. Len(Overlay(a, b)) = IF Len(b) <= Len(a) THEN Len(a) ELSE Len(b)
            BY OverlayType
          <6> QED
            BY <6>1
        <5> QED
          BY <2>1, <4>1, <5>1
      <4>3. lines' = [lines EXCEPT ![job[p].tfd] = Overlay(@, job[p].out)]
        BY <3>2 DEF Flush, AbortFlush
      <4>4. CASE job[p].tfd = dir.users
        BY <2>1, <4>2, <4>3, <4>4
      <4>5. CASE job[p].tfd # dir.users
        BY <2>1, <2>2, <4>3, <4>5
      <4> QED
        BY <4>4, <4>5
    <3>3. CASE AddOpen(p)
      BY <2>1, <2>2, <3>3 DEF AddOpen
    <3>4. CASE OpenTmp(p)
      BY <2>1, <2>2, <3>4 DEF OpenTmp, Fresh, Free
    <3> QED
      BY <2>2, <2>3, <3>1, <3>2, <3>3, <3>4
      DEF Step, AddStep, ReplaceStep, Start, Crash, ReadKey, AskPassword, AddCheck,
          OpenUsers, ReadUsers, EditLines, Rename, Report, AbortRemove
  <2> QED
    BY <1>1, <2>2, <2>3 DEF Next, vars
<1>2. Spec => []TypeInv
  BY TypeInit, TypeStep, PTL DEF Spec
<1>3. Spec => []Apart
  BY ApartInit, ApartStep, PTL DEF Spec
<1>4. TypeInv /\ Apart /\ [Next]_vars => [Grows]_vars
  BY <1>1
<1> QED
  BY <1>2, <1>3, <1>4, PTL DEF Spec, LiveNeverShrinks

-----------------------------------------------------------------------------
(* Any number of adders, and nothing but adders.                           *)
(*                                                                         *)
(* The entries in the file and the adders that are past the check and have *)
(* not written yet: only the check lets one more in, and it counts.        *)

Past == {p \in Procs : job[p].pc \in {"append", "password", "write"}}

Counted == Len(UsersLines) + Cardinality(Past) <= NUMBER_OF_USERS - 1 + Cardinality(Procs)

\* Sets of processes are finite, and smaller than the set of all.
LEMMA PastCard ==
  ASSUME NEW S, S \subseteq Procs
  PROVE  IsFiniteSet(S) /\ Cardinality(S) \in Nat /\ Cardinality(S) <= Cardinality(Procs)
BY UsersFileAssumption, FS_Subset, FS_CardinalityType

\* The length of the users file is a number.
LEMMA UsersLinesType ==
  ASSUME TypeInv
  PROVE  UsersLines \in Seq(Piece) /\ Len(UsersLines) \in Nat
BY DEF TypeInv, TypeOK, UsersLines

\* What a step of an adder does to the file and to the adders past the check.
LEMMA AdderStep ==
  ASSUME Commands = {"add"}, Wide = {}, TypeInv, NEW p \in Procs,
         Start(p) \/ Step(p) \/ Crash(p)
  PROVE  \/ UsersLines' = UsersLines /\ Past' \subseteq Past
         \/ Len(UsersLines) < NUMBER_OF_USERS /\ UsersLines' = UsersLines
         \/ /\ p \in Past /\ Past' = Past \ {p}
            /\ Len(UsersLines') <= Len(UsersLines) + 1
<1> USE UsersFileAssumption
<1>1. ~ReplaceStep(p)
  BY SoundField DEF ReplaceStep, OpenUsers, OpenTmp, ReadUsers, EditLines, Flush, Rename,
     AbortFlush, AbortRemove, Sound
<1>2. job \in [Procs -> Job] /\ Sound(job[p])
  BY SoundField DEF TypeInv, TypeOK
<1>3. CASE Start(p)
  <2>1. UsersLines' = UsersLines
    BY <1>3 DEF Start, UsersLines
  <2>2. \A q \in Procs \ {p} : job'[q] = job[q]
    BY <1>2, <1>3 DEF Start
  <2>3. job'[p].pc \in {"key", "source"}
    BY <1>2, <1>3 DEF Start
  <2> QED
    BY <2>1, <2>2, <2>3 DEF Past
<1>4. CASE ReadKey(p) \/ Crash(p)
  <2>1. UsersLines' = UsersLines
    BY <1>4 DEF ReadKey, Crash, UsersLines
  <2>2. \A q \in Procs \ {p} : job'[q] = job[q]
    BY <1>2, <1>4 DEF ReadKey, Crash
  <2>3. job'[p].pc \in {"check", "source", "failure", "killed"}
    BY <1>2, <1>4 DEF ReadKey, Crash, Job
  <2> QED
    BY <2>1, <2>2, <2>3 DEF Past
<1>5. CASE AskPassword(p)
  BY <1>2, <1>5 DEF AskPassword, Past, UsersLines, Sound
<1>6. CASE AddCheck(p)
  <2>1. UsersLines' = UsersLines
    BY <1>6 DEF AddCheck, UsersLines
  <2>2. CASE End(p, "failure")
    BY <1>2, <2>1, <2>2 DEF Past
  <2>3. CASE dir.users # NoInode => ~(Len(UsersLines) >= NUMBER_OF_USERS)
    BY <2>1, <2>3, UsersLinesType DEF UsersLines
  <2> QED
    BY <1>6, <2>2, <2>3 DEF AddCheck
<1>7. CASE AddOpen(p)
  <2>1. UsersLines' = UsersLines
    BY <1>7 DEF AddOpen, UsersLines, TypeInv, TypeOK
  <2>2. Past' \subseteq Past
    BY <1>2, <1>7 DEF AddOpen, Past
  <2> QED
    BY <2>1, <2>2
<1>8. CASE AddWrite(p)
  <2>1. p \in Past /\ Past' = Past \ {p}
    BY <1>2, <1>8 DEF AddWrite, Past
  <2>2. Entry(job[p].user, Cred(p)) \in Seq(Piece) /\ Len(Entry(job[p].user, Cred(p))) = 1
    BY <1>2, <1>8, EntryType
    DEF AddWrite, Sound, TypeInv, TypeOK, Cred, Credentials, Entry
  <2>3. \A a, b \in Seq(Piece) : Len(b) = 1 => Len(a \o b) = Len(a) + 1
    BY ConcatProperties, ZenonT(30)
  <2>4. /\ dir' = dir
        /\ lines' = [lines EXCEPT ![job[p].fd] = @ \o Entry(job[p].user, Cred(p))]
    BY <1>8 DEF AddWrite
  <2>5. Len(UsersLines') <= Len(UsersLines) + 1
    <3>1. CASE dir.users # NoInode /\ job[p].fd = dir.users
      BY <2>2, <2>3, <2>4, <3>1 DEF UsersLines, TypeInv, TypeOK
    <3>2. CASE ~(dir.users # NoInode /\ job[p].fd = dir.users)
      <4>1. UsersLines' = UsersLines
        BY <2>4, <3>2 DEF UsersLines, TypeInv, TypeOK
      <4> QED
        BY <4>1, UsersLinesType
    <3> QED
      BY <3>1, <3>2
  <2> QED
    BY <2>1, <2>5
<1>9. CASE Report(p)
  <2>1. UsersLines' = UsersLines
    BY <1>9 DEF Report, UsersLines
  <2>2. \A q \in Procs \ {p} : job'[q] = job[q]
    BY <1>2, <1>9 DEF Report
  <2>3. job'[p].pc \in {"success", "failure", "abortremove"}
    BY <1>2, <1>9 DEF Report, Job
  <2> QED
    BY <2>1, <2>2, <2>3 DEF Past
<1>10. \/ Start(p) \/ ReadKey(p) \/ Crash(p) \/ AskPassword(p)
       \/ AddCheck(p) \/ AddOpen(p) \/ AddWrite(p) \/ Report(p)
  BY <1>1 DEF Step, AddStep
<1> QED
  BY <1>3, <1>4, <1>5, <1>6, <1>7, <1>8, <1>9, <1>10

\* Adders that overlap pass the capacity by at most what every process but one adds
\* once: each of them counted the entries before it opened the file.
THEOREM AddersOvershoot ==
  ASSUME Commands = {"add"}
  PROVE  Spec => []LimitOvershoot
<1> USE UsersFileAssumption
<1>1. CASE Wide = {}
  <2>1. Init => Counted
    <3> SUFFICES ASSUME Init PROVE Counted
      OBVIOUS
    <3>1. Past = {} /\ UsersLines = <<>>
      BY DEF Init, Past, UsersLines
    <3>2. Cardinality(Past) = 0 /\ Cardinality(Procs) \in Nat
      BY <3>1, FS_EmptySet, PastCard
    <3> QED
      BY <3>1, <3>2 DEF Counted
  <2>2. ASSUME TypeInv, TypeInv', Counted, [Next]_vars PROVE Counted'
    <3>1. CASE UNCHANGED vars
      BY <2>2, <3>1 DEF vars, Counted, UsersLines, Past
    <3>2. ASSUME NEW p \in Procs, Start(p) \/ Step(p) \/ Crash(p) PROVE Counted'
      <4>1. /\ Cardinality(Past) \in Nat /\ Cardinality(Past') \in Nat
            /\ Cardinality(Procs) \in Nat /\ Cardinality(Past') <= Cardinality(Procs)
            /\ IsFiniteSet(Past)
        <5>1. Past \subseteq Procs /\ Past' \subseteq Procs
          BY DEF Past
        <5> QED
          BY <5>1, PastCard, FS_CardinalityType
      <4>2. Len(UsersLines) \in Nat /\ Len(UsersLines') \in Nat
        BY <2>2, UsersLinesType
      <4>3. CASE UsersLines' = UsersLines /\ Past' \subseteq Past
        <5>1. Cardinality(Past') <= Cardinality(Past)
          BY <4>1, <4>3, FS_Subset
        <5> QED
          BY <2>2, <4>1, <4>2, <4>3, <5>1 DEF Counted
      <4>4. CASE Len(UsersLines) < NUMBER_OF_USERS /\ UsersLines' = UsersLines
        BY <4>1, <4>2, <4>4 DEF Counted
      <4>5. CASE /\ p \in Past /\ Past' = Past \ {p}
                 /\ Len(UsersLines') <= Len(UsersLines) + 1
        <5>1. Cardinality(Past') = Cardinality(Past) - 1
          BY <4>1, <4>5, FS_RemoveElement
        <5> QED
          BY <2>2, <4>1, <4>2, <4>5, <5>1 DEF Counted
      <4> QED
        BY <1>1, <2>2, <3>2, <4>3, <4>4, <4>5, AdderStep
    <3> QED
      BY <2>2, <3>1, <3>2 DEF Next
  <2>3. TypeInv /\ Counted => LimitOvershoot
    <3> SUFFICES ASSUME TypeInv, Counted PROVE LimitOvershoot
      OBVIOUS
    <3>1. Cardinality(Past) \in Nat /\ Cardinality(Procs) \in Nat
      BY PastCard DEF Past
    <3> QED
      BY <3>1, UsersLinesType DEF Counted, LimitOvershoot
  <2> QED
    BY <2>1, <2>2, <2>3, TypeInit, TypeStep, PTL DEF Spec
<1>2. CASE Wide # {}
  <2>1. LimitOvershoot
    BY <1>2 DEF LimitOvershoot
  <2> QED
    BY <2>1, PTL
<1> QED
  BY <1>1, <1>2

-----------------------------------------------------------------------------
(* What the passwords are encrypted with. *)

KeyedPiece == {x \in Piece : x.cred.key = masterKey}

KeyedCredentials == {c \in Credentials : c.key = masterKey}

\* Every line of every file, the buffered ones included, was made with the key that
\* get_master_key returns now, and so will be those of the commands that run.
Keyed ==
  /\ \A i \in Inodes : lines[i] \in Seq(KeyedPiece)
  /\ \A p \in Procs : job[p].out \in Seq(KeyedPiece) /\ job[p].key \in {NoKey, masterKey}

\* In the beginning there is no line.
LEMMA KeyedInit == Init => Keyed
<1> SUFFICES ASSUME Init PROVE Keyed
  OBVIOUS
<1>1. \A i \in Inodes : lines[i] \in Seq(KeyedPiece)
  BY EmptySeq DEF Init
<1>2. \A p \in Procs : job[p].out = <<>> /\ job[p].key = NoKey
  BY DEF Init
<1> QED
  BY <1>1, <1>2, EmptySeq DEF Keyed

\* add, edit and del write lines made with the key of the command, and otherwise
\* only lines that were there.
LEMMA KeyedEdits ==
  ASSUME NEW u \in Names, NEW s \in Seq(KeyedPiece)
  PROVE  /\ \A c \in KeyedCredentials : Entry(u, c) \in Seq(KeyedPiece)
         /\ \A cs \in [DOMAIN s -> KeyedCredentials] : Edited(s, u, cs) \in Seq(KeyedPiece)
         /\ Removed(s, u) \in Seq(KeyedPiece)
<1>1. s \in Seq(Piece) /\ KeyedPiece \subseteq Piece
  BY DEF KeyedPiece
<1>2. ASSUME NEW c \in KeyedCredentials
      PROVE  Entry(u, c) \in Seq(KeyedPiece)
  <2> DEFINE P(k) == [kind |-> k, user |-> u, cred |-> c]
  <2>1. P("head") \in KeyedPiece /\ P("tail") \in KeyedPiece /\ P("whole") \in KeyedPiece
    BY <1>2 DEF KeyedPiece, KeyedCredentials, Piece
  <2> HIDE DEF P
  <2>2. <<P("head"), P("tail")>> \in Seq(KeyedPiece) /\ <<P("whole")>> \in Seq(KeyedPiece)
    BY <2>1
  <2> QED
    BY <2>2 DEF Entry, P
<1>3. ASSUME NEW x \in KeyedPiece PROVE <<x>> \in Seq(KeyedPiece)
  BY <1>3
<1>4. \A cs \in [DOMAIN s -> KeyedCredentials] : Edited(s, u, cs) \in Seq(KeyedPiece)
  <2>1. KeyedCredentials \subseteq Credentials
    BY DEF KeyedCredentials
  <2> QED
    BY <1>1, <1>2, <1>3, <2>1, EditedInto
<1>5. Removed(s, u) \in Seq(KeyedPiece)
  <2> DEFINE F == RemovedPiece(u)
  <2>1. ASSUME NEW x \in KeyedPiece PROVE F[x] \in Seq(KeyedPiece)
    BY <1>1, <1>3, EmptySeq DEF RemovedPiece
  <2>2. F \in [Piece -> Seq(Piece)]
    BY PieceMaps
  <2>3. Removed(s, u) = FlatMap(F, s)
    BY <1>1, AsFlatMap, Zenon
  <2> HIDE DEF F
  <2>4. FlatMap(F, s) \in Seq(KeyedPiece)
    BY <1>1, <2>1, <2>2, FlatMapInto
  <2> QED
    BY <2>3, <2>4
<1> QED
  BY <1>2, <1>4, <1>5

\* The key, the output and the files, whatever step a command takes.
LEMMA KeyedStep ==
  ASSUME TypeInv, Keyed, NEW p \in Procs, Start(p) \/ Step(p) \/ Crash(p)
  PROVE  Keyed'
<1> USE UsersFileAssumption
<1>0. /\ job \in [Procs -> Job] /\ lines \in [Inodes -> Seq(Piece)]
      /\ job[p] \in Job /\ Sound(job[p])
      /\ job[p].out \in Seq(KeyedPiece) /\ job[p].key \in {NoKey, masterKey}
  BY DEF TypeInv, TypeOK, Keyed
<1>1. masterKey' = masterKey
  BY DEF Step, AddStep, ReplaceStep, Start, Crash, ReadKey, AskPassword, AddCheck,
     AddOpen, AddWrite, OpenUsers, OpenTmp, ReadUsers, EditLines, Flush, Rename, Report,
     AbortFlush, AbortRemove
<1>2. KeyedPiece' = KeyedPiece
  BY <1>1 DEF KeyedPiece
<1>3. \A i \in Inodes : lines'[i] \in Seq(KeyedPiece)
  <2>1. CASE UNCHANGED lines
    BY <2>1 DEF Keyed
  <2>2. CASE \E i \in Inodes : lines' = [lines EXCEPT ![i] = <<>>]
    BY <1>0, <2>2, EmptySeq DEF Keyed
  <2>3. CASE AddWrite(p)
    <3>1. job[p].fd \in Inodes /\ job[p].user \in Names /\ Cred(p) \in KeyedCredentials
      <4>1. job[p].key = masterKey
        BY <1>0, <2>3 DEF AddWrite, Sound
      <4> QED
        BY <1>0, <2>3, <4>1 DEF AddWrite, Sound, Cred, Credentials, KeyedCredentials
    <3>2. lines[job[p].fd] \in Seq(KeyedPiece)
      BY <3>1 DEF Keyed
    <3>3. Entry(job[p].user, Cred(p)) \in Seq(KeyedPiece)
      BY <3>1, <3>2, KeyedEdits, Zenon
    <3>4. lines[job[p].fd] \o Entry(job[p].user, Cred(p)) \in Seq(KeyedPiece)
      BY <3>2, <3>3, ConcatProperties
    <3>5. lines' = [lines EXCEPT ![job[p].fd] = @ \o Entry(job[p].user, Cred(p))]
      BY <2>3 DEF AddWrite
    <3> QED
      BY <1>0, <3>4, <3>5 DEF Keyed
  <2>4. CASE Flush(p) \/ AbortFlush(p)
    <3>1. job[p].tfd \in Inodes
      BY <1>0, <2>4 DEF Flush, AbortFlush, Sound
    <3>2. Overlay(lines[job[p].tfd], job[p].out) \in Seq(KeyedPiece)
      BY <3>1, OverlayType DEF Keyed
    <3>3. lines' = [lines EXCEPT ![job[p].tfd] = Overlay(@, job[p].out)]
      BY <2>4 DEF Flush, AbortFlush
    <3> QED
      BY <1>0, <3>2, <3>3 DEF Keyed
  <2> QED
    BY <2>1, <2>2, <2>3, <2>4 DEF Step, AddStep, ReplaceStep, Start, Crash, ReadKey,
       AskPassword, AddCheck, AddOpen, OpenUsers, OpenTmp, ReadUsers, EditLines, Rename,
       Report, AbortRemove
<1>4. \A q \in Procs : job'[q].out \in Seq(KeyedPiece) /\ job'[q].key \in {NoKey, masterKey}
  <2>1. \A q \in Procs \ {p} : job'[q] = job[q]
    BY <1>0, StartJob, AddJob, ReplaceJob DEF Step, JobChange
  <2> DEFINE Good(j) == j.out \in Seq(KeyedPiece) /\ j.key \in {NoKey, masterKey}
  <2>2. Good(job'[p])
    <3>1. CASE job'[p].out = job[p].out /\ job'[p].key \in {job[p].key, masterKey}
      BY <1>0, <3>1
    <3>2. ASSUME NEW pc, End(p, pc) PROVE Good(job'[p])
      <4>1. job'[p].out = <<>> /\ job'[p].key = NoKey
        BY <1>0, <3>2
      <4> QED
        BY <4>1, EmptySeq
    <3>3. ASSUME NEW pc, Goto(p, pc) PROVE Good(job'[p])
      <4>1. job'[p].out = job[p].out /\ job'[p].key = job[p].key
        BY <1>0, <3>3 DEF Job
      <4> QED
        BY <3>1, <4>1
    <3>4. CASE Start(p)
      <4>1. job'[p].out = <<>> /\ job'[p].key = NoKey
        BY <1>0, <3>4 DEF Start
      <4> QED
        BY <4>1, EmptySeq
    <3>5. CASE ReadKey(p)
      <4>1. CASE masterKey # NoKey
        <5>1. job'[p].out = job[p].out /\ job'[p].key = masterKey
          BY <1>0, <3>5, <4>1 DEF ReadKey, Job
        <5> QED
          BY <3>1, <5>1
      <4> QED
        BY <3>2, <3>5, <4>1 DEF ReadKey
    <3>6. CASE AskPassword(p)
      <4>1. ASSUME NEW s \in Sources, job' = [job EXCEPT ![p].src = s]
            PROVE  Good(job'[p])
        <5>1. job'[p].out = job[p].out /\ job'[p].key = job[p].key
          BY <1>0, <4>1 DEF Job
        <5> QED
          BY <3>1, <5>1
      <4> QED
        BY <3>3, <3>6, <4>1 DEF AskPassword
    <3>7. CASE AddStep(p)
      <4>1. ASSUME NEW i \in Inodes, job' = [job EXCEPT ![p].fd = i, ![p].pc = "password"]
            PROVE  Good(job'[p])
        <5>1. job'[p].out = job[p].out /\ job'[p].key = job[p].key
          BY <1>0, <4>1 DEF Job
        <5> QED
          BY <3>1, <5>1
      <4>2. CASE AddWrite(p)
        <5>1. job'[p].out = job[p].out /\ job'[p].key = job[p].key
          BY <1>0, <4>2 DEF AddWrite, Job
        <5> QED
          BY <3>1, <5>1
      <4> HIDE DEF Good
      <4> QED
        BY <3>2, <3>3, <3>7, <4>1, <4>2 DEF AddStep, AddCheck, AddOpen
    <3>8. CASE OpenUsers(p) \/ OpenTmp(p)
      <4>1. \A i : /\ job' = [job EXCEPT ![p].fd = i, ![p].pc = "tmp"] =>
                       job'[p].out = job[p].out /\ job'[p].key = job[p].key
                   /\ job' = [job EXCEPT ![p].tfd = i, ![p].pc = "read"] =>
                       job'[p].out = job[p].out /\ job'[p].key = job[p].key
        BY <1>0 DEF Job
      <4>2. CASE job'[p].out = job[p].out /\ job'[p].key = job[p].key
        BY <3>1, <4>2
      <4> HIDE DEF Good
      <4> QED
        BY <3>2, <3>3, <3>8, <4>1, <4>2 DEF OpenUsers, OpenTmp
    <3>9. CASE ReadUsers(p)
      <4>1. job[p].fd \in Inodes /\ job[p].user \in Names
        BY <1>0, <3>9 DEF ReadUsers, Sound
      <4> DEFINE s == lines[job[p].fd]
                 rm == Removed(s, job[p].user)
      <4>2. s \in Seq(KeyedPiece)
        BY <4>1 DEF Keyed
      <4>3. rm \in Seq(KeyedPiece)
        BY <4>1, <4>2, KeyedEdits, Zenon
      <4>4. \/ \E pc : job' = [job EXCEPT ![p].out = rm, ![p].pc = pc]
            \/ \E pc : job' = [job EXCEPT ![p].out = s, ![p].pc = pc]
            \/ Goto(p, "abortflush")
        BY <3>9 DEF ReadUsers
      <4> HIDE DEF s, rm
      <4>5. ASSUME NEW o \in Seq(KeyedPiece), NEW pc,
                   job' = [job EXCEPT ![p].out = o, ![p].pc = pc]
            PROVE  Good(job'[p])
        <5>1. job'[p].out = o /\ job'[p].key = job[p].key
          BY <1>0, <4>5 DEF Job
        <5> QED
          BY <1>0, <5>1
      <4> HIDE DEF Good
      <4> QED
        BY <3>3, <4>2, <4>3, <4>4, <4>5
    <3>10. CASE Flush(p) \/ AbortFlush(p)
      <4>1. job'[p].out = job[p].out /\ job'[p].key = job[p].key
        BY <1>0, <3>10 DEF Flush, AbortFlush, Job
      <4> QED
        BY <3>1, <4>1
    <3>11. CASE Rename(p) \/ Report(p) \/ AbortRemove(p) \/ Crash(p)
      <4> HIDE DEF Good
      <4> QED
        BY <3>2, <3>3, <3>11 DEF Rename, Report, AbortRemove, Crash
    <3>12. CASE EditLines(p)
      <4>1. PICK cs \in [DOMAIN job[p].out -> Answers(p)] :
              job' = [job EXCEPT ![p].out = Edited(@, job[p].user, cs), ![p].pc = "flush"]
        BY <3>12 DEF EditLines
      <4>2. /\ job[p].user \in Names /\ job[p].key = masterKey
            /\ Answers(p) \subseteq KeyedCredentials
        <5>1. /\ job[p].user \in Names /\ job[p].key \in Keys
              /\ Answers(p) \subseteq Credentials
              /\ \A c \in Answers(p) : c.key = job[p].key
          BY <1>0, <3>12, AnswersType DEF EditLines, Sound
        <5> QED
          BY <1>0, <5>1 DEF KeyedCredentials
      <4>3. cs \in [DOMAIN job[p].out -> KeyedCredentials]
        BY <4>1, <4>2
      <4> DEFINE o == Edited(job[p].out, job[p].user, cs)
      <4>4. o \in Seq(KeyedPiece)
        BY <1>0, <4>2, <4>3, KeyedEdits
      <4>5. job'[p].out = o /\ job'[p].key = job[p].key
        <5>1. job' = [job EXCEPT ![p] = [job[p] EXCEPT !.out = o, !.pc = "flush"]]
          BY <1>0, <4>1
        <5> HIDE DEF o
        <5> QED
          BY <1>0, <5>1 DEF Job
      <4> HIDE DEF o
      <4> QED
        BY <4>2, <4>4, <4>5
    <3> QED
      BY <3>4, <3>5, <3>6, <3>7, <3>8, <3>9, <3>10, <3>11, <3>12 DEF Step, ReplaceStep
  <2> QED
    BY <1>0, <2>1, <2>2 DEF Keyed
<1> QED
  BY <1>1, <1>2, <1>3, <1>4 DEF Keyed

-----------------------------------------------------------------------------
(***************************************************************************)
(* From here on the operator runs one command at a time, each of which can *)
(* be killed between any two of its steps.                                 *)
(***************************************************************************)

USE DEF At, Goto, End, Running, Ended, NoJob, NewJob

-----------------------------------------------------------------------------
(* The command that runs works on files of its own: the file it read is    *)
(* still the users file, and the temporary file that it truncated still    *)
(* has the temporary name.  What it will install is what edit or del is to *)
(* make of the users file as it is now.                                    *)

AtMostOne == \A p, q \in Procs : Running(p) /\ Running(q) => p = q

Adds(p) ==
  \/ job[p].pc = "append"
  \/ job[p].pc \in {"password", "write"} /\ job[p].cmd = "add"

WritesTmp(p) ==
  \/ job[p].pc \in {"read", "flush", "abortflush"}
  \/ job[p].pc = "password" /\ job[p].cmd # "add"

Results(p) ==
  IF job[p].cmd = "edit"
  THEN {Edited(UsersLines, job[p].user, cs) : cs \in [DOMAIN UsersLines -> Answers(p)]}
  ELSE {Removed(UsersLines, job[p].user)}

HasRoom(p) ==
  /\ Len(UsersLines) < NUMBER_OF_USERS
  /\ job[p].named => ~Has(UsersLines, job[p].user)

Owns(p) ==
  /\ Running(p) => job[p].named \in Prompts
  /\ Adds(p) => HasRoom(p)
  /\ Adds(p) /\ job[p].pc # "append" => job[p].fd = dir.users
  /\ job[p].pc \in {"tmp", "read"} => job[p].fd = dir.users
  /\ WritesTmp(p) => job[p].tfd = dir.tmp /\ lines[dir.tmp] = <<>>
  /\ job[p].pc = "password" /\ job[p].cmd # "add" =>
       Has(UsersLines, job[p].user) /\ job[p].out = UsersLines
  /\ job[p].pc = "flush" => Has(UsersLines, job[p].user) /\ job[p].out \in Results(p)
  /\ job[p].pc = "rename" =>
       /\ dir.tmp # NoInode /\ lines[dir.tmp] \in Results(p)
       /\ Has(UsersLines, job[p].user)

SerialInv == TypeInv /\ Apart /\ AtMostOne /\ \A p \in Procs : Owns(p)

\* The types of what a step reads and writes.
LEMMA SerialTypes ==
  ASSUME SerialInv
  PROVE  /\ job \in [Procs -> Job] /\ lines \in [Inodes -> Seq(Piece)]
         /\ dir \in [users : Inodes \union {NoInode}, tmp : Inodes \union {NoInode}]
         /\ dir.users # NoInode => dir.users # dir.tmp
         /\ \A p \in Procs : job[p] \in Job /\ Sound(job[p]) /\ Owns(p)
<1>1. /\ job \in [Procs -> Job] /\ lines \in [Inodes -> Seq(Piece)]
      /\ dir \in [users : Inodes \union {NoInode}, tmp : Inodes \union {NoInode}]
  BY DEF SerialInv, TypeInv, TypeOK
<1>2. dir.users # NoInode => dir.users # dir.tmp
  BY DEF SerialInv, Apart, NamesApart
<1>3. \A p \in Procs : job[p] \in Job /\ Sound(job[p]) /\ Owns(p)
  BY <1>1 DEF SerialInv, TypeInv
<1> QED
  BY <1>1, <1>2, <1>3

\* A process that takes a step is the only one that runs, before and after it.
LEMMA Alone ==
  ASSUME Serial, SerialInv, NEW p \in Procs, Start(p) \/ Step(p) \/ Crash(p)
  PROVE  \A q \in Procs \ {p} : ~Running(q) /\ job'[q] = job[q]
<1>1. \A q \in Procs \ {p} : ~Running(q)
  <2>1. CASE Start(p)
    BY <2>1 DEF Start
  <2>2. CASE Step(p) \/ Crash(p)
    <3>1. Running(p)
      BY <2>2 DEF Step, Crash, ReadKey, AskPassword, AddStep, AddCheck, AddOpen, AddWrite,
         ReplaceStep, OpenUsers, OpenTmp, ReadUsers, EditLines, Flush, Rename, Report,
         AbortFlush, AbortRemove
    <3> QED
      BY <3>1 DEF SerialInv, AtMostOne
  <2> QED
    BY <2>1, <2>2
<1>2. JobChange(p)
  BY StartJob, AddJob, ReplaceJob DEF Step, SerialInv
<1>3. \A q \in Procs \ {p} : job'[q] = job[q]
  BY <1>2, SerialTypes DEF JobChange
<1> QED
  BY <1>1, <1>3

\* Only the last step of an add and the rename of an edit or del change what the
\* users file holds.
LEMMA SameLines ==
  ASSUME SerialInv, NEW p \in Procs, Start(p) \/ Step(p) \/ Crash(p),
         UsersLines' # UsersLines
  PROVE  AddWrite(p) \/ Rename(p)
<1> USE UsersFileAssumption, SerialTypes
<1>1. ASSUME UNCHANGED <<dir, lines>> PROVE FALSE
  BY <1>1 DEF UsersLines
<1>2. CASE AddOpen(p)
  <2>1. CASE dir.users = NoInode
    <3>1. PICK i \in Inodes : dir' = [dir EXCEPT !.users = i] /\ lines' = [lines EXCEPT ![i] = <<>>]
      BY <1>2, <2>1 DEF AddOpen
    <3>2. dir'.users = i /\ lines'[i] = <<>> /\ i # NoInode
      BY <3>1
    <3> QED
      BY <2>1, <3>2 DEF UsersLines
  <2> QED
    BY <1>1, <1>2, <2>1 DEF AddOpen
<1>3. CASE OpenTmp(p)
  <2>1. PICK i \in Inodes : /\ i # dir.users /\ dir'.users = dir.users
                            /\ lines' = [lines EXCEPT ![i] = <<>>]
    BY <1>3 DEF OpenTmp, Fresh, Free
  <2> QED
    BY <2>1 DEF UsersLines
<1>4. CASE Flush(p) \/ AbortFlush(p)
  BY <1>4 DEF Flush, AbortFlush, UsersLines, Owns, WritesTmp
<1>5. CASE AbortRemove(p)
  BY <1>5 DEF AbortRemove, UsersLines
<1> QED
  BY <1>1, <1>2, <1>3, <1>4, <1>5
  DEF Step, AddStep, ReplaceStep, Start, Crash, ReadKey, AskPassword, AddCheck, OpenUsers,
      ReadUsers, EditLines, Report

\* What the overlay leaves of a file that was empty is what was written.
LEMMA OverlayEmpty ==
  ASSUME NEW S, NEW new \in Seq(S)
  PROVE  Overlay(<<>>, new) = new
<1>1. SubSeq(<<>>, Len(new) + 1, Len(<<>>)) = <<>>
  OBVIOUS
<1>2. new \o <<>> = new
  OBVIOUS
<1> QED
  BY <1>1, <1>2 DEF Overlay

\* A command that has ended holds nothing.
LEMMA EndsAs ==
  ASSUME NEW p \in Procs, NEW pc, job \in [Procs -> Job], End(p, pc)
  PROVE  job'[p].pc = pc
<1>1. job' = [job EXCEPT ![p] = NoJob(pc)]
  BY Zenon DEF End
<1>2. job'[p] = NoJob(pc)
  BY <1>1
<1> QED
  BY <1>2 DEF NoJob, NewJob

\* A command that adds keeps to the users file and the room it found in it.
LEMMA AddOwns ==
  ASSUME SerialInv, NEW p \in Procs,
         \/ Start(p) \/ ReadKey(p) \/ AddStep(p) \/ AskPassword(p) \/ Report(p)
         \/ Crash(p)
  PROVE  Owns(p)'
<1> USE UsersFileAssumption
<1> DEFINE j == job[p]
<1>1. /\ j \in Job /\ Sound(j) /\ Owns(p) /\ job \in [Procs -> Job]
      /\ lines \in [Inodes -> Seq(Piece)]
  BY SerialTypes
<1>2. ASSUME job'[p].pc \in Ended PROVE Owns(p)'
  BY <1>2 DEF Owns, Adds, WritesTmp
<1>3. CASE Start(p)
  <2>1. job'[p].pc \in {"key", "source"} /\ job'[p].named \in Prompts
    BY <1>1, <1>3 DEF Start
  <2> QED
    BY <2>1 DEF Owns, Adds, WritesTmp
<1>4. CASE Crash(p) \/ Report(p)
  <2>1. \/ End(p, "killed") \/ End(p, "success") \/ End(p, "failure")
        \/ Report(p) /\ Goto(p, "abortremove")
    BY <1>4 DEF Crash, Report
  <2>2. \/ job'[p].pc \in Ended
        \/ job'[p].pc = "abortremove" /\ job'[p].named = j.named /\ Running(p)
    <3>1. CASE Report(p) /\ Goto(p, "abortremove")
      BY <1>1, <3>1 DEF Report, Job
    <3> QED
      BY <1>1, <2>1, <3>1, EndsAs
  <2> QED
    BY <1>1, <1>2, <2>2 DEF Owns, Adds, WritesTmp
<1>9. CASE AddWrite(p)
  <2>1. /\ job'[p].pc = "report" /\ job'[p].named = j.named /\ job'[p].cmd = j.cmd
        /\ Running(p)
    <3>1. job'[p] = [j EXCEPT !.fd = NoInode, !.pc = "report"] /\ j.pc = "write"
      BY <1>1, <1>9 DEF AddWrite
    <3> QED
      BY <1>1, <3>1 DEF Job
  <2> QED
    BY <1>1, <2>1 DEF Owns, Adds, WritesTmp
<1>5. CASE ReadKey(p)
  <2>1. \/ job'[p].pc \in Ended
        \/ job'[p].pc \in {"check", "source"} /\ job'[p].named = j.named /\ Running(p)
    <3>1. CASE End(p, "failure")
      BY <1>1, <3>1, EndsAs
    <3>2. CASE ~End(p, "failure")
      <4>1. job'[p] = [j EXCEPT !.key = masterKey,
                                !.pc = IF j.cmd = "add" THEN "check" ELSE "source"]
        BY <1>1, <1>5, <3>2 DEF ReadKey
      <4> QED
        BY <1>1, <1>5, <4>1 DEF ReadKey, Job
    <3> QED
      BY <3>1, <3>2
  <2> QED
    BY <1>1, <1>2, <2>1 DEF Owns, Adds, WritesTmp
<1>6. CASE AddCheck(p)
  <2>1. CASE End(p, "failure")
    BY <1>1, <1>2, <2>1
  <2>2. CASE Goto(p, "append") /\ ~End(p, "failure")
    <3>1. job'[p] = [j EXCEPT !.pc = "append"] /\ UsersLines' = UsersLines
      BY <1>1, <1>6, <2>2 DEF AddCheck, UsersLines
    <3>2. HasRoom(p)
      <4>1. /\ ~(j.named /\ Has(UsersLines, j.user))
            /\ ~(dir.users # NoInode /\ Len(UsersLines) >= NUMBER_OF_USERS)
        BY <1>6, <2>2 DEF AddCheck
      <4>2. Len(UsersLines) \in Nat
        BY UsersLinesType DEF SerialInv
      <4>3. dir.users = NoInode => Len(UsersLines) = 0
        BY DEF UsersLines
      <4> QED
        BY <4>1, <4>2, <4>3 DEF HasRoom
    <3>3. HasRoom(p)'
      BY <1>1, <3>1, <3>2 DEF HasRoom, Job
    <3>4. Running(p) /\ job'[p].pc = "append" /\ job'[p].named = j.named
      BY <1>1, <1>6, <3>1 DEF AddCheck, Job
    <3> QED
      BY <1>1, <3>3, <3>4 DEF Owns, Adds, WritesTmp
  <2> QED
    BY <1>6, <2>1, <2>2 DEF AddCheck
<1>7. CASE AddOpen(p)
  <2>1. CASE End(p, "failure")
    BY <1>1, <1>2, <2>1
  <2>2. CASE ~End(p, "failure")
    <3>1. PICK i \in Inodes : /\ i = dir'.users
                              /\ job'[p] = [j EXCEPT !.fd = i, !.pc = "password"]
      BY <1>1, <1>7, <2>2, SerialTypes DEF AddOpen
    <3>2. UsersLines' = UsersLines
      <4>1. ~AddWrite(p) /\ ~Rename(p)
        BY <1>7 DEF AddOpen, AddWrite, Rename
      <4> QED
        BY <1>7, <4>1, SameLines DEF Step, AddStep
    <3>3. j.pc = "append" /\ j.cmd = "add" /\ HasRoom(p)
      BY <1>1, <1>7 DEF AddOpen, Sound, Owns, Adds
    <3>4. /\ job'[p].pc = "password" /\ job'[p].cmd = "add" /\ job'[p].named = j.named
          /\ job'[p].fd = i /\ job'[p].user = j.user
      BY <1>1, <3>1, <3>3 DEF Job
    <3>5. HasRoom(p)'
      BY <3>2, <3>3, <3>4 DEF HasRoom
    <3> QED
      BY <1>1, <3>1, <3>3, <3>4, <3>5 DEF Owns, Adds, WritesTmp
  <2> QED
    BY <2>1, <2>2
<1>8. CASE AskPassword(p)
  <2>1. /\ j.pc = "password"
        /\ \/ job'[p] = [j EXCEPT !.pc = "write"] /\ j.cmd = "add"
           \/ \E s \in Sources : job'[p] = [j EXCEPT !.src = s]
        /\ UNCHANGED <<dir, lines>>
    BY <1>1, <1>8 DEF AskPassword
  <2>2. \/ job'[p].pc = "write" /\ j.cmd = "add"
        \/ job'[p].pc = "password"
    BY <1>1, <2>1, ZenonT(30) DEF Job
  <2>3. /\ job'[p].cmd = j.cmd /\ job'[p].user = j.user /\ job'[p].named = j.named
        /\ job'[p].fd = j.fd /\ job'[p].tfd = j.tfd /\ job'[p].out = j.out
        /\ job'[p].pw = j.pw /\ job'[p].key = j.key
    <3>1. CASE job'[p] = [j EXCEPT !.pc = "write"]
      BY <1>1, <3>1 DEF Job
    <3>2. ASSUME NEW s \in Sources, job'[p] = [j EXCEPT !.src = s]
          PROVE  /\ job'[p].cmd = j.cmd /\ job'[p].user = j.user
                 /\ job'[p].named = j.named /\ job'[p].fd = j.fd
                 /\ job'[p].tfd = j.tfd /\ job'[p].out = j.out
                 /\ job'[p].pw = j.pw /\ job'[p].key = j.key
      BY <1>1, <3>2 DEF Job
    <3> QED
      BY <2>1, <3>1, <3>2
  <2>4. UsersLines' = UsersLines
    BY <2>1 DEF UsersLines
  <2>5. HasRoom(p)' = HasRoom(p)
    BY <2>3, <2>4 DEF HasRoom
  <2> QED
    BY <1>1, <2>1, <2>2, <2>3, <2>4, <2>5 DEF Owns, Adds, WritesTmp
<1> QED
  BY <1>3, <1>4, <1>5, <1>6, <1>7, <1>8, <1>9 DEF AddStep

\* A command that edits or deletes keeps to the file it read and to its temporary file.
LEMMA ReplaceOwns ==
  ASSUME SerialInv, NEW p \in Procs, ReplaceStep(p)
  PROVE  Owns(p)'
<1> USE UsersFileAssumption
<1> DEFINE j == job[p]
<1>1. /\ j \in Job /\ Sound(j) /\ Owns(p) /\ job \in [Procs -> Job]
      /\ lines \in [Inodes -> Seq(Piece)]
      /\ dir \in [users : Inodes \union {NoInode}, tmp : Inodes \union {NoInode}]
      /\ dir.users # NoInode => dir.users # dir.tmp
  BY SerialTypes
<1>2. ASSUME job'[p].pc \in Ended PROVE Owns(p)'
  BY <1>2 DEF Owns, Adds, WritesTmp
<1>3. ASSUME job'[p].pc = "abortremove", job'[p].named = j.named, Running(p)
      PROVE  Owns(p)'
  BY <1>1, <1>3 DEF Owns, Adds, WritesTmp
<1>4. CASE OpenUsers(p)
  <2>1. \/ job'[p].pc \in Ended
        \/ job'[p] = [j EXCEPT !.pc = "abortremove"]
        \/ job'[p] = [j EXCEPT !.fd = dir.users, !.pc = "tmp"] /\ dir' = dir
    BY <1>1, <1>4, EndsAs DEF OpenUsers
  <2>2. \/ job'[p].pc \in Ended
        \/ job'[p].pc = "abortremove" /\ job'[p].named = j.named /\ Running(p)
        \/ /\ job'[p].fd = dir.users /\ job'[p].pc = "tmp" /\ job'[p].named = j.named
           /\ dir' = dir /\ Running(p)
    BY <1>1, <1>4, <2>1 DEF Job, OpenUsers
  <2> QED
    BY <1>1, <1>2, <1>3, <2>2 DEF Owns, Adds, WritesTmp
<1>5. CASE OpenTmp(p)
  <2>1. PICK i \in Inodes : /\ i = dir'.tmp /\ dir'.users = dir.users
                            /\ lines' = [lines EXCEPT ![i] = <<>>]
                            /\ job'[p] = [j EXCEPT !.tfd = i, !.pc = "read"]
    BY <1>1, <1>5, ZenonT(30) DEF OpenTmp
  <2>2. /\ job'[p].pc = "read" /\ job'[p].tfd = i /\ job'[p].fd = j.fd
        /\ job'[p].named = j.named /\ lines'[i] = <<>> /\ j.pc = "tmp"
    BY <1>1, <1>5, <2>1 DEF Job, OpenTmp
  <2> QED
    BY <1>1, <2>1, <2>2 DEF Owns, Adds, WritesTmp
<1>6. CASE ReadUsers(p)
  <2>1. j.pc = "read" /\ dir' = dir /\ lines' = lines /\ j.cmd \in {"edit", "del"}
    BY <1>1, <1>6 DEF ReadUsers, Sound
  <2>2. lines[j.fd] = UsersLines /\ UsersLines' = UsersLines
    BY <1>1, <2>1 DEF Sound, Owns, UsersLines
  <2>3. \/ /\ Has(UsersLines, j.user) /\ j.cmd = "edit"
           /\ job'[p] = [j EXCEPT !.out = UsersLines, !.pc = "password"]
        \/ /\ Has(UsersLines, j.user) /\ j.cmd = "del"
           /\ job'[p] = [j EXCEPT !.out = Removed(UsersLines, j.user), !.pc = "flush"]
        \/ job'[p] = [j EXCEPT !.out = UsersLines, !.pc = "abortflush"]
        \/ job'[p] = [j EXCEPT !.pc = "abortflush"]
    BY <1>1, <1>6, <2>2 DEF ReadUsers
  <2>4. \/ /\ Has(UsersLines, j.user) /\ j.cmd = "edit"
           /\ job'[p].out = UsersLines /\ job'[p].pc = "password"
        \/ /\ Has(UsersLines, j.user) /\ j.cmd = "del"
           /\ job'[p].out = Removed(UsersLines, j.user) /\ job'[p].pc = "flush"
        \/ job'[p].pc = "abortflush"
    <3>1. CASE /\ Has(UsersLines, j.user) /\ j.cmd = "edit"
               /\ job'[p] = [j EXCEPT !.out = UsersLines, !.pc = "password"]
      BY <1>1, <3>1, Zenon DEF Job
    <3>2. CASE /\ Has(UsersLines, j.user) /\ j.cmd = "del"
               /\ job'[p] = [j EXCEPT !.out = Removed(UsersLines, j.user), !.pc = "flush"]
      BY <1>1, <3>2, Zenon DEF Job
    <3>3. CASE \/ job'[p] = [j EXCEPT !.out = UsersLines, !.pc = "abortflush"]
               \/ job'[p] = [j EXCEPT !.pc = "abortflush"]
      BY <1>1, <3>3, ZenonT(30) DEF Job
    <3> QED
      BY <2>3, <3>1, <3>2, <3>3
  <2>5. /\ job'[p].named = j.named /\ job'[p].user = j.user /\ job'[p].cmd = j.cmd
        /\ job'[p].tfd = j.tfd /\ job'[p].pw = j.pw /\ job'[p].key = j.key
    <3> DEFINE Same == /\ job'[p].named = j.named /\ job'[p].user = j.user
                       /\ job'[p].cmd = j.cmd /\ job'[p].tfd = j.tfd
                       /\ job'[p].pw = j.pw /\ job'[p].key = j.key
    <3>1. \A o, pc : job'[p] = [j EXCEPT !.out = o, !.pc = pc] => Same
      BY <1>1 DEF Job
    <3>2. \A pc : job'[p] = [j EXCEPT !.pc = pc] => Same
      BY <1>1 DEF Job
    <3> HIDE DEF Same
    <3>3. Same
      BY <2>3, <3>1, <3>2
    <3> QED
      BY <3>3 DEF Same
  <2>7. j.cmd = "del" => Results(p)' = {Removed(UsersLines, j.user)}
    BY <2>2, <2>5 DEF Results
  <2>8. j.tfd = dir.tmp /\ lines[dir.tmp] = <<>> /\ j.named \in Prompts
    BY <1>1, <2>1 DEF Owns, WritesTmp
  <2> QED
    BY <2>1, <2>2, <2>4, <2>5, <2>7, <2>8 DEF Owns, Adds, WritesTmp
<1>7. CASE Flush(p)
  <2>1. /\ j.pc = "flush" /\ dir' = dir
        /\ lines' = [lines EXCEPT ![j.tfd] = Overlay(@, j.out)]
    BY <1>7 DEF Flush
  <2>2. /\ j.tfd \in Inodes /\ j.tfd = dir.tmp /\ lines[dir.tmp] = <<>>
        /\ j.out \in Results(p) /\ Has(UsersLines, j.user) /\ j.out \in Seq(Piece)
        /\ j.named \in Prompts
    BY <1>1, <2>1 DEF Sound, Owns, WritesTmp, Job
  <2>3. Overlay(lines[dir.tmp], j.out) = j.out
    BY <2>2, OverlayEmpty
  <2>4. lines'[dir.tmp] = j.out
    BY <1>1, <2>1, <2>2, <2>3
  <2>5. UsersLines' = UsersLines
    BY <1>1, <2>1, <2>2 DEF UsersLines
  <2>6. job'[p] = [j EXCEPT !.tfd = NoInode, !.fd = NoInode, !.pc = "rename"]
    BY <1>1, <1>7 DEF Flush
  <2>7. /\ job'[p].pc = "rename" /\ job'[p].user = j.user /\ job'[p].cmd = j.cmd
        /\ job'[p].named = j.named /\ job'[p].pw = j.pw /\ job'[p].key = j.key
        /\ job'[p].src = j.src
    BY <1>1, <2>6 DEF Job
  <2>8. Results(p)' = Results(p)
    BY <2>5, <2>7 DEF Results, Answers, Cred
  <2> QED
    BY <2>1, <2>2, <2>4, <2>5, <2>7, <2>8 DEF Owns, Adds, WritesTmp
<1>8. CASE Rename(p)
  <2>1. PICK pc \in {"report", "abortremove"} : job'[p] = [j EXCEPT !.pc = pc]
    BY <1>1, <1>8 DEF Rename
  <2>2. job'[p].pc = pc /\ job'[p].named = j.named
    BY <1>1, <2>1 DEF Job
  <2>3. Running(p)
    BY <1>8 DEF Rename
  <2> QED
    BY <1>1, <2>1, <2>2, <2>3 DEF Owns, Adds, WritesTmp
<1>9. CASE AbortFlush(p)
  <2>1. /\ job'[p] = [j EXCEPT !.tfd = NoInode, !.fd = NoInode, !.pc = "abortremove"]
        /\ Running(p)
    BY <1>1, <1>9 DEF AbortFlush
  <2>2. job'[p].pc = "abortremove" /\ job'[p].named = j.named
    BY <1>1, <2>1 DEF Job
  <2> QED
    BY <1>3, <2>1, <2>2
<1>10. CASE AbortRemove(p)
  BY <1>1, <1>2, <1>10 DEF AbortRemove
<1>11. CASE EditLines(p)
  <2>1. /\ j.pc = "password" /\ j.cmd = "edit" /\ dir' = dir /\ lines' = lines
        /\ UsersLines' = UsersLines
    BY <1>11 DEF EditLines, UsersLines
  <2>2. /\ j.out = UsersLines /\ Has(UsersLines, j.user) /\ j.named \in Prompts
        /\ j.tfd = dir.tmp /\ lines[dir.tmp] = <<>>
    BY <1>1, <2>1 DEF Owns, WritesTmp
  <2>3. PICK cs \in [DOMAIN UsersLines -> Answers(p)] :
          job' = [job EXCEPT ![p].out = Edited(@, j.user, cs), ![p].pc = "flush"]
    BY <1>11, <2>2 DEF EditLines
  <2> DEFINE o == Edited(UsersLines, j.user, cs)
  <2>4. job'[p] = [j EXCEPT !.out = o, !.pc = "flush"]
    BY <1>1, <2>2, <2>3
  <2>5. o \in Results(p)
    BY <2>1 DEF Results
  <2> HIDE DEF o
  <2>6. /\ job'[p].pc = "flush" /\ job'[p].out = o /\ job'[p].user = j.user
        /\ job'[p].cmd = j.cmd /\ job'[p].named = j.named /\ job'[p].pw = j.pw
        /\ job'[p].key = j.key /\ job'[p].src = j.src /\ job'[p].tfd = j.tfd
    BY <1>1, <2>4 DEF Job
  <2>7. Results(p)' = Results(p)
    BY <2>1, <2>6 DEF Results, Answers, Cred
  <2> QED
    BY <2>1, <2>2, <2>5, <2>6, <2>7 DEF Owns, Adds, WritesTmp
<1> QED
  BY <1>4, <1>5, <1>6, <1>7, <1>8, <1>9, <1>10, <1>11 DEF ReplaceStep

\* One command at a time, SerialInv holds in every state.
LEMMA SerialInvCorrect ==
  ASSUME Serial
  PROVE  Spec => []SerialInv
<1>1. Init => SerialInv
  <2> SUFFICES ASSUME Init PROVE SerialInv
    OBVIOUS
  <2>1. \A p \in Procs : job[p].pc = "idle"
    BY DEF Init
  <2> QED
    BY <2>1, TypeInit, ApartInit DEF SerialInv, AtMostOne, Owns, Adds, WritesTmp
<1>2. SerialInv /\ [Next]_vars => SerialInv'
  <2> SUFFICES ASSUME SerialInv, [Next]_vars PROVE SerialInv'
    OBVIOUS
  <2>1. TypeInv' /\ Apart'
    BY TypeStep, ApartStep DEF SerialInv
  <2>2. CASE UNCHANGED vars
    <3>1. UsersLines' = UsersLines /\ job' = job /\ dir' = dir /\ lines' = lines
      BY <2>2 DEF vars, UsersLines
    <3>2. \A p \in Procs : Results(p)' = Results(p) /\ HasRoom(p)' = HasRoom(p)
      BY <3>1 DEF Results, HasRoom, Answers, Cred
    <3>3. AtMostOne' /\ \A p \in Procs : Owns(p)'
      BY <3>1, <3>2 DEF SerialInv, AtMostOne, Owns, Adds, WritesTmp
    <3> QED
      BY <2>1, <3>3 DEF SerialInv
  <2>3. ASSUME NEW p \in Procs, Start(p) \/ Step(p) \/ Crash(p) PROVE SerialInv'
    <3>1. \A q \in Procs \ {p} : ~Running(q) /\ job'[q] = job[q]
      BY <2>3, Alone
    <3>2. \A q \in Procs \ {p} : Owns(q)' /\ ~Running(q)'
      BY <3>1 DEF Owns, Adds, WritesTmp
    <3>3. Owns(p)'
      BY <2>3, AddOwns, ReplaceOwns DEF Step
    <3>4. AtMostOne'
      BY <3>2 DEF AtMostOne
    <3> QED
      BY <2>1, <3>2, <3>3, <3>4 DEF SerialInv
  <2> QED
    BY <2>2, <2>3 DEF Next
<1> QED
  BY <1>1, <1>2, PTL DEF Spec

-----------------------------------------------------------------------------
\* One command at a time: a command that fails on its way to the report, or is killed
\* there, has changed no entry of the users file, only the step that leaves nothing but
\* the report does.
THEOREM ChangesReported ==
  ASSUME Serial
  PROVE  Spec => ChangesLeaveReport
<1> DEFINE Comes(p) == job[p].pc # "report" /\ job'[p].pc = "report"
<1>1. ASSUME SerialInv, [Next]_vars
      PROVE  UsersLines' # UsersLines => \E p \in Procs : Comes(p)
  <2> SUFFICES ASSUME UsersLines' # UsersLines PROVE \E p \in Procs : Comes(p)
    OBVIOUS
  <2>1. ~UNCHANGED vars
    BY DEF vars, UsersLines
  <2>2. PICK p \in Procs : Start(p) \/ Step(p) \/ Crash(p)
    BY <1>1, <2>1 DEF Next
  <2>3. AddWrite(p) \/ Rename(p)
    BY <1>1, <2>2, SameLines
  <2>4. job \in [Procs -> Job] /\ job[p] \in Job
    BY <1>1, SerialTypes
  <2>5. CASE AddWrite(p)
    BY <2>4, <2>5 DEF AddWrite, Job
  <2>6. CASE Rename(p)
    <3>1. Goto(p, "report") /\ job[p].pc = "rename"
      BY <2>6 DEF Rename, UsersLines
    <3> QED
      BY <2>4, <3>1 DEF Job
  <2> QED
    BY <2>3, <2>5, <2>6
<1>2. SerialInv /\ [Next]_vars =>
        [UsersLines' # UsersLines => \E p \in Procs : Comes(p)]_vars
  BY <1>1
<1> QED
  BY <1>2, SerialInvCorrect, PTL DEF Spec, ChangesLeaveReport

-----------------------------------------------------------------------------
(* What the loops over the lines make of a file of any length. *)

\* A user has an entry that the reader accepts where the file has a line of the user.
LEMMA HasPassword ==
  ASSUME NEW s \in Seq(Piece), NEW u \in Names
  PROVE  Has(s, u) <=> PasswordsOf(s, u) # <<>>
<1> DEFINE F == PiecePassword(u)
           L == {t \in Seq(Piece) : Has(t, u) <=> FlatMap(F, t) # <<>>}
<1>0. F \in [Piece -> Seq(Credentials)]
  BY PieceMaps
<1>1. \A t \in Seq(Piece) : FlatMap(F, t) \in Seq(Credentials)
  BY <1>0, FlatMapType, Zenon
<1>2. <<>> \in L
  <2>1. FlatMap(F, <<>>) = <<>>
    BY <1>0, FlatMapAppend, Zenon
  <2>2. ~Has(<<>>, u) /\ <<>> \in Seq(Piece)
    BY DEF Has
  <2> QED
    BY <2>1, <2>2
<1>3. ASSUME NEW t \in Seq(Piece), NEW x \in Piece, t \in L PROVE Append(t, x) \in L
  <2>1. FlatMap(F, Append(t, x)) = FlatMap(F, t) \o F[x]
    BY <1>0, FlatMapAppend, Zenon
  <2>2. Append(t, x) \in Seq(Piece) /\ F[x] \in Seq(Credentials)
    BY <1>0
  <2>3. Has(Append(t, x), u) <=> Has(t, u) \/ NameIs(x, u)
    <3>1. /\ DOMAIN Append(t, x) = 1 .. Len(t) + 1 /\ DOMAIN t = 1 .. Len(t)
          /\ \A i \in 1 .. Len(t) : Append(t, x)[i] = t[i]
          /\ Append(t, x)[Len(t) + 1] = x /\ Len(t) \in Nat
      OBVIOUS
    <3>2. \A i : i \in 1 .. Len(t) + 1 <=> i \in 1 .. Len(t) \/ i = Len(t) + 1
      BY <3>1
    <3> QED
      BY <3>1, <3>2 DEF Has
  <2>4. NameIs(x, u) <=> F[x] # <<>>
    BY DEF PiecePassword
  <2>5. \A a, b \in Seq(Credentials) : a \o b # <<>> <=> a # <<>> \/ b # <<>>
    OBVIOUS
  <2>6. FlatMap(F, t) \o F[x] # <<>> <=> FlatMap(F, t) # <<>> \/ F[x] # <<>>
    BY <1>1, <2>2, <2>5
  <2>7. Has(t, u) <=> FlatMap(F, t) # <<>>
    BY <1>3
  <2> HIDE DEF F
  <2> QED
    BY <2>1, <2>2, <2>3, <2>4, <2>6, <2>7
<1> HIDE DEF L, F
<1>4. Seq(Piece) \subseteq L
  BY <1>2, <1>3, SeqInduction
<1>5. PasswordsOf(s, u) = FlatMap(F, s)
  BY AsFlatMap DEF F
<1> QED
  BY <1>4, <1>5 DEF L

\* Of an entry, one line long or two, the reader accepts one.
LEMMA EntryPassword ==
  ASSUME NEW u \in Names, NEW c \in Credentials, NEW v \in Names
  PROVE  FlatMap(PiecePassword(v), Entry(u, c)) = IF v = u THEN <<c>> ELSE <<>>
<1> DEFINE P(k) == [kind |-> k, user |-> u, cred |-> c]
           F == PiecePassword(v)
<1>1. P("head") \in Piece /\ P("tail") \in Piece /\ P("whole") \in Piece
  BY DEF Piece
<1>2. F \in [Piece -> Seq(Credentials)]
  BY PieceMaps
<1>3. /\ F[P("tail")] = <<>>
      /\ F[P("head")] = IF v = u THEN <<c>> ELSE <<>>
      /\ F[P("whole")] = IF v = u THEN <<c>> ELSE <<>>
  BY <1>1 DEF PiecePassword, NameIs
<1> HIDE DEF F, P
<1>4. /\ FlatMap(F, <<P("whole")>>) = F[P("whole")]
      /\ FlatMap(F, <<P("head")>>) = F[P("head")]
  BY <1>1, <1>2, FlatMapOne, Zenon
<1>5. FlatMap(F, <<P("head"), P("tail")>>) = F[P("head")]
  <2>1. <<P("head")>> \in Seq(Piece) /\ Append(<<P("head")>>, P("tail")) = <<P("head"), P("tail")>>
    BY <1>1, TwoElements
  <2>2. FlatMap(F, Append(<<P("head")>>, P("tail"))) = FlatMap(F, <<P("head")>>) \o F[P("tail")]
    BY <1>1, <1>2, <2>1, FlatMapAppend, Zenon
  <2>3. F[P("head")] \o <<>> = F[P("head")]
    BY <1>1, <1>2
  <2> QED
    BY <1>3, <1>4, <2>1, <2>2, <2>3
<1> QED
  BY <1>3, <1>4, <1>5 DEF Entry, P, F

\* The passwords of a user in two files, one after the other.
LEMMA PasswordsConcat ==
  ASSUME NEW v \in Names, NEW s \in Seq(Piece), NEW t \in Seq(Piece)
  PROVE  FlatMap(PiecePassword(v), s \o t) =
           FlatMap(PiecePassword(v), s) \o FlatMap(PiecePassword(v), t)
<1> DEFINE F == PiecePassword(v)
<1>1. F \in [Piece -> Seq(Credentials)]
  BY PieceMaps
<1> HIDE DEF F
<1>2. FlatMap(F, s \o t) = FlatMap(F, s) \o FlatMap(F, t)
  BY <1>1, FlatMapConcat
<1> QED
  BY <1>2 DEF F

\* add: the new password is the last one of the user, and nobody else's changes.
LEMMA AddPasswords ==
  ASSUME NEW u \in Names, NEW c \in Credentials, NEW v \in Names, NEW s \in Seq(Piece)
  PROVE  PasswordsOf(s \o Entry(u, c), v) =
           IF v = u THEN Append(PasswordsOf(s, v), c) ELSE PasswordsOf(s, v)
<1> DEFINE F == PiecePassword(v)
<1>1. Entry(u, c) \in Seq(Piece) /\ F \in [Piece -> Seq(Credentials)]
  BY EntryType, PieceMaps
<1>2. FlatMap(F, s \o Entry(u, c)) = FlatMap(F, s) \o FlatMap(F, Entry(u, c))
  BY <1>1, PasswordsConcat
<1>3. s \o Entry(u, c) \in Seq(Piece)
  BY <1>1
<1>4. PasswordsOf(s, v) = FlatMap(F, s) /\ PasswordsOf(s \o Entry(u, c), v) = FlatMap(F, s \o Entry(u, c))
  BY <1>3, AsFlatMap, Zenon
<1>5. FlatMap(F, Entry(u, c)) = IF v = u THEN <<c>> ELSE <<>>
  BY EntryPassword
<1>6. PasswordsOf(s, v) \in Seq(Credentials)
  BY EditType
<1> HIDE DEF F
<1>7. /\ PasswordsOf(s, v) \o <<c>> = Append(PasswordsOf(s, v), c)
      /\ PasswordsOf(s, v) \o <<>> = PasswordsOf(s, v)
  BY <1>6
<1> QED
  BY <1>2, <1>4, <1>5, <1>7

\* del: no password of the user is left, and nobody else's changes.
LEMMA DelPasswords ==
  ASSUME NEW u \in Names, NEW v \in Names, NEW s \in Seq(Piece)
  PROVE  PasswordsOf(Removed(s, u), v) = IF v = u THEN <<>> ELSE PasswordsOf(s, v)
<1> DEFINE F == PiecePassword(v)
           R == RemovedPiece(u)
           want(t) == IF v = u THEN <<>> ELSE FlatMap(F, t)
           L == {t \in Seq(Piece) : FlatMap(F, FlatMap(R, t)) = want(t)}
<1>0. F \in [Piece -> Seq(Credentials)] /\ R \in [Piece -> Seq(Piece)]
  BY PieceMaps
<1>1. \A t \in Seq(Piece) : FlatMap(R, t) \in Seq(Piece) /\ FlatMap(F, t) \in Seq(Credentials)
  <2>1. \A t \in Seq(Piece) : FlatMap(R, t) \in Seq(Piece)
    BY <1>0, FlatMapType, Zenon
  <2>2. \A t \in Seq(Piece) : FlatMap(F, t) \in Seq(Credentials)
    BY <1>0, FlatMapType, Zenon
  <2> QED
    BY <2>1, <2>2
<1>2. FlatMap(F, <<>>) = <<>> /\ FlatMap(R, <<>>) = <<>>
  BY <1>0, FlatMapAppend, Zenon
<1>3. <<>> \in L
  BY <1>2, EmptySeq
<1>4. ASSUME NEW t \in Seq(Piece), NEW x \in Piece, t \in L PROVE Append(t, x) \in L
  <2>1. /\ FlatMap(R, Append(t, x)) = FlatMap(R, t) \o R[x]
        /\ FlatMap(F, Append(t, x)) = FlatMap(F, t) \o F[x]
    BY <1>0, FlatMapAppend, ZenonT(30)
  <2>2. FlatMap(R, t) \in Seq(Piece) /\ R[x] \in Seq(Piece)
    BY <1>0, <1>1
  <2>3. FlatMap(F, FlatMap(R, t) \o R[x]) = FlatMap(F, FlatMap(R, t)) \o FlatMap(F, R[x])
    BY <2>2, PasswordsConcat
  <2>4. FlatMap(F, R[x]) = IF NameIs(x, u) THEN <<>> ELSE F[x]
    <3>1. CASE NameIs(x, u)
      <4>1. R[x] = <<>>
        BY <3>1 DEF RemovedPiece
      <4> QED
        BY <1>2, <3>1, <4>1
    <3>2. CASE ~NameIs(x, u)
      <4>1. R[x] = <<x>>
        BY <3>2 DEF RemovedPiece
      <4>2. FlatMap(F, <<x>>) = F[x]
        BY <1>0, FlatMapOne, Zenon
      <4> QED
        BY <3>2, <4>1, <4>2
    <3> QED
      BY <3>1, <3>2
  <2>5. /\ v = u /\ ~NameIs(x, u) => F[x] = <<>>
        /\ v # u /\ NameIs(x, u) => F[x] = <<>>
    BY DEF PiecePassword, NameIs
  <2>6. FlatMap(F, t) \in Seq(Credentials) /\ FlatMap(F, t) \o <<>> = FlatMap(F, t)
    BY <1>1
  <2>7. FlatMap(F, FlatMap(R, t)) = want(t)
    BY <1>4
  <2>8. <<>> \o <<>> = <<>> /\ Append(t, x) \in Seq(Piece)
    OBVIOUS
  <2> HIDE DEF F, R
  <2>9. FlatMap(F, FlatMap(R, Append(t, x))) = want(Append(t, x))
    <3>1. CASE v = u
      BY <2>1, <2>3, <2>4, <2>5, <2>7, <2>8, <3>1
    <3>2. CASE v # u
      BY <2>1, <2>3, <2>4, <2>5, <2>6, <2>7, <3>2
    <3> QED
      BY <3>1, <3>2
  <2> QED
    BY <2>8, <2>9
<1> HIDE DEF L, F, R
<1>5. Seq(Piece) \subseteq L
  BY <1>3, <1>4, SeqInduction
<1>6. Removed(s, u) = FlatMap(R, s) /\ PasswordsOf(s, v) = FlatMap(F, s)
  BY AsFlatMap, Zenon DEF F, R
<1>7. PasswordsOf(FlatMap(R, s), v) = FlatMap(F, FlatMap(R, s))
  BY <1>1, AsFlatMap, Zenon DEF F
<1> QED
  BY <1>5, <1>6, <1>7 DEF L

\* edit: the user has as many passwords as before, and nobody else's change.
LEMMA EditPasswords ==
  ASSUME NEW u \in Names, NEW v \in Names, NEW s \in Seq(Piece),
         NEW cs \in [DOMAIN s -> Credentials]
  PROVE  /\ v # u => PasswordsOf(Edited(s, u, cs), v) = PasswordsOf(s, v)
         /\ Len(PasswordsOf(Edited(s, u, cs), v)) = Len(PasswordsOf(s, v))
<1> DEFINE Given == Piece \X Credentials
           F == PiecePassword(v)
           E == EditedPair(u)
           G == [x \in Given |-> F[x[1]]]
           same(x, y) == (v # u => x = y) /\ Len(x) = Len(y)
           L == {t \in Seq(Given) : same(FlatMap(F, FlatMap(E, t)), FlatMap(G, t))}
<1>0. /\ F \in [Piece -> Seq(Credentials)] /\ E \in [Given -> Seq(Piece)]
      /\ G \in [Given -> Seq(Credentials)]
  <2>1. F \in [Piece -> Seq(Credentials)] /\ E \in [Given -> Seq(Piece)]
    BY PieceMaps
  <2>2. \A x \in Given : x[1] \in Piece
    OBVIOUS
  <2> HIDE DEF F, Given
  <2> QED
    BY <2>1, <2>2
<1>1. /\ \A t \in Seq(Given) : FlatMap(E, t) \in Seq(Piece)
      /\ \A t \in Seq(Given) : FlatMap(G, t) \in Seq(Credentials)
      /\ \A t \in Seq(Piece) : FlatMap(F, t) \in Seq(Credentials)
  <2> HIDE DEF F, E, G, Given
  <2>1. \A t \in Seq(Given) : FlatMap(E, t) \in Seq(Piece)
    BY <1>0, FlatMapType, Zenon
  <2>2. \A t \in Seq(Given) : FlatMap(G, t) \in Seq(Credentials)
    BY <1>0, FlatMapType, Zenon
  <2>3. \A t \in Seq(Piece) : FlatMap(F, t) \in Seq(Credentials)
    BY <1>0, FlatMapType, Zenon
  <2> QED
    BY <2>1, <2>2, <2>3
<1>2. /\ FlatMap(F, <<>>) = <<>> /\ FlatMap(E, <<>>) = <<>> /\ FlatMap(G, <<>>) = <<>>
      /\ \A y \in Piece : FlatMap(F, <<y>>) = F[y]
  <2> HIDE DEF F, E, G, Given
  <2>1. FlatMap(F, <<>>) = <<>> /\ FlatMap(E, <<>>) = <<>> /\ FlatMap(G, <<>>) = <<>>
    BY <1>0, FlatMapAppend, Zenon
  <2>2. ASSUME NEW y \in Piece PROVE FlatMap(F, <<y>>) = F[y]
    <3>1. F \in [Piece -> Seq(Credentials)]
      BY <1>0
    <3> QED
      BY <3>1, FlatMapOne, Zenon
  <2> QED
    BY <2>1, <2>2
<1>3. <<>> \in L
  BY <1>2, EmptySeq
<1>4. ASSUME NEW t \in Seq(Given), NEW x \in Given, t \in L PROVE Append(t, x) \in L
  <2>1. /\ FlatMap(E, Append(t, x)) = FlatMap(E, t) \o E[x]
        /\ FlatMap(G, Append(t, x)) = FlatMap(G, t) \o G[x]
    <3> HIDE DEF F, E, G, Given
    <3> QED
      BY <1>0, FlatMapAppend, ZenonT(30)
  <2>2. FlatMap(E, t) \in Seq(Piece) /\ E[x] \in Seq(Piece)
    <3> HIDE DEF F, E, G, Given
    <3> QED
      BY <1>0, <1>1
  <2>3. FlatMap(F, FlatMap(E, t) \o E[x]) = FlatMap(F, FlatMap(E, t)) \o FlatMap(F, E[x])
    <3> HIDE DEF E
    <3> QED
      BY <2>2, PasswordsConcat
  <2>4. same(FlatMap(F, E[x]), G[x])
    <3>0. /\ x[1] \in Piece /\ x[2] \in Credentials /\ G[x] = F[x[1]]
          /\ E[x] = IF NameIs(x[1], u) THEN Entry(u, x[2]) ELSE <<x[1]>>
      BY DEF EditedPair
    <3>1. CASE NameIs(x[1], u)
      <4>1. FlatMap(F, E[x]) = IF v = u THEN <<x[2]>> ELSE <<>>
        BY <3>0, <3>1, EntryPassword
      <4>2. F[x[1]] = IF v = u THEN <<x[1].cred>> ELSE <<>>
        BY <3>0, <3>1 DEF PiecePassword, NameIs
      <4> HIDE DEF F, E, G
      <4>3. Len(<<x[2]>>) = 1 /\ Len(<<x[1].cred>>) = 1
        OBVIOUS
      <4> QED
        BY <3>0, <4>1, <4>2, <4>3
    <3>2. CASE ~NameIs(x[1], u)
      <4> HIDE DEF F, E, G
      <4> QED
        BY <1>2, <3>0, <3>2
    <3> QED
      BY <3>1, <3>2
  <2> DEFINE a == FlatMap(F, FlatMap(E, t))
             b == FlatMap(G, t)
             c == FlatMap(F, E[x])
             d == G[x]
  <2>5. /\ a \in Seq(Credentials) /\ b \in Seq(Credentials)
        /\ c \in Seq(Credentials) /\ d \in Seq(Credentials)
    <3> HIDE DEF F, E, G, Given
    <3> QED
      BY <1>0, <1>1, <2>2
  <2>6. same(a, b) /\ same(c, d)
    BY <1>4, <2>4
  <2>7. same(a \o c, b \o d)
    <3> HIDE DEF a, b, c, d
    <3>1. Len(a \o c) = Len(a) + Len(c) /\ Len(b \o d) = Len(b) + Len(d)
      BY <2>5, ConcatProperties
    <3> QED
      BY <2>6, <3>1
  <2>8. Append(t, x) \in Seq(Given)
    <3> HIDE DEF Given
    <3> QED
      OBVIOUS
  <2>9. FlatMap(F, FlatMap(E, Append(t, x))) = a \o c /\ FlatMap(G, Append(t, x)) = b \o d
    <3> HIDE DEF F, E, G, Given
    <3> QED
      BY <2>1, <2>3
  <2> HIDE DEF a, b, c, d, F, E, G, Given
  <2> QED
    BY <2>7, <2>8, <2>9
<1> DEFINE t == Pairs(s, cs)
<1>5. t \in Seq(Given) /\ DOMAIN t = DOMAIN s
  <2> HIDE DEF t, Given, F, E, G, L
  <2>1. Pairs(s, cs) \in Seq(Piece \X Credentials)
    BY PairsType, Zenon
  <2>2. DOMAIN Pairs(s, cs) = DOMAIN s
    BY DEF Pairs
  <2> QED
    BY <2>1, <2>2, Zenon DEF t, Given
<1>6. FlatMap(G, t) = FlatMap(F, s)
  <2>1. ASSUME NEW i \in DOMAIN s PROVE G[t[i]] = F[s[i]]
    <3>1. t[i] = <<s[i], cs[i]>> /\ s[i] \in Piece /\ cs[i] \in Credentials
      BY DEF Pairs
    <3>2. <<s[i], cs[i]>> \in Given /\ <<s[i], cs[i]>>[1] = s[i]
      BY <3>1
    <3> HIDE DEF F, t, Given
    <3> QED
      BY <3>1, <3>2
  <2> HIDE DEF F, G, t, Given
  <2>2. Images(G, t) = Images(F, s)
    BY <1>5, <2>1 DEF Images
  <2> QED
    BY <2>2 DEF FlatMap
<1>7. Edited(s, u, cs) = FlatMap(E, t) /\ PasswordsOf(s, v) = FlatMap(F, s)
  <2>1. Edited(s, u, cs) = FlatMap(E, t)
    BY EditedAsFlatMap, Zenon
  <2>2. PasswordsOf(s, v) = FlatMap(F, s)
    BY AsFlatMap, Zenon
  <2> QED
    BY <2>1, <2>2
<1> HIDE DEF L, F, E, G, Given, t
<1>8. Seq(Given) \subseteq L
  BY <1>3, <1>4, SeqInduction
<1>9. PasswordsOf(FlatMap(E, t), v) = FlatMap(F, FlatMap(E, t))
  <2>1. FlatMap(E, t) \in Seq(Piece)
    BY <1>1, <1>5
  <2> QED
    BY <2>1, AsFlatMap, Zenon DEF F
<1>10. same(FlatMap(F, FlatMap(E, t)), FlatMap(G, t))
  BY <1>5, <1>8 DEF L
<1> QED
  BY <1>6, <1>7, <1>9, <1>10

-----------------------------------------------------------------------------
(* Files without the rest of a long line: the name is found on every line. *)

WholePiece == {x \in Piece : x.kind = "whole"}

WholeFiles ==
  /\ \A i \in Inodes : lines[i] \in Seq(WholePiece)
  /\ \A p \in Procs : job[p].out \in Seq(WholePiece)

\* Without passwords too long for the buffer no command writes such a rest; edit
\* leaves no other password of the user, and del no line.
LEMMA WholeEdits ==
  ASSUME Wide = {}, NEW u \in Names, NEW s \in Seq(WholePiece)
  PROVE  /\ \A C \in SUBSET Credentials : \A cs \in [DOMAIN s -> C] :
              Edited(s, u, cs) \in Seq({x \in WholePiece : x.user = u => x.cred \in C})
         /\ Removed(s, u) \in Seq({x \in WholePiece : x.user # u})
<1> DEFINE Kept(C) == {x \in WholePiece : x.user = u => x.cred \in C}
           Others == {x \in WholePiece : x.user # u}
<1>1. s \in Seq(Piece) /\ WholePiece \subseteq Piece
  BY DEF WholePiece
<1>2. ASSUME NEW C \in SUBSET Credentials
      PROVE  \A cs \in [DOMAIN s -> C] : Edited(s, u, cs) \in Seq(Kept(C))
  <2> DEFINE K == Kept(C)
  <2>1. ASSUME NEW x \in WholePiece, ~NameIs(x, u) PROVE <<x>> \in Seq(K)
    <3>1. x \in K
      BY <2>1 DEF WholePiece, NameIs
    <3> HIDE DEF K
    <3> QED
      BY <3>1
  <2>2. ASSUME NEW c \in C PROVE Entry(u, c) \in Seq(K)
    <3> DEFINE e == [kind |-> "whole", user |-> u, cred |-> c]
    <3>1. e \in K
      BY DEF WholePiece, Piece
    <3>2. Entry(u, c) = <<e>>
      BY DEF Entry
    <3> HIDE DEF e, K
    <3> QED
      BY <3>1, <3>2
  <2> HIDE DEF K
  <2>3. \A cs \in [DOMAIN s -> C] : Edited(s, u, cs) \in Seq(K)
    BY <1>1, <2>1, <2>2, EditedInto
  <2> QED
    BY <2>3 DEF K
<1>3. Removed(s, u) \in Seq(Others)
  <2> DEFINE F == RemovedPiece(u)
  <2>1. ASSUME NEW x \in WholePiece PROVE F[x] \in Seq(Others)
    <3>1. CASE NameIs(x, u)
      <4>1. F[x] = <<>>
        BY <1>1, <3>1 DEF RemovedPiece
      <4> HIDE DEF F, Others
      <4> QED
        BY <4>1
    <3>2. CASE ~NameIs(x, u)
      <4>1. x \in Others
        BY <3>2 DEF WholePiece, NameIs
      <4>2. F[x] = <<x>>
        BY <1>1, <3>2 DEF RemovedPiece
      <4> HIDE DEF F, Others
      <4> QED
        BY <4>1, <4>2
    <3> QED
      BY <3>1, <3>2
  <2>2. F \in [Piece -> Seq(Piece)]
    BY PieceMaps
  <2>3. Removed(s, u) = FlatMap(F, s)
    BY <1>1, AsFlatMap, Zenon
  <2> HIDE DEF F, Others
  <2>4. FlatMap(F, s) \in Seq(Others)
    BY <1>1, <2>1, <2>2, FlatMapInto
  <2> QED
    BY <2>3, <2>4
<1> QED
  BY <1>2, <1>3

\* Without passwords too long for the buffer every file holds whole lines.
LEMMA WholeStep ==
  ASSUME Wide = {}, TypeInv, WholeFiles, [Next]_vars
  PROVE  WholeFiles'
<1> USE UsersFileAssumption
<1>0. /\ job \in [Procs -> Job] /\ lines \in [Inodes -> Seq(Piece)]
      /\ \A q \in Procs : Sound(job[q])
  BY DEF TypeInv, TypeOK
<1>1. CASE UNCHANGED vars
  BY <1>1 DEF vars, WholeFiles
<1> SUFFICES ASSUME NEW p \in Procs, Start(p) \/ Step(p) \/ Crash(p) PROVE WholeFiles'
  BY <1>1 DEF Next
<1>2. \A i \in Inodes : lines'[i] \in Seq(WholePiece)
  <2>1. CASE UNCHANGED lines
    BY <2>1 DEF WholeFiles
  <2>2. CASE \E i \in Inodes : lines' = [lines EXCEPT ![i] = <<>>]
    BY <1>0, <2>2, EmptySeq DEF WholeFiles
  <2>3. CASE AddWrite(p)
    <3>1. /\ job[p].fd \in Inodes /\ job[p].user \in Names /\ Cred(p) \in Credentials
      BY <2>3, SoundField
      DEF AddWrite, At, Sound, Ended, TypeInv, TypeOK, Cred, Credentials
    <3> DEFINE e == [kind |-> "whole", user |-> job[p].user, cred |-> Cred(p)]
    <3>2. e \in WholePiece /\ Entry(job[p].user, Cred(p)) = <<e>>
      BY <3>1 DEF WholePiece, Piece, Entry
    <3> HIDE DEF e
    <3>3. lines[job[p].fd] \o Entry(job[p].user, Cred(p)) \in Seq(WholePiece)
      <4>1. lines[job[p].fd] \in Seq(WholePiece)
        BY <3>1 DEF WholeFiles
      <4>2. Entry(job[p].user, Cred(p)) \in Seq(WholePiece)
        BY <3>2
      <4> QED
        BY <4>1, <4>2, ConcatProperties
    <3>4. lines' = [lines EXCEPT ![job[p].fd] = @ \o Entry(job[p].user, Cred(p))]
      BY <2>3 DEF AddWrite
    <3> QED
      BY <1>0, <3>3, <3>4 DEF WholeFiles
  <2>4. CASE Flush(p) \/ AbortFlush(p)
    <3>1. job[p].tfd \in Inodes
      BY <2>4, SoundField DEF Flush, AbortFlush, At, Sound, TypeInv, TypeOK
    <3>2. Overlay(lines[job[p].tfd], job[p].out) \in Seq(WholePiece)
      BY <3>1, OverlayType DEF WholeFiles
    <3>3. lines' = [lines EXCEPT ![job[p].tfd] = Overlay(@, job[p].out)]
      BY <2>4 DEF Flush, AbortFlush
    <3> QED
      BY <1>0, <3>2, <3>3 DEF WholeFiles
  <2> QED
    BY <2>1, <2>2, <2>3, <2>4 DEF Step, AddStep, ReplaceStep, Start, Crash, ReadKey,
       AskPassword, AddCheck, AddOpen, OpenUsers, OpenTmp, ReadUsers, EditLines, Rename,
       Report, AbortRemove
<1>3. \A q \in Procs : job'[q].out \in Seq(WholePiece)
  <2>1. \A q \in Procs \ {p} : job'[q] = job[q]
    BY <1>0, StartJob, AddJob, ReplaceJob DEF Step, JobChange
  <2>2. job'[p].out \in Seq(WholePiece)
    <3>0. job[p] \in Job /\ job[p].out \in Seq(WholePiece)
      BY <1>0 DEF WholeFiles
    <3>1. CASE job'[p].out = job[p].out \/ job'[p].out = <<>>
      BY <3>0, <3>1, EmptySeq
    <3>2. CASE ReadUsers(p)
      <4>1. job[p].fd \in Inodes /\ job[p].user \in Names
        BY <1>0, <3>2, SoundField DEF ReadUsers, Sound, TypeInv, TypeOK
      <4>2. lines[job[p].fd] \in Seq(WholePiece)
        BY <4>1 DEF WholeFiles
      <4>3. Removed(lines[job[p].fd], job[p].user) \in Seq(WholePiece)
        <5>1. \A S : S \subseteq WholePiece => Seq(S) \subseteq Seq(WholePiece)
          OBVIOUS
        <5>3. Removed(lines[job[p].fd], job[p].user) \in
                Seq({x \in WholePiece : x.user # job[p].user})
          BY <4>1, <4>2, WholeEdits, Zenon
        <5> QED
          BY <5>1, <5>3
      <4>4. \/ job'[p].out = Removed(lines[job[p].fd], job[p].user)
            \/ job'[p].out = lines[job[p].fd]
            \/ job'[p].out = job[p].out
        <5>1. \A o, pc : job' = [job EXCEPT ![p].out = o, ![p].pc = pc] => job'[p].out = o
          BY <1>0, <3>0 DEF Job
        <5>2. \A pc : job' = [job EXCEPT ![p].pc = pc] => job'[p].out = job[p].out
          BY <1>0, <3>0 DEF Job
        <5> QED
          BY <3>2, <5>1, <5>2 DEF ReadUsers, Goto
      <4> QED
        BY <3>0, <4>2, <4>3, <4>4
    <3>4. CASE EditLines(p)
      <4>1. PICK cs \in [DOMAIN job[p].out -> Answers(p)] :
              job' = [job EXCEPT ![p].out = Edited(@, job[p].user, cs), ![p].pc = "flush"]
        BY <3>4 DEF EditLines
      <4>2. job[p].user \in Names /\ Answers(p) \in SUBSET Credentials
        BY <1>0, <3>4, AnswersType DEF EditLines, Sound
      <4> DEFINE o == Edited(job[p].out, job[p].user, cs)
      <4>3. o \in Seq(WholePiece)
        <5>1. \A S : S \subseteq WholePiece => Seq(S) \subseteq Seq(WholePiece)
          OBVIOUS
        <5>2. o \in Seq({x \in WholePiece : x.user = job[p].user => x.cred \in Answers(p)})
          BY <3>0, <4>1, <4>2, WholeEdits
        <5> HIDE DEF o
        <5> QED
          BY <5>1, <5>2
      <4>4. job'[p].out = o
        <5>1. job' = [job EXCEPT ![p] = [job[p] EXCEPT !.out = o, !.pc = "flush"]]
          BY <1>0, <4>1
        <5> HIDE DEF o
        <5> QED
          BY <1>0, <3>0, <5>1 DEF Job
      <4> QED
        BY <4>3, <4>4
    <3>3. CASE ~ReadUsers(p) /\ ~EditLines(p)
      <4>1. \A pc : End(p, pc) => job'[p].out = <<>>
        BY <1>0
      <4>2. \A pc : Goto(p, pc) => job'[p].out = job[p].out
        BY <1>0, <3>0 DEF Job
      <4>3. CASE Start(p)
        BY <1>0, <3>1, <4>3 DEF Start
      <4>4. CASE ReadKey(p) \/ AskPassword(p) \/ Crash(p)
        BY <1>0, <3>0, <3>1, <4>1, <4>2, <4>4 DEF ReadKey, AskPassword, Crash, Job
      <4>5. CASE AddStep(p)
        <5>2. AddWrite(p) => job'[p].out = job[p].out
          BY <1>0, <3>0 DEF AddWrite, Job
        <5>1. \A i : job' = [job EXCEPT ![p].fd = i, ![p].pc = "password"] =>
                      job'[p].out = job[p].out
          BY <1>0, <3>0 DEF Job
        <5> QED
          BY <3>1, <4>1, <4>2, <4>5, <5>1, <5>2 DEF AddStep, AddCheck, AddOpen
      <4>6. CASE OpenUsers(p) \/ OpenTmp(p)
        <5>1. \A i : /\ job' = [job EXCEPT ![p].fd = i, ![p].pc = "tmp"] =>
                         job'[p].out = job[p].out
                     /\ job' = [job EXCEPT ![p].tfd = i, ![p].pc = "read"] =>
                         job'[p].out = job[p].out
          BY <1>0, <3>0 DEF Job
        <5> QED
          BY <3>1, <4>1, <4>2, <4>6, <5>1 DEF OpenUsers, OpenTmp
      <4>7. CASE Flush(p) \/ AbortFlush(p)
        BY <1>0, <3>0, <3>1, <4>1, <4>2, <4>7 DEF Flush, AbortFlush, Job
      <4>8. CASE Rename(p) \/ Report(p) \/ AbortRemove(p)
        BY <1>0, <3>0, <3>1, <4>1, <4>2, <4>8 DEF Rename, Report, AbortRemove, Job
      <4> QED
        BY <3>3, <4>3, <4>4, <4>5, <4>6, <4>7, <4>8 DEF Step, ReplaceStep
    <3> QED
      BY <3>2, <3>3, <3>4
  <2> QED
    BY <2>1, <2>2 DEF WholeFiles
<1> QED
  BY <1>2, <1>3 DEF WholeFiles

\* What the last step of an add, and the rename of an edit or a del, make of the file.
LEMMA FileAfter ==
  ASSUME SerialInv, NEW p \in Procs
  PROVE  /\ AddWrite(p) =>
              /\ job[p].cmd = "add" /\ HasRoom(p) /\ Cred(p) \in Credentials
              /\ UsersLines' = UsersLines \o Entry(job[p].user, Cred(p))
         /\ Rename(p) /\ (UsersLines' # UsersLines \/ job'[p].pc = "report") =>
              /\ Has(UsersLines, job[p].user) /\ UsersLines' \in Results(p)
              /\ job[p].cmd \in {"edit", "del"}
              /\ job[p].cmd = "edit" => Answers(p) \subseteq Credentials
<1> USE UsersFileAssumption
<1>0. /\ job \in [Procs -> Job] /\ job[p] \in Job /\ Sound(job[p]) /\ Owns(p)
      /\ lines \in [Inodes -> Seq(Piece)]
      /\ dir \in [users : Inodes \union {NoInode}, tmp : Inodes \union {NoInode}]
  BY SerialTypes
<1>1. CASE AddWrite(p)
  <2>1. /\ job[p].cmd = "add" /\ HasRoom(p) /\ job[p].fd = dir.users /\ dir.users \in Inodes
        /\ job[p].pw \in Passwords /\ job[p].key \in Keys
    BY <1>0, <1>1 DEF AddWrite, Sound, Owns, Adds
  <2>2. /\ dir' = dir
        /\ lines' = [lines EXCEPT ![job[p].fd] = @ \o Entry(job[p].user, Cred(p))]
    BY <1>1 DEF AddWrite
  <2>3. ~Rename(p)
    BY <1>1 DEF AddWrite, Rename
  <2> QED
    BY <1>0, <2>1, <2>2, <2>3 DEF UsersLines, Cred, Credentials
<1>2. CASE Rename(p) /\ (UsersLines' # UsersLines \/ job'[p].pc = "report")
  <2>1. CASE dir.tmp = NoInode
    <3>1. Goto(p, "abortremove") /\ dir' = dir /\ lines' = lines
      BY <1>2, <2>1 DEF Rename
    <3>2. job'[p].pc = "abortremove"
      BY <1>0, <3>1 DEF Job
    <3> QED
      BY <1>2, <3>1, <3>2 DEF UsersLines
  <2>2. CASE dir.tmp # NoInode
    <3>1. dir' = [users |-> dir.tmp, tmp |-> NoInode] /\ lines' = lines
      BY <1>2, <2>2 DEF Rename
    <3>2. UsersLines' = lines[dir.tmp]
      BY <2>2, <3>1 DEF UsersLines
    <3>3. /\ lines[dir.tmp] \in Results(p) /\ Has(UsersLines, job[p].user)
          /\ job[p].cmd \in {"edit", "del"} /\ job[p].pc = "rename"
      BY <1>0, <1>2 DEF Rename, Owns, Sound
    <3>4. ~AddWrite(p)
      BY <1>2 DEF AddWrite, Rename
    <3>5. job[p].cmd = "edit" => Answers(p) \subseteq Credentials
      BY <1>0, <3>3, AnswersType
    <3> QED
      BY <3>2, <3>3, <3>4, <3>5
  <2> QED
    BY <2>1, <2>2
<1> QED
  BY <1>1, <1>2

\* Only the last step of an add and the rename of an edit or del come to the report.
LEMMA ReportStep ==
  ASSUME NEW p \in Procs, TypeInv, Start(p) \/ Step(p) \/ Crash(p), job'[p].pc = "report"
  PROVE  AddWrite(p) \/ Rename(p)
<1>0. job \in [Procs -> Job] /\ job[p] \in Job
  BY SoundField DEF TypeInv, TypeOK
<1>1. job'[p].pc = "report"
  OBVIOUS
<1>2. \A pc : (End(p, pc) \/ Goto(p, pc)) => job'[p].pc = pc
  BY <1>0 DEF Job
<1>4. CASE Start(p)
  BY <1>0, <1>1, <1>4 DEF Start
<1>5. CASE Crash(p) \/ AddCheck(p) \/ Report(p)
  BY <1>1, <1>2, <1>5 DEF Crash, AddCheck, Report
<1>6. CASE ReadKey(p) \/ AskPassword(p)
  BY <1>0, <1>1, <1>6 DEF ReadKey, AskPassword, Job
<1>7. CASE AddOpen(p) \/ OpenUsers(p) \/ OpenTmp(p)
  <2>1. CASE \E i : job' = [job EXCEPT ![p].fd = i, ![p].pc = "password"]
    BY <1>0, <1>1, <2>1 DEF Job
  <2>2. CASE \E i : job' = [job EXCEPT ![p].fd = i, ![p].pc = "tmp"]
    BY <1>0, <1>1, <2>2 DEF Job
  <2>3. CASE \E i : job' = [job EXCEPT ![p].tfd = i, ![p].pc = "read"]
    BY <1>0, <1>1, <2>3 DEF Job
  <2>4. CASE End(p, "failure") \/ Goto(p, "abortremove")
    BY <1>1, <1>2, <2>4
  <2> QED
    BY <1>7, <2>1, <2>2, <2>3, <2>4, Zenon DEF AddOpen, OpenUsers, OpenTmp
<1>8. CASE ReadUsers(p) \/ EditLines(p)
  <2>1. \/ \E o : job' = [job EXCEPT ![p].out = o, ![p].pc = "password"]
        \/ \E o : job' = [job EXCEPT ![p].out = o, ![p].pc = "flush"]
        \/ \E o : job' = [job EXCEPT ![p].out = o, ![p].pc = "abortflush"]
        \/ Goto(p, "abortflush")
    <3>1. CASE ReadUsers(p)
      BY <3>1, Zenon DEF ReadUsers
    <3>2. CASE EditLines(p)
      <4>1. PICK cs : job' = [job EXCEPT ![p].out = Edited(@, job[p].user, cs), ![p].pc = "flush"]
        BY <3>2 DEF EditLines
      <4>2. job' = [job EXCEPT ![p].out = Edited(job[p].out, job[p].user, cs), ![p].pc = "flush"]
        BY <1>0, <4>1
      <4> QED
        BY <4>2
    <3> QED
      BY <1>8, <3>1, <3>2
  <2>2. \A o, pc : job' = [job EXCEPT ![p].out = o, ![p].pc = pc] => pc = "report"
    BY <1>0, <1>1 DEF Job
  <2> QED
    BY <1>1, <1>2, <2>1, <2>2
<1>9. CASE Flush(p) \/ AbortFlush(p) \/ AbortRemove(p)
  BY <1>0, <1>1, <1>2, <1>9 DEF Flush, AbortFlush, AbortRemove, Job
<1> QED
  BY <1>4, <1>5, <1>6, <1>7, <1>8, <1>9 DEF Step, AddStep, ReplaceStep

\* The report does not come before the change.
Reported == \A p \in Procs : At(p, "report") => Done(p)

\* One command at a time, and no password too long for the buffer of the loop: the
\* step that comes to the report has done to the users file what the command says.
LEMMA ReportedStep ==
  ASSUME Serial, Wide = {}, SerialInv, SerialInv', WholeFiles, Reported, [Next]_vars
  PROVE  Reported'
<1> SUFFICES ASSUME NEW p \in Procs, job'[p].pc = "report" PROVE Done(p)'
  BY DEF Reported
<1>0. /\ job \in [Procs -> Job] /\ job[p] \in Job /\ Sound(job[p]) /\ TypeInv
      /\ UsersLines \in Seq(Piece)
  BY SerialTypes, UsersLinesType DEF SerialInv
<1>1. CASE UNCHANGED vars
  <2>1. job' = job /\ UsersLines' = UsersLines
    BY <1>1 DEF vars, UsersLines
  <2>2. Done(p)
    BY <2>1 DEF Reported
  <2> QED
    BY <2>1, <2>2 DEF Done, Answers, Cred
<1>2. ASSUME NEW q \in Procs, Start(q) \/ Step(q) \/ Crash(q)
      PROVE  q = p /\ (AddWrite(p) \/ Rename(p))
  <2>1. q = p
    BY <1>2, Alone
  <2> QED
    BY <1>0, <1>2, <2>1, ReportStep
<1>3. CASE AddWrite(p) \/ Rename(p)
  <2>1. /\ job[p].user \in Names /\ job[p].pc \in {"write", "rename"}
    BY <1>0, <1>3 DEF AddWrite, Rename, Sound
  <2>2. /\ job'[p].user = job[p].user /\ job'[p].cmd = job[p].cmd
        /\ Answers(p)' = Answers(p) /\ Cred(p)' = Cred(p)
    <3>1. /\ job'[p].user = job[p].user /\ job'[p].cmd = job[p].cmd
          /\ job'[p].pw = job[p].pw /\ job'[p].key = job[p].key /\ job'[p].src = job[p].src
      <4>1. CASE AddWrite(p)
        BY <1>0, <4>1 DEF AddWrite, Job
      <4>2. CASE Rename(p)
        <5>1. PICK pc : job'[p] = [job[p] EXCEPT !.pc = pc]
          BY <1>0, <4>2 DEF Rename
        <5> QED
          BY <1>0, <5>1 DEF Job
      <4> QED
        BY <1>3, <4>1, <4>2
    <3> QED
      BY <3>1 DEF Answers, Cred
  <2>3. CASE AddWrite(p)
    <3>1. /\ job[p].cmd = "add" /\ Cred(p) \in Credentials
          /\ UsersLines' = UsersLines \o Entry(job[p].user, Cred(p))
      BY <2>3, FileAfter
    <3> DEFINE e == Entry(job[p].user, Cred(p))
               t == UsersLines \o e
    <3>2. e \in Seq(Piece) /\ Len(e) > 0
      <4>1. e \in Seq(Piece)
        BY <2>1, <3>1, EntryType
      <4>2. e # <<>>
        BY DEF Entry
      <4> HIDE DEF e
      <4> QED
        BY <4>1, <4>2
    <3> HIDE DEF e
    <3>3. Len(UsersLines) + 1 \in DOMAIN t /\ t[Len(UsersLines) + 1] = e[1]
      BY <1>0, <3>2
    <3>4. \E i \in DOMAIN UsersLines' : UsersLines'[i] = Entry(job[p].user, Cred(p))[1]
      BY <3>1, <3>3 DEF e
    <3> QED
      BY <2>2, <3>1, <3>4 DEF Done
  <2>4. CASE Rename(p)
    <3>1. /\ Has(UsersLines, job[p].user) /\ UsersLines' \in Results(p)
          /\ job[p].cmd \in {"edit", "del"}
          /\ job[p].cmd = "edit" => Answers(p) \subseteq Credentials
      BY <2>4, FileAfter
    <3>2. UsersLines \in Seq(WholePiece)
      BY <1>0 DEF WholeFiles, UsersLines, TypeInv, TypeOK
    <3>3. CASE job[p].cmd = "edit"
      <4> DEFINE t == UsersLines'
                 K == {x \in WholePiece : x.user = job[p].user => x.cred \in Answers(p)}
      <4>0. PICK cs \in [DOMAIN UsersLines -> Answers(p)] :
              t = Edited(UsersLines, job[p].user, cs)
        BY <3>1, <3>3 DEF Results
      <4>1. t \in Seq(K)
        BY <2>1, <3>1, <3>2, <3>3, <4>0, WholeEdits
      <4>2. \A i \in DOMAIN t : t[i] \in K
        <5> HIDE DEF t, K
        <5> QED
          BY <4>1
      <4>3. Has(t, job[p].user)
        <5>0. cs \in [DOMAIN UsersLines -> Credentials]
          BY <3>1, <3>3
        <5>1. PasswordsOf(UsersLines, job[p].user) # <<>>
          BY <1>0, <2>1, <3>1, HasPassword
        <5>2. PasswordsOf(UsersLines, job[p].user) \in Seq(Credentials)
          BY <1>0, <2>1, EditType
        <5>3. Len(PasswordsOf(t, job[p].user)) = Len(PasswordsOf(UsersLines, job[p].user))
          BY <1>0, <2>1, <4>0, <5>0, EditPasswords
        <5>4. \A x \in Seq(Credentials) : Len(x) = 0 <=> x = <<>>
          OBVIOUS
        <5>5. t \in Seq(Piece)
          BY <1>0, <2>1, <4>0, <5>0, EditType
        <5>6. PasswordsOf(t, job[p].user) \in Seq(Credentials)
          BY <2>1, <5>5, EditType
        <5> HIDE DEF t
        <5> QED
          BY <2>1, <5>1, <5>2, <5>3, <5>4, <5>5, <5>6, HasPassword
      <4> QED
        BY <2>2, <3>3, <4>2, <4>3 DEF Done
    <3>4. CASE job[p].cmd = "del"
      <4> DEFINE t == Removed(UsersLines, job[p].user)
                 K == {x \in WholePiece : x.user # job[p].user}
      <4>1. t \in Seq(K)
        BY <2>1, <3>2, WholeEdits
      <4>2. \A i \in DOMAIN t : t[i] \in K
        <5> HIDE DEF t, K
        <5> QED
          BY <4>1
      <4>3. UsersLines' = t
        BY <3>1, <3>4 DEF Results
      <4> QED
        BY <2>2, <3>4, <4>2, <4>3 DEF Done
    <3> QED
      BY <3>1, <3>3, <3>4
  <2> QED
    BY <1>3, <2>3, <2>4
<1> QED
  BY <1>1, <1>2, <1>3 DEF Next

\* One command at a time, and no password too long for the buffer of the loop: a
\* command that reports success has done to the users file what it says.
THEOREM SuccessVisible ==
  ASSUME Serial, Wide = {}
  PROVE  Spec => SuccessIsVisible
<1>1. Init => WholeFiles /\ Reported
  <2> SUFFICES ASSUME Init PROVE WholeFiles /\ Reported
    OBVIOUS
  <2>1. <<>> \in Seq(WholePiece)
    OBVIOUS
  <2>2. \A i \in Inodes : lines[i] = <<>>
    BY DEF Init
  <2>3. \A p \in Procs : job[p].out = <<>> /\ job[p].pc # "report"
    BY DEF Init
  <2> QED
    BY <2>1, <2>2, <2>3 DEF WholeFiles, Reported
<1>2. Spec => []WholeFiles
  BY <1>1, TypeInit, TypeStep, WholeStep, PTL DEF Spec
<1>3. SerialInv /\ SerialInv' /\ WholeFiles /\ Reported /\ [Next]_vars => Reported'
  BY ReportedStep
<1>4. Spec => []Reported
  BY <1>1, <1>2, <1>3, SerialInvCorrect, PTL DEF Spec
<1>5. Reported /\ [Next]_vars => [\A p \in Procs : Succeeds(p) => Done(p)]_vars
  BY DEF Reported, Succeeds
<1> QED
  BY <1>4, <1>5, PTL DEF Spec, SuccessIsVisible

-----------------------------------------------------------------------------
(* The file is the table of UsersStore. *)

Table == [u \in Names |-> PasswordsOf(UsersLines, u)]

\* Every owner of a password has a line of the file, so that counting lines never
\* finds fewer than there are users.
LEMMA FewOwners ==
  ASSUME NEW s \in Seq(Piece), NEW O, O = {u \in Names : PasswordsOf(s, u) # <<>>}
  PROVE  Cardinality(O) \in Nat /\ Cardinality(O) <= Len(s)
<1> DEFINE U(i) == s[i].user
           I == {U(i) : i \in 1 .. Len(s)}
           f == [i \in 1 .. Len(s) |-> U(i)]
<1>1. Len(s) \in Nat /\ DOMAIN s = 1 .. Len(s)
  OBVIOUS
<1>2. f \in Surjection(1 .. Len(s), I)
  <2>1. f \in [1 .. Len(s) -> I] /\ \A t \in I : \E i \in 1 .. Len(s) : f[i] = t
    OBVIOUS
  <2> HIDE DEF f, I
  <2> QED
    BY <2>1 DEF Surjection
<1>3. O \subseteq I
  BY <1>1, HasPassword DEF Has, NameIs
<1> HIDE DEF I, f
<1>4. ExistsSurjection(1 .. Len(s), I)
  BY <1>2 DEF ExistsSurjection
<1>5. IsFiniteSet(I) /\ Cardinality(I) <= Len(s)
  BY <1>1, <1>4, FS_NatSurjection, FS_SurjCardinalityBound
<1>6. IsFiniteSet(O) /\ Cardinality(O) <= Cardinality(I)
  BY <1>3, <1>5, FS_Subset
<1>7. Cardinality(O) \in Nat /\ Cardinality(I) \in Nat
  BY <1>5, <1>6, FS_CardinalityType
<1> QED
  BY <1>1, <1>5, <1>6, <1>7

\* The size of a set is the same in UsersStore, which instantiates FiniteSets anew.
LEMMA StoreCardinality == \A S : Store!Cardinality(S) = Cardinality(S)
BY DEF Store!Cardinality, Cardinality

\* The table before any command has run.
LEMMA StoreInit == Init => Store!Init
<1> SUFFICES ASSUME Init PROVE Store!Init
  OBVIOUS
<1>1. UsersLines = <<>>
  BY DEF Init, UsersLines
<1>2. \A u \in Names : PasswordsOf(<<>>, u) = <<>>
  <2> TAKE u \in Names
  <2>1. <<>> \in Seq(Piece)
    OBVIOUS
  <2>2. ~Has(<<>>, u)
    BY DEF Has
  <2> QED
    BY <2>1, <2>2, HasPassword
<1>3. Table = [u \in Names |-> <<>>]
  BY <1>1, <1>2 DEF Table
<1>4. Store!Owners = {}
  BY <1>1, <1>2 DEF Store!Owners
<1>5. Table \in [Names -> Seq(Credentials)]
  BY <1>3
<1>6. Cardinality(Store!Owners) <= NUMBER_OF_USERS
  BY <1>4, FS_EmptySet, UsersFileAssumption
<1> QED
  BY <1>5, <1>6, StoreCardinality DEF Store!Init, Table

\* One command at a time: a step that changes the table is one whole add, edit or del.
LEMMA StoreStep ==
  ASSUME Serial, SerialInv, [Next]_vars
  PROVE  Store!Next \/ UNCHANGED Table
<1> USE UsersFileAssumption
<1> SUFFICES ASSUME UsersLines' # UsersLines PROVE Store!Next
  BY DEF Table
<1>1. PICK p \in Procs : AddWrite(p) \/ Rename(p)
  <2>1. ~UNCHANGED vars
    BY DEF vars, UsersLines
  <2> QED
    BY <2>1, SameLines DEF Next
<1> DEFINE u == job[p].user
           c == Cred(p)
<1>2. /\ UsersLines \in Seq(Piece) /\ u \in Names /\ job[p].named \in Prompts
  BY <1>1, SerialTypes, UsersLinesType
  DEF SerialInv, Sound, AddWrite, Rename, Owns
<1>3. /\ Store!Owners = {v \in Names : PasswordsOf(UsersLines, v) # <<>>}
      /\ u \in Store!Owners <=> Has(UsersLines, u)
  BY <1>2, HasPassword DEF Store!Owners
<1>4. Table' = [v \in Names |-> PasswordsOf(UsersLines', v)]
  BY DEF Table
<1>5. CASE AddWrite(p)
  <2>1. /\ HasRoom(p) /\ c \in Credentials /\ UsersLines' = UsersLines \o Entry(u, c)
    BY <1>5, FileAfter
  <2>2. Table' = [Table EXCEPT ![u] = Append(@, c)]
    <3>1. \A v \in Names : PasswordsOf(UsersLines', v) =
            IF v = u THEN Append(PasswordsOf(UsersLines, v), c) ELSE PasswordsOf(UsersLines, v)
      <4> TAKE v \in Names
      <4> HIDE DEF u, c
      <4> QED
        BY <1>2, <2>1, AddPasswords
    <3> HIDE DEF u, c
    <3> QED
      BY <1>2, <1>4, <3>1 DEF Table
  <2>3. Cardinality(Store!Owners) < NUMBER_OF_USERS
    <3>1. Cardinality(Store!Owners) \in Nat /\ Cardinality(Store!Owners) <= Len(UsersLines)
      BY <1>2, <1>3, FewOwners
    <3> QED
      BY <1>2, <2>1, <3>1 DEF HasRoom
  <2>4. Prompts = {TRUE} => u \notin Store!Owners
    BY <1>2, <1>3, <2>1 DEF HasRoom
  <2>5. Store!Add(u, c)
    BY <2>2, <2>3, <2>4, StoreCardinality DEF Store!Add, Table
  <2> QED
    BY <1>2, <2>1, <2>5 DEF Store!Next
<1>6. CASE Rename(p)
  <2>1. /\ Has(UsersLines, u) /\ UsersLines' \in Results(p) /\ job[p].cmd \in {"edit", "del"}
        /\ job[p].cmd = "edit" => Answers(p) \subseteq Credentials
    <3>1. Rename(p) /\ UsersLines' # UsersLines
      BY <1>6
    <3> QED
      BY <3>1, FileAfter, Zenon
  <2>2. CASE job[p].cmd = "edit"
    <3>1. PICK cs \in [DOMAIN UsersLines -> Answers(p)] : UsersLines' = Edited(UsersLines, u, cs)
      BY <2>1, <2>2 DEF Results
    <3>2. cs \in [DOMAIN UsersLines -> Credentials]
      BY <2>1, <2>2
    <3> DEFINE new == PasswordsOf(UsersLines', u)
    <3> HIDE DEF u, c
    <3>3. \A v \in Names : v # u => PasswordsOf(UsersLines', v) = PasswordsOf(UsersLines, v)
      BY <1>2, <3>1, <3>2, EditPasswords
    <3>4. new \in [DOMAIN PasswordsOf(UsersLines, u) -> Credentials]
      <4>1. Len(new) = Len(PasswordsOf(UsersLines, u))
        BY <1>2, <3>1, <3>2, EditPasswords
      <4>2. UsersLines' \in Seq(Piece)
        BY <1>2, <3>1, <3>2, EditType
      <4>3. new \in Seq(Credentials) /\ PasswordsOf(UsersLines, u) \in Seq(Credentials)
        BY <1>2, <4>2, EditType
      <4>4. \A a, b \in Seq(Credentials) : Len(a) = Len(b) => a \in [DOMAIN b -> Credentials]
        OBVIOUS
      <4> HIDE DEF new
      <4> QED
        BY <4>1, <4>3, <4>4
    <3>5. Table' = [Table EXCEPT ![u] = new]
      BY <1>2, <1>4, <3>3 DEF Table
    <3> HIDE DEF new
    <3>6. new \in [DOMAIN Table[u] -> Credentials]
      BY <1>2, <3>4 DEF Table
    <3>7. Store!Edit(u)
      BY <1>3, <2>1, <3>5, <3>6 DEF Store!Edit, Table
    <3> QED
      BY <1>2, <3>7 DEF Store!Next
  <2>3. CASE job[p].cmd = "del"
    <3>1. UsersLines' = Removed(UsersLines, u)
      BY <2>1, <2>3 DEF Results
    <3>2. \A v \in Names : PasswordsOf(UsersLines', v) =
            IF v = u THEN <<>> ELSE PasswordsOf(UsersLines, v)
      BY <1>2, <3>1, DelPasswords
    <3>3. Table' = [Table EXCEPT ![u] = <<>>]
      <4> HIDE DEF u, c
      <4> QED
        BY <1>2, <1>4, <3>2 DEF Table
    <3>4. Store!Del(u)
      BY <1>3, <2>1, <3>3 DEF Store!Del, Table
    <3> QED
      BY <1>2, <3>4 DEF Store!Next
  <2> QED
    BY <2>1, <2>2, <2>3
<1> QED
  BY <1>1, <1>5, <1>6

\* One command at a time, killed anywhere, the users file implements the table: every
\* add, edit and del happens whole or not at all, and no name given with -U is entered
\* twice, nor one more user than there is room for.
THEOREM ImplementsStore ==
  ASSUME Serial
  PROVE  Spec => StoreRefinement
<1>1. SerialInv /\ [Next]_vars => [Store!Next]_Table
  BY StoreStep
<1>2. StoreRefinement <=> Store!Init /\ [][Store!Next]_Table
  BY DEF StoreRefinement, Store!Spec, Table
<1> QED
  BY <1>1, <1>2, StoreInit, SerialInvCorrect, PTL DEF Spec
=============================================================================
