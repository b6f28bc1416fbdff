---------------------------- MODULE DaemonProofs ----------------------------
(***************************************************************************)
(* For any number of daemons: one that has created the pidfile owns it.    *)
(* OwnedInv adds what PidfileOwned needs to be inductive: the file is its  *)
(* creator's already while the number is being written, and created is     *)
(* true exactly on the way from there to the end of main.                  *)
(***************************************************************************)
EXTENDS Daemon, TLAPS

Before == {"off", "read", "logging", "validate", "access", "create", "write"}
Running == {"loop", "shutdown", "remove"}
After == {"error", "stop", "ended", "failed", "killed"}
States == Before \cup Running \cup After

TypeInv ==
  /\ pc \in [Daemons -> States]
  /\ created \in [Daemons -> BOOLEAN]

OwnedInv ==
  /\ TypeInv
  /\ \A p \in Daemons :
       /\ pc[p] = "write" => pidfile = [by |-> p, pid |-> FALSE]
       /\ pc[p] \in Before => ~created[p]
       /\ pc[p] \in Running => created[p]
       /\ created[p] /\ pc[p] \in Running \cup {"error"} => pidfile = [by |-> p, pid |-> TRUE]

\* No daemon runs, and there is no pidfile.
LEMMA OwnedInit == Init => OwnedInv
  BY DEF Init, OwnedInv, TypeInv, States, Before, Running, After

\* Steps that leave the pidfile and created alone and do not enter or leave the part of
\* main in which the file is owned.
LEMMA OutsideKept ==
  ASSUME OwnedInv, NEW p \in Daemons, UNCHANGED <<pidfile, created>>,
         NEW to \in States, Goto(p, to),
         \/ pc[p] \in Before \ {"write"} /\ to \in (Before \ {"write"}) \cup {"error", "failed"}
         \/ pc[p] \in Running /\ to \in Running \cup {"error"}
         \/ to \in After \ {"error"}
  PROVE  OwnedInv'
<1>1. TypeInv'
  BY DEF OwnedInv, TypeInv, Goto
<1>2. \A q \in Daemons : q # p => pc'[q] = pc[q]
  BY DEF OwnedInv, TypeInv, Goto
<1>3. pc'[p] = to
  BY DEF OwnedInv, TypeInv, Goto
<1> QED
  BY <1>1, <1>2, <1>3 DEF OwnedInv, Before, Running, After

\* Each step of one daemon keeps the invariant.
LEMMA OwnedStep == ASSUME OwnedInv, NEW p \in Daemons, Step(p) PROVE OwnedInv'
<1>1. CASE Start(p)
  BY <1>1, OutsideKept DEF Start, Before, After, States
<1>2. CASE ReadConfigurations(p)
  BY <1>2, OutsideKept DEF ReadConfigurations, Before, After, States
<1>3. CASE StartsLogging(p)
  <2>1. PICK to \in {"error", "validate"} : Goto(p, to) /\ UNCHANGED <<pidfile, created>>
    BY <1>3 DEF StartsLogging
  <2> QED
    BY <1>3, <2>1, OutsideKept DEF StartsLogging, Before, After, States
<1>4. CASE Validate(p)
  BY <1>4, OutsideKept DEF Validate, Before, After, States
<1>5. CASE AccessPidfile(p)
  BY <1>5, OutsideKept DEF AccessPidfile, Before, After, States
<1>6. CASE OpenPidfile(p)
  <2>1. CASE Goto(p, "error") /\ UNCHANGED pidfile
    BY <1>6, <2>1, OutsideKept DEF OpenPidfile, Before, After, States
  <2>2. CASE /\ pidfile = NoPidfile
             /\ pidfile' = [by |-> p, pid |-> FALSE]
             /\ Goto(p, "write")
    <3>1. \A q \in Daemons : /\ pc[q] # "write"
                             /\ ~(created[q] /\ pc[q] \in Running \cup {"error"})
      <4>1. \A q \in Daemons, b \in BOOLEAN : pidfile # [by |-> q, pid |-> b]
        BY <2>2, DaemonAssumption
      <4> QED
        BY <4>1 DEF OwnedInv
    <3>2. created' = created /\ pc' = [pc EXCEPT ![p] = "write"] /\ pc[p] = "create"
      BY <1>6, <2>2 DEF OpenPidfile, Goto
    <3>3. TypeInv'
      BY <3>2 DEF OwnedInv, TypeInv, States, Before
    <3>4. \A q \in Daemons : q # p => pc'[q] = pc[q]
      BY <3>2 DEF OwnedInv, TypeInv
    <3>5. pc'[p] = "write" /\ ~created'[p]
      BY <3>2 DEF OwnedInv, TypeInv, Before
    <3> QED
      BY <2>2, <3>1, <3>2, <3>3, <3>4, <3>5 DEF OwnedInv, Before, Running, After
  <2> QED
    BY <1>6, <2>1, <2>2 DEF OpenPidfile
<1>7. CASE WritePidfile(p)
  <2>1. pidfile = [by |-> p, pid |-> FALSE] /\ ~created[p] /\ pc[p] = "write"
    BY <1>7 DEF WritePidfile, OwnedInv, Before
  <2>2. \A q \in Daemons : q # p =>
          /\ pc[q] # "write"
          /\ ~(created[q] /\ pc[q] \in Running \cup {"error"})
    BY <2>1 DEF OwnedInv
  <2>3. CASE /\ pidfile' = [pidfile EXCEPT !.pid = TRUE]
             /\ created' = [created EXCEPT ![p] = TRUE]
             /\ Goto(p, "loop")
    <3>1. pidfile' = [by |-> p, pid |-> TRUE]
      BY <2>1, <2>3
    <3>2. TypeInv' /\ pc'[p] = "loop" /\ created'[p]
      BY <2>3 DEF OwnedInv, TypeInv, Goto, States, Running
    <3>3. \A q \in Daemons : q # p => pc'[q] = pc[q] /\ created'[q] = created[q]
      BY <2>3 DEF OwnedInv, TypeInv, Goto
    <3> QED
      BY <2>2, <3>1, <3>2, <3>3 DEF OwnedInv, Before, Running, After
  <2>4. CASE Goto(p, "error") /\ UNCHANGED <<pidfile, created>>
    <3>1. TypeInv' /\ pc'[p] = "error"
      BY <2>4 DEF OwnedInv, TypeInv, Goto, States, After
    <3>2. \A q \in Daemons : q # p => pc'[q] = pc[q]
      BY <2>4 DEF OwnedInv, TypeInv, Goto
    <3> QED
      BY <2>1, <2>4, <3>1, <3>2 DEF OwnedInv, Before, Running, After
  <2> QED
    BY <1>7, <2>3, <2>4 DEF WritePidfile
<1>8. CASE MakeLoop(p)
  BY <1>8, OutsideKept DEF MakeLoop, Running, After, States
<1>9. CASE Shutdown(p)
  BY <1>9, OutsideKept DEF Shutdown, Running, After, States
<1>10. CASE RemovePidfile(p)
  <2>1. pidfile = [by |-> p, pid |-> TRUE]
    BY <1>10 DEF RemovePidfile, OwnedInv, Running
  <2>2. \A q \in Daemons : q # p =>
          /\ pc[q] # "write"
          /\ ~(created[q] /\ pc[q] \in Running \cup {"error"})
    BY <2>1 DEF OwnedInv
  <2>3. TypeInv' /\ pc'[p] = "stop" /\ created' = created
    BY <1>10 DEF RemovePidfile, OwnedInv, TypeInv, Goto, States, After
  <2>4. \A q \in Daemons : q # p => pc'[q] = pc[q]
    BY <1>10 DEF RemovePidfile, OwnedInv, TypeInv, Goto
  <2> QED
    BY <2>2, <2>3, <2>4 DEF OwnedInv, Before, Running, After
<1>11. CASE Error(p)
  <2>1. CASE created[p]
    <3>1. pidfile = [by |-> p, pid |-> TRUE]
      BY <1>11, <2>1 DEF Error, OwnedInv
    <3>2. \A q \in Daemons : q # p =>
            /\ pc[q] # "write"
            /\ ~(created[q] /\ pc[q] \in Running \cup {"error"})
      BY <3>1 DEF OwnedInv
    <3>3. TypeInv' /\ pc'[p] = "failed"
      BY <1>11, <2>1 DEF Error, OwnedInv, TypeInv, Goto, States, After
    <3>4. \A q \in Daemons : q # p => pc'[q] = pc[q] /\ created'[q] = created[q]
      BY <1>11, <2>1 DEF Error, OwnedInv, TypeInv, Goto
    <3> QED
      BY <3>2, <3>3, <3>4 DEF OwnedInv, Before, Running, After
  <2>2. CASE ~created[p]
    BY <1>11, <2>2, OutsideKept DEF Error, Before, After, States
  <2> QED
    BY <2>1, <2>2
<1>12. CASE Stop(p)
  BY <1>12, OutsideKept DEF Stop, Before, After, States
<1> QED
  BY <1>1, <1>2, <1>3, <1>4, <1>5, <1>6, <1>7, <1>8, <1>9, <1>10, <1>11, <1>12 DEF Step

\* An operator acts when no daemon is there, so nobody holds the file he removes.
LEMMA OwnedOperator == ASSUME OwnedInv, Operator PROVE OwnedInv'
<1>1. \A p \in Daemons : pc[p] \notin {"write", "error"} \cup Running
  BY DEF Operator, Alive, Over, Running
<1> QED
  BY <1>1 DEF Operator, OwnedInv, TypeInv

\* Every step of the daemons and of their surroundings keeps the invariant.
LEMMA OwnedNext == OwnedInv /\ [Next]_vars => OwnedInv'
<1> SUFFICES ASSUME OwnedInv, [Next]_vars PROVE OwnedInv'
  OBVIOUS
<1>1. CASE \E p \in Daemons : Step(p)
  BY <1>1, OwnedStep
<1>2. CASE \E p \in Daemons : Crash(p)
  BY <1>2, OutsideKept DEF Crash, After, States
<1>3. CASE Operator
  BY <1>3, OwnedOperator
<1>4. CASE Tick
  BY <1>4 DEF Tick, OwnedInv, TypeInv
<1>5. CASE UNCHANGED vars
  BY <1>5 DEF vars, OwnedInv, TypeInv
<1> QED
  BY <1>1, <1>2, <1>3, <1>4, <1>5 DEF Next

\* The pidfile is the one of the daemon that created it, with its number, until that
\* daemon removes it: however many daemons are started over create_pidfile.
THEOREM OneOwner == Spec => []PidfileOwned
<1>1. OwnedInv => PidfileOwned
  BY DEF OwnedInv, PidfileOwned, Holds, Running
<1> QED
  BY <1>1, OwnedInit, OwnedNext, PTL DEF Spec

-----------------------------------------------------------------------------
(* The pidfile that is left.  Its creator is on the way from open to       *)
(* unlink, or something has happened to it.                                *)

Answers(b) ==
  \/ b \in faulted
  \/ pc[b] = "write"
  \/ created[b] /\ pc[b] \in Running \cup {"error"}

LeftInv == pidfile # NoPidfile => pidfile.by \in Daemons /\ Answers(pidfile.by)

\* The step of a daemon that is not the one in the pidfile, or that leaves the pidfile.
LEMMA LeftStep == ASSUME OwnedInv, LeftInv, NEW p \in Daemons, Step(p) PROVE LeftInv'
<1> DEFINE b == pidfile.by
<1>0. pc \in [Daemons -> States] /\ created \in [Daemons -> BOOLEAN]
  BY DEF OwnedInv, TypeInv
<1>1. CASE OpenPidfile(p) /\ pidfile' # pidfile
  <2>1. pidfile' = [by |-> p, pid |-> FALSE] /\ pc' = [pc EXCEPT ![p] = "write"]
    BY <1>1 DEF OpenPidfile, Goto
  <2> QED
    BY <1>0, <2>1 DEF LeftInv, Answers
<1>2. CASE WritePidfile(p)
  <2>1. pidfile = [by |-> p, pid |-> FALSE]
    BY <1>2 DEF WritePidfile, OwnedInv
  <2>2. CASE /\ pidfile' = [pidfile EXCEPT !.pid = TRUE]
             /\ created' = [created EXCEPT ![p] = TRUE]
             /\ Goto(p, "loop")
    <3>1. pidfile' = [by |-> p, pid |-> TRUE]
      BY <2>1, <2>2
    <3>2. pc'[p] = "loop" /\ created'[p]
      BY <1>0, <2>2 DEF Goto
    <3> QED
      BY <3>1, <3>2 DEF LeftInv, Answers, Running
  <2>3. CASE faulted' = faulted \cup {p} /\ UNCHANGED pidfile
    BY <2>1, <2>3 DEF LeftInv, Answers
  <2> QED
    BY <1>2, <2>2, <2>3 DEF WritePidfile
<1>3. CASE RemovePidfile(p)
  BY <1>3 DEF RemovePidfile, LeftInv
<1>4. CASE Error(p) /\ created[p]
  BY <1>4 DEF Error, LeftInv
<1>5. CASE pidfile' = pidfile /\ ~WritePidfile(p) /\ ~RemovePidfile(p) /\ ~(Error(p) /\ created[p])
  <2> SUFFICES ASSUME pidfile # NoPidfile PROVE Answers(b)'
    BY <1>5 DEF LeftInv
  <2>0. b' = b
    BY <1>5
  <2>1. b \in Daemons /\ Answers(b)
    BY DEF LeftInv
  <2> HIDE DEF b
  <2>2. created' = created /\ faulted' = faulted
    BY <1>5 DEF Step, Start, ReadConfigurations, StartsLogging, Validate, AccessPidfile,
       OpenPidfile, MakeLoop, Shutdown, Error, Stop
  <2>3. CASE b # p
    <3>1. pc'[b] = pc[b]
      BY <1>0, <2>1, <2>3 DEF Step, Start, ReadConfigurations, StartsLogging, Validate,
         AccessPidfile, OpenPidfile, WritePidfile, MakeLoop, Shutdown, RemovePidfile, Error,
         Stop, Goto
    <3> QED
      BY <2>0, <2>1, <2>2, <3>1 DEF Answers
  <2>4. CASE b = p /\ p \notin faulted
    <3>1. (created[p] /\ pc[p] \in Running \cup {"error"}) \/ pc[p] = "write"
      BY <2>1, <2>4 DEF Answers
    <3>2. pc[p] \notin Before \/ pc[p] = "write"
      BY <3>1 DEF Before, Running
    <3>3. MakeLoop(p) \/ Shutdown(p)
      BY <1>5, <3>1, <3>2 DEF Step, Start, ReadConfigurations, StartsLogging, Validate,
         AccessPidfile, OpenPidfile, WritePidfile, RemovePidfile, Error, Stop, Before, Running
    <3>4. pc'[p] \in Running \cup {"error"} /\ pc[p] # "write"
      BY <1>0, <3>3 DEF MakeLoop, Shutdown, Goto, Running
    <3> QED
      BY <2>0, <2>2, <2>4, <3>1, <3>4 DEF Answers
  <2> QED
    BY <2>0, <2>1, <2>2, <2>3, <2>4 DEF Answers
<1>6. \/ pidfile' = pidfile \/ OpenPidfile(p) \/ WritePidfile(p) \/ RemovePidfile(p)
      \/ Error(p) /\ created[p]
  BY DEF Step, Start, ReadConfigurations, StartsLogging, Validate, AccessPidfile,
     MakeLoop, Shutdown, Error, Stop
<1> QED
  BY <1>1, <1>2, <1>3, <1>4, <1>5, <1>6

\* A pidfile that outlives its daemon is that of a daemon that was killed, or could not
\* write its number, whatever other daemons were started and refused meanwhile.
THEOREM Leftovers == Spec => []LeftoverExplained
<1>1. Init => LeftInv
  BY DEF Init, LeftInv
<1>2. OwnedInv /\ LeftInv /\ [Next]_vars => LeftInv'
  <2> SUFFICES ASSUME OwnedInv, LeftInv, [Next]_vars PROVE LeftInv'
    OBVIOUS
  <2>1. CASE \E p \in Daemons : Step(p)
    BY <2>1, LeftStep
  <2>2. ASSUME NEW p \in Daemons, Crash(p) PROVE LeftInv'
    <3> SUFFICES ASSUME pidfile # NoPidfile PROVE Answers(pidfile.by)'
      BY <2>2 DEF Crash, LeftInv
    <3>1. pidfile.by \in Daemons /\ Answers(pidfile.by)
      BY DEF LeftInv
    <3>2. /\ pidfile' = pidfile /\ created' = created /\ faulted' = faulted \cup {p}
          /\ pc' = [pc EXCEPT ![p] = "killed"] /\ pc \in [Daemons -> States]
      BY <2>2 DEF Crash, Goto, OwnedInv, TypeInv
    <3> QED
      BY <3>1, <3>2 DEF Answers
  <2>3. CASE Operator
    BY <2>3 DEF Operator, LeftInv
  <2>4. CASE Tick
    BY <2>4 DEF Tick, LeftInv, Answers
  <2>5. CASE UNCHANGED vars
    BY <2>5 DEF vars, LeftInv, Answers
  <2> QED
    BY <2>1, <2>2, <2>3, <2>4, <2>5 DEF Next
<1>3. LeftInv => LeftoverExplained
  BY DEF LeftInv, Answers, LeftoverExplained, Alive, Over, Running
<1> QED
  BY <1>1, <1>2, <1>3, OwnedInit, OwnedNext, PTL DEF Spec

-----------------------------------------------------------------------------
(* The log files.  A log that appends opens its file without emptying it,  *)
(* whatever is in the rest of its value.                                   *)

Appends(l) == "mode" \in DOMAIN l /\ l.mode = "append"

AllFiles == [LogFiles -> Seq(Daemons)]

\* Nothing that was written is gone.
Kept(fs, gs) ==
  \A f \in LogFiles : \E n \in 0..Len(gs[f]) : SubSeq(gs[f], 1, n) = fs[f]

LogInv ==
  conf.mode = "append" =>
    /\ files \in AllFiles
    /\ DOMAIN log = Daemons
    /\ \A p \in Daemons : Appends(log[p])

\* Files that stay as they are are kept.
LEMMA SameKept == ASSUME NEW fs \in AllFiles PROVE Kept(fs, fs)
<1> SUFFICES ASSUME NEW f \in LogFiles
             PROVE  \E n \in 0..Len(fs[f]) : SubSeq(fs[f], 1, n) = fs[f]
  BY DEF Kept
<1>1. fs[f] \in Seq(Daemons)
  BY DEF AllFiles
<1>2. Len(fs[f]) \in 0..Len(fs[f]) /\ SubSeq(fs[f], 1, Len(fs[f])) = fs[f]
  BY <1>1
<1> QED
  BY <1>2

\* A line more in one file.
LEMMA LineKept ==
  ASSUME NEW fs \in AllFiles, NEW f, NEW who \in Daemons
  PROVE  /\ [fs EXCEPT ![f] = Append(@, who)] \in AllFiles
         /\ Kept(fs, [fs EXCEPT ![f] = Append(@, who)])
<1> DEFINE gs == [fs EXCEPT ![f] = Append(@, who)]
<1>1. \A g \in LogFiles : fs[g] \in Seq(Daemons)
  BY DEF AllFiles
<1>2. gs \in AllFiles
  <2>1. CASE f \in LogFiles
    <3>1. Append(fs[f], who) \in Seq(Daemons)
      BY <1>1, <2>1
    <3> QED
      BY <3>1 DEF AllFiles
  <2>2. CASE f \notin LogFiles
    BY <2>2 DEF AllFiles
  <2> QED
    BY <2>1, <2>2
<1>3. ASSUME NEW g \in LogFiles
      PROVE  \E n \in 0..Len(gs[g]) : SubSeq(gs[g], 1, n) = fs[g]
  <2>1. fs[g] \in Seq(Daemons) /\ gs[g] \in {fs[g], Append(fs[g], who)}
    BY <1>1 DEF AllFiles
  <2>2. Len(fs[g]) \in 0..Len(gs[g]) /\ SubSeq(gs[g], 1, Len(fs[g])) = fs[g]
    BY <2>1
  <2> QED
    BY <2>2
<1> QED
  BY <1>2, <1>3 DEF Kept

\* log_file_open in a log that appends leaves every file as it is.
LEMMA OpenAppends ==
  ASSUME NEW l, Appends(l), NEW fs, NEW t, NEW opens
  PROVE  FileOpen(l, fs, t, opens).files = fs /\ Appends(FileOpen(l, fs, t, opens).log)
<1> DEFINE off == RotationDisable(l)
           named == IF l.path = NoPath THEN [off EXCEPT !.current = Fallback]
                    ELSE [l EXCEPT !.current = PathAt[l.path, t]]
<1>1. Appends(named)
  <2>1. Appends(off)
    BY DEF Appends, RotationDisable
  <2> HIDE DEF off
  <2> QED
    BY <2>1 DEF Appends
<1>2. \A f : Appends([named EXCEPT !.fp = f])
  <2> HIDE DEF named
  <2> QED
    BY <1>1 DEF Appends
<1>3. \A k : Appends(k) => Appends(SetNextAge(k, t))
  <2> TAKE k
  <2>1. Appends(k) => Appends([k EXCEPT !.next = t + k.age])
    BY DEF Appends
  <2> QED
    BY <2>1 DEF SetNextAge
<1>4. ~(l.mode = "create")
  BY DEF Appends
<1> HIDE DEF named
<1>5. FileOpen(l, fs, t, opens) =
        IF opens THEN Outcome(SetNextAge([named EXCEPT !.fp = named.current], t), fs)
        ELSE Outcome([named EXCEPT !.fp = NoFile], fs)
  BY <1>4 DEF FileOpen, named
<1> QED
  BY <1>2, <1>3, <1>5 DEF Outcome

\* The start of the log and each line of it keep what was written.
LEMMA LogAppends ==
  ASSUME NEW l, Appends(l), NEW fs \in AllFiles, NEW t, NEW opens
  PROVE  /\ LET done == StartLogging(l, fs, t, opens)
            IN  Appends(done.log) /\ done.files = fs
         /\ \A who \in Daemons : \A level :
              LET done == LogLine(l, fs, t, opens, who, level)
              IN  Appends(done.log) /\ done.files \in AllFiles /\ Kept(fs, done.files)
<1>1. /\ FileOpen(l, fs, t, opens).files = fs
      /\ Appends(FileOpen(l, fs, t, opens).log)
  BY OpenAppends
<1>2. Appends(StartLogging(l, fs, t, opens).log) /\ StartLogging(l, fs, t, opens).files = fs
  <2>1. Appends(RotationDisable(FileOpen(l, fs, t, opens).log))
    BY <1>1 DEF Appends, RotationDisable
  <2> QED
    BY <1>1, <2>1 DEF StartLogging, Outcome
<1>3. ASSUME NEW who \in Daemons, NEW level
      PROVE  LET done == LogLine(l, fs, t, opens, who, level)
             IN  Appends(done.log) /\ done.files \in AllFiles /\ Kept(fs, done.files)
  <2> DEFINE done == LogLine(l, fs, t, opens, who, level)
             written == [fs EXCEPT ![l.fp] = Append(@, who)]
  <2>1. CASE done = Outcome(l, fs) \/ done = Outcome([l EXCEPT !.broken = TRUE], fs)
    <3>1. Appends([l EXCEPT !.broken = TRUE])
      BY DEF Appends
    <3>2. done.log \in {l, [l EXCEPT !.broken = TRUE]} /\ done.files = fs
      <4> HIDE DEF done
      <4> QED
        BY <2>1 DEF Outcome
    <3>3. Appends(done.log) /\ done.files \in AllFiles /\ Kept(fs, done.files)
      <4> HIDE DEF done
      <4> QED
        BY <3>1, <3>2, SameKept
    <3> QED
      BY <3>3
  <2>2. written \in AllFiles /\ Kept(fs, written)
    BY LineKept
  <2>3. Appends([l EXCEPT !.fp = NoFile])
    BY DEF Appends
  <2>4. CASE done = FileRotate(l, written, t, opens) \/ done = Outcome(l, written)
    <3> HIDE DEF written
    <3>1. /\ FileOpen([l EXCEPT !.fp = NoFile], written, t, opens).files = written
          /\ Appends(FileOpen([l EXCEPT !.fp = NoFile], written, t, opens).log)
      BY <2>3, OpenAppends
    <3>2. Appends(done.log) /\ done.files = written
      BY <2>4, <3>1 DEF FileRotate, Outcome
    <3> QED
      BY <2>2, <3>2
  <2>5. \/ done = Outcome(l, fs) \/ done = Outcome([l EXCEPT !.broken = TRUE], fs)
        \/ done = FileRotate(l, written, t, opens) \/ done = Outcome(l, written)
    BY DEF LogLine
  <2> QED
    BY <2>1, <2>4, <2>5
<1> QED
  BY <1>2, <1>3

\* A step of a daemon of a configuration that appends.
LEMMA LogStep ==
  ASSUME conf.mode = "append", LogInv, NEW p \in Daemons, Step(p)
  PROVE  LogInv' /\ Kept(files, files')
<1>0. /\ files \in AllFiles /\ DOMAIN log = Daemons /\ conf' = conf
      /\ \A q \in Daemons : Appends(log[q])
  BY DEF LogInv, Step, Start, ReadConfigurations, StartsLogging, Validate, AccessPidfile,
     OpenPidfile, WritePidfile, MakeLoop, Shutdown, RemovePidfile, Error, Stop
<1>1. ASSUME NEW l, Appends(l), log' = [log EXCEPT ![p] = l],
             files' \in AllFiles, Kept(files, files')
      PROVE  LogInv' /\ Kept(files, files')
  BY <1>0, <1>1 DEF LogInv
<1>2. CASE UNCHANGED <<log, files>>
  BY <1>0, <1>2, SameKept DEF LogInv
<1>3. ASSUME NEW level, Says(p, level) PROVE LogInv' /\ Kept(files, files')
  <2>1. PICK opens \in BOOLEAN :
          /\ log' = [log EXCEPT ![p] = LogLine(log[p], files, now, opens, p, level).log]
          /\ files' = LogLine(log[p], files, now, opens, p, level).files
    BY <1>3 DEF Says
  <2> QED
    BY <1>0, <1>1, <2>1, LogAppends
<1>4. CASE ReadConfigurations(p)
  <2> DEFINE l == [type |-> conf.type, level |-> conf.level, mode |-> conf.mode,
                   path |-> conf.path, size |-> conf.size, age |-> conf.age,
                   fp |-> NoFile, current |-> NoFile, next |-> 0, broken |-> FALSE]
  <2>1. Appends(l)
    BY DEF Appends
  <2>2. files' = files /\ (UNCHANGED log \/ log' = [log EXCEPT ![p] = l])
    BY <1>4 DEF ReadConfigurations
  <2> HIDE DEF l
  <2> QED
    BY <1>0, <1>1, <1>2, <2>1, <2>2, SameKept
<1>5. CASE StartsLogging(p)
  <2>1. PICK opens \in BOOLEAN :
          /\ log' = [log EXCEPT ![p] = StartLogging(log[p], files, now, opens).log]
          /\ files' = StartLogging(log[p], files, now, opens).files
    BY <1>5 DEF StartsLogging
  <2>2. /\ Appends(StartLogging(log[p], files, now, opens).log)
        /\ StartLogging(log[p], files, now, opens).files = files
    BY <1>0, LogAppends
  <2> QED
    BY <1>0, <1>1, <2>1, <2>2, SameKept
<1>6. CASE Error(p) \/ Stop(p)
  <2>1. log' = [log EXCEPT ![p] = StopLogging(log[p])] /\ files' = files
    BY <1>6 DEF Error, Stop
  <2>2. Appends(StopLogging(log[p]))
    BY <1>0 DEF StopLogging, Appends
  <2> QED
    BY <1>0, <1>1, <2>1, <2>2, SameKept
<1> QED
  BY <1>2, <1>3, <1>4, <1>5, <1>6 DEF Step, Start, Validate, AccessPidfile, OpenPidfile,
     WritePidfile, MakeLoop, Shutdown, RemovePidfile, Quiet

\* With log_mode append no daemon loses a line of any log file: not when it starts, is
\* refused, rotates, ends or is killed, however many daemons share the file.
THEOREM LinesStay == Spec => LogKept
<1>1. Init => LogInv
  <2> SUFFICES ASSUME Init, conf.mode = "append" PROVE LogInv
    BY DEF LogInv
  <2>1. files \in AllFiles
    BY DEF Init, AllFiles
  <2>2. Appends(Console)
    BY DEF Appends, Console
  <2> QED
    BY <2>1, <2>2 DEF Init, LogInv
<1>2. ASSUME LogInv, [Next]_vars
      PROVE  LogInv' /\ (conf.mode = "append" => Kept(files, files'))
  <2>1. conf' = conf
    BY <1>2 DEF Next, vars, Step, Start, ReadConfigurations, StartsLogging, Validate,
       AccessPidfile, OpenPidfile, WritePidfile, MakeLoop, Shutdown, RemovePidfile, Error,
       Stop, Crash, Operator, Tick
  <2>2. CASE \E p \in Daemons : Step(p)
    BY <1>2, <2>1, <2>2, LogStep DEF LogInv
  <2>3. CASE UNCHANGED <<log, files>>
    BY <1>2, <2>1, <2>3, SameKept DEF LogInv
  <2> QED
    BY <1>2, <2>2, <2>3 DEF Next, Crash, Operator, Tick, vars
<1>3. LogInv /\ [Next]_vars =>
        [conf.mode = "append" =>
           \A f \in LogFiles :
             \E n \in 0..Len(files'[f]) : SubSeq(files'[f], 1, n) = files[f]]_vars
  BY <1>2 DEF Kept
<1>4. LogInv /\ [Next]_vars => LogInv'
  BY <1>2
<1> QED
  BY <1>1, <1>3, <1>4, PTL DEF Spec, LogKept
=============================================================================
