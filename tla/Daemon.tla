------------------------------- MODULE Daemon -------------------------------
(***************************************************************************)
(* pgvictoria, the daemon: main, create_pidfile and remove_pidfile, and    *)
(* the log of each daemon (Logging).  The daemons of one machine share the *)
(* configuration, the pidfile and the log files and take their steps in    *)
(* any order; each can be killed between two of them.  main destroys its   *)
(* event loop right after it has made it, so a daemon runs no handler.     *)
(***************************************************************************)
EXTENDS Logging

CONSTANTS
  Daemons,    \* the processes that are started
  Settings,   \* the logging sections pgvictoria.conf can have
  MaxTime,    \* bound on the clock
  NoPidfile   \* the name does not exist

ASSUME DaemonAssumption ==
  /\ MaxTime \in Nat
  /\ NoPidfile \notin [by : Daemons, pid : BOOLEAN]

VARIABLES
  conf,      \* the logging section of pgvictoria.conf
  pidfile,   \* NoPidfile, or who created it and whether its number is in it
  pc,        \* where each daemon is in main
  created,   \* pid_file_created of each daemon
  log,       \* the log of each daemon
  files,     \* the log files
  now,       \* the clock
  faulted    \* the daemons that were killed or whose write of the pidfile failed

vars == <<conf, pidfile, pc, created, log, files, now, faulted>>

Over == {"ended", "failed", "killed"}
Alive(p) == pc[p] \notin Over \cup {"off"}
Goto(p, at) == pc' = [pc EXCEPT ![p] = at]

\* The daemon p writes a line of the given level.
Says(p, level) ==
  \E opens \in BOOLEAN :
    LET done == LogLine(log[p], files, now, opens, p, level)
    IN log' = [log EXCEPT ![p] = done.log] /\ files' = done.files

Quiet == UNCHANGED <<log, files>>

Init ==
  /\ conf \in Settings
  /\ pidfile = NoPidfile
  /\ pc = [p \in Daemons |-> "off"]
  /\ created = [p \in Daemons |-> FALSE]
  /\ log = [p \in Daemons |-> Console]
  /\ files = [f \in LogFiles |-> <<>>]
  /\ now = 0
  /\ faulted = {}

\* The command line, root, the configuration directory: exit(1), or on with main.
Start(p) ==
  /\ pc[p] = "off"
  /\ Goto(p, "read") \/ Goto(p, "failed")
  /\ UNCHANGED <<conf, pidfile, created, log, files, now, faulted>>

\* The configuration and the users are read; each may be missing or refused.
ReadConfigurations(p) ==
  /\ pc[p] = "read"
  /\ \/ Goto(p, "error") /\ UNCHANGED log
     \/ /\ log' = [log EXCEPT ![p] = [type |-> conf.type, level |-> conf.level, mode |-> conf.mode,
                                      path |-> conf.path, size |-> conf.size, age |-> conf.age,
                                      fp |-> NoFile, current |-> NoFile, next |-> 0, broken |-> FALSE]]
        /\ Goto(p, "error") \/ Goto(p, "logging")
  /\ UNCHANGED <<conf, pidfile, created, files, now, faulted>>

StartsLogging(p) ==
  /\ pc[p] = "logging"
  /\ \E opens \in BOOLEAN :
       LET done == StartLogging(log[p], files, now, opens)
       IN /\ log' = [log EXCEPT ![p] = done.log]
          /\ files' = done.files
          /\ Goto(p, IF StartFails(log[p], opens) THEN "error" ELSE "validate")
  /\ UNCHANGED <<conf, pidfile, created, now, faulted>>

\* Validation of both configurations: a line says what is wrong.
Validate(p) ==
  /\ pc[p] = "validate"
  /\ \/ Goto(p, "error") /\ Says(p, FATAL)
     \/ Goto(p, "access") /\ Quiet
  /\ UNCHANGED <<conf, pidfile, created, now, faulted>>

AccessPidfile(p) ==
  /\ pc[p] = "access"
  /\ IF pidfile # NoPidfile THEN Goto(p, "error") /\ Says(p, FATAL)
     ELSE Goto(p, "create") /\ Quiet
  /\ UNCHANGED <<conf, pidfile, created, now, faulted>>

\* Mutant of OpenPidfile: create_pidfile without O_EXCL.
OpenPidfileAnyway(p) ==
  /\ pc[p] = "create"
  /\ \/ /\ pidfile' = [by |-> p, pid |-> FALSE]
        /\ Goto(p, "write")
     \/ Goto(p, "error") /\ UNCHANGED pidfile
  /\ UNCHANGED <<conf, created, log, files, now, faulted>>

\* open with O_CREAT | O_EXCL: it fails when the name exists, and for other reasons.
OpenPidfile(p) ==
  /\ pc[p] = "create"
  /\ \/ /\ pidfile = NoPidfile
        /\ pidfile' = [by |-> p, pid |-> FALSE]
        /\ Goto(p, "write")
     \/ Goto(p, "error") /\ UNCHANGED pidfile
  /\ UNCHANGED <<conf, created, log, files, now, faulted>>

\* Mutant of WritePidfile: main without pid_file_created = true.
WritePidfileForgotten(p) ==
  /\ pc[p] = "write"
  /\ \/ /\ pidfile' = [pidfile EXCEPT !.pid = TRUE]
        /\ Goto(p, "loop")
        /\ UNCHANGED <<created, faulted>>
     \/ /\ Goto(p, "error")
        /\ faulted' = faulted \cup {p}
        /\ UNCHANGED <<pidfile, created>>
  /\ UNCHANGED <<conf, log, files, now>>

\* The number is written.  When that fails the file stays, and nothing remembers it.
WritePidfile(p) ==
  /\ pc[p] = "write"
  /\ \/ /\ pidfile' = [pidfile EXCEPT !.pid = TRUE]
        /\ created' = [created EXCEPT ![p] = TRUE]
        /\ Goto(p, "loop")
        /\ UNCHANGED faulted
     \/ /\ Goto(p, "error")
        /\ faulted' = faulted \cup {p}
        /\ UNCHANGED <<pidfile, created>>
  /\ UNCHANGED <<conf, log, files, now>>

\* The event loop is made, or the program says that it cannot be.
MakeLoop(p) ==
  /\ pc[p] = "loop"
  /\ \/ Goto(p, "error") /\ Says(p, FATAL)
     \/ Goto(p, "shutdown") /\ Says(p, INFO)
  /\ UNCHANGED <<conf, pidfile, created, now, faulted>>

Shutdown(p) ==
  /\ pc[p] = "shutdown"
  /\ Goto(p, "remove") /\ Says(p, INFO)
  /\ UNCHANGED <<conf, pidfile, created, now, faulted>>

\* access and unlink of the name, whoever created the file that has it now.
RemovePidfile(p) ==
  /\ pc[p] = "remove"
  /\ pidfile' = NoPidfile
  /\ Goto(p, "stop")
  /\ UNCHANGED <<conf, created, log, files, now, faulted>>

Error(p) ==
  /\ pc[p] = "error"
  /\ IF created[p] THEN pidfile' = NoPidfile /\ created' = [created EXCEPT ![p] = FALSE]
     ELSE UNCHANGED <<pidfile, created>>
  /\ log' = [log EXCEPT ![p] = StopLogging(@)]
  /\ Goto(p, "failed")
  /\ UNCHANGED <<conf, files, now, faulted>>

Stop(p) ==
  /\ pc[p] = "stop"
  /\ log' = [log EXCEPT ![p] = StopLogging(@)]
  /\ Goto(p, "ended")
  /\ UNCHANGED <<conf, pidfile, created, files, now, faulted>>

-----------------------------------------------------------------------------
(* The surroundings. *)

Crash(p) ==
  /\ Alive(p)
  /\ Goto(p, "killed")
  /\ faulted' = faulted \cup {p}
  /\ UNCHANGED <<conf, pidfile, created, log, files, now>>

\* An operator removes a pidfile that was left, when no daemon is there.
Operator ==
  /\ pidfile # NoPidfile
  /\ \A p \in Daemons : ~Alive(p)
  /\ pidfile' = NoPidfile
  /\ UNCHANGED <<conf, pc, created, log, files, now, faulted>>

Tick ==
  /\ now < MaxTime
  /\ now' = now + 1
  /\ UNCHANGED <<conf, pidfile, pc, created, log, files, faulted>>

Step(p) ==
  \/ Start(p) \/ ReadConfigurations(p) \/ StartsLogging(p) \/ Validate(p)
  \/ AccessPidfile(p) \/ OpenPidfile(p) \/ WritePidfile(p)
  \/ MakeLoop(p) \/ Shutdown(p) \/ RemovePidfile(p) \/ Error(p) \/ Stop(p)

Next == (\E p \in Daemons : Step(p) \/ Crash(p)) \/ Operator \/ Tick

Spec == Init /\ [][Next]_vars

-----------------------------------------------------------------------------
(* Properties. *)

\* A daemon that has said it created the pidfile owns it until it removes it: there is
\* one such daemon at a time, and its number is in the file.
Holds(p) == created[p] /\ pc[p] \in {"loop", "shutdown", "remove", "error"}
PidfileOwned == \A p \in Daemons : Holds(p) => pidfile = [by |-> p, pid |-> TRUE]

\* A pidfile that outlives its daemon is the leftover of a killed one, or of one that
\* could not write its number: every other way out of main removes it.
LeftoverExplained ==
  pidfile # NoPidfile => Alive(pidfile.by) \/ pidfile.by \in faulted

\* With log_mode append no line that was written is lost: not when a daemon starts,
\* is refused, rotates the log or ends, and not by what another daemon does.
LogKept ==
  [][conf.mode = "append" =>
       \A f \in LogFiles : \E n \in 0..Len(files'[f]) : SubSeq(files'[f], 1, n) = files[f]]_vars

=============================================================================
