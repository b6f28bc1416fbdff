------------------------------- MODULE Reload -------------------------------
(***************************************************************************)
(* A program that has started with its configuration and reads it again:   *)
(* pgvictoria_reload_configuration over MainConfig, and the log it writes. *)
(* The files may have been edited in any way before each reading.          *)
(***************************************************************************)
EXTENDS MainConfig, FiniteSets

CONSTANTS
  MainFiles, UsersFiles,   \* what the two files can contain
  MaxLines                 \* bound on the lines of a log file

\* A file has finitely many lines.
ASSUME ReloadAssumption == \A file \in MainFiles : file \in Seq(Range(file))

VARIABLES
  phase,    \* off, running, failed: main has gone to its error path, undefined
  config,   \* the settings in use
  log,      \* the log, and its settings in use
  files,    \* the log files
  last      \* the last reading: the files, and whether a restart was asked for

vars == <<phase, config, log, files, last>>

now == 0   \* age is a matter of Daemon

\* What each file reads as.
Reading == [main \in MainFiles |-> ReadMain(main)]

Fresh(main, users) == [Reading[main].conf EXCEPT !.users = ReadUsers(users).users]

Init ==
  /\ phase = "off"
  /\ config = Initial /\ log = Console
  /\ files = [f \in LogFiles |-> <<>>]
  /\ last = [main |-> <<>>, users |-> [state |-> "missing", entries |-> <<>>], restart |-> TRUE]

\* main up to the event loop: without the users it does not come to the log, and what it
\* has is validated behind that.
Start(main, users) ==
  LET read == Reading[main]
      fresh == Fresh(main, users)
  IN /\ phase = "off"
     /\ read.defined
     /\ config' = fresh
     /\ \/ /\ ReadUsers(users).ret # 0
           /\ phase' = "failed" /\ log' = read.log /\ UNCHANGED files
        \/ /\ ReadUsers(users).ret = 0
           /\ \E opens \in BOOLEAN :
                LET started == StartLogging(read.log, files, now, opens)
                    ok == ~StartFails(read.log, opens) /\ ValidMain(fresh) /\ ValidUsers(fresh)
                IN /\ phase' = IF ok THEN "running" ELSE "failed"
                   /\ log' = started.log /\ files' = started.files
     /\ last' = [main |-> main, users |-> users, restart |-> phase' = "failed"]

\* A reading that fails leaves everything as it was and asks for a restart.
ReloadFails(main, users) ==
  LET fresh == Fresh(main, users)
  IN /\ phase = "running"
     /\ Reading[main].defined
     /\ ReadUsers(users).ret # 0 \/ ~ValidMain(fresh) \/ ~ValidUsers(fresh)
     /\ last' = [last EXCEPT !.restart = TRUE]
     /\ UNCHANGED <<phase, config, log, files>>

ReloadSucceeds(main, users) ==
  LET new == Reading[main]
      fresh == Fresh(main, users)
  IN /\ phase = "running"
     /\ new.defined
     /\ ReadUsers(users).ret = 0 /\ ValidMain(fresh) /\ ValidUsers(fresh)
     /\ config' = Transferred(config, log, fresh, new.log)
     /\ \E opens \in BOOLEAN :
          LET moved == TransferredLog(log, new.log, files, now, opens)
          IN log' = moved.log /\ files' = moved.files
     /\ last' = [main |-> main, users |-> users,
                 restart |-> NeedsRestart(config, log, fresh, new.log)]
     /\ UNCHANGED phase

\* A reader stores a server or a user outside of its array.  What becomes of a user too
\* many is not known: the reading can also come to its end and refuse the file.
Misread(main, users) ==
  /\ phase \in {"off", "running"}
  /\ ~Reading[main].defined \/ ~ReadUsers(users).defined
  /\ phase' = "undefined"
  /\ UNCHANGED <<config, log, files, last>>

\* The running program writes a line.
Write(level) ==
  /\ phase = "running"
  /\ \A f \in LogFiles : Len(files[f]) < MaxLines
  /\ \E opens \in BOOLEAN :
       LET done == LogLine(log, files, now, opens, "program", level)
       IN log' = done.log /\ files' = done.files
  /\ UNCHANGED <<phase, config, last>>

Next ==
  \/ \E m \in MainFiles, u \in UsersFiles :
       Start(m, u) \/ ReloadFails(m, u) \/ ReloadSucceeds(m, u) \/ Misread(m, u)
  \/ Write(FATAL)

Spec == Init /\ [][Next]_vars

-----------------------------------------------------------------------------
(* Properties. *)

\* After a start, and after a reload that asks for no restart, the program runs with what
\* is in the files, whatever readings came before: nothing of an earlier file is left.  The
\* prefix of the log is taken over with the log only, and the pidfile never.
Kept(c) == [c EXCEPT !.prefix = "", !.pidfile = ""]
RunsWithTheFiles ==
  phase = "running" /\ ~last.restart =>
    LET fresh == Fresh(last.main, last.users)
        want == Reading[last.main].log
    IN /\ Kept(config) = Kept(fresh)
       /\ <<log.type, log.level, log.path, log.mode>> = <<want.type, want.level, want.path, want.mode>>

\* The user of every server has a password, unless a restart was asked for: the users are
\* taken over at once and the servers are not.
UsersKnown ==
  phase = "running" /\ ~last.restart =>
    \A i \in 1..config.n : config.servers[i].user \in UserNames(config)

\* The section line a line belongs to, the sections of servers, and the last value that a
\* section sets a key to.
SectionOf(file, i) == LET before == {j \in 1..i : file[j][1] = "section"}
                      IN IF before = {} THEN 0 ELSE Max(before)
Sections(file) == {j \in DOMAIN file : file[j][1] = "section" /\ file[j][2] # "pgvictoria"}
Says(file, j, key, none) ==
  LET at == {i \in DOMAIN file : file[i][1] = "key" /\ file[i][2] = key /\ SectionOf(file, i) = j}
  IN IF at = {} THEN none ELSE file[Max(at)][3]

\* The files of which that is said: a section has a name, a server has no setting twice (what
\* is written over something longer keeps the longer one's end), and behind a server no
\* [pgvictoria] has a port or a user, which would go to the server.
Setting(file, i, key) == file[i][1] = "key" /\ file[i][2] = key
Orderly(file) ==
  /\ \A j \in Sections(file) : file[j][2] # ""
  /\ \A key \in {"host", "port", "user"} : \A i, k \in DOMAIN file :
       /\ Setting(file, i, key) /\ Setting(file, k, key)
       /\ SectionOf(file, i) = SectionOf(file, k) /\ SectionOf(file, i) \in Sections(file)
       => i = k
  /\ \A key \in {"port", "user"} : \A j \in Sections(file) : \A i \in DOMAIN file :
       i > j /\ Setting(file, i, key) => SectionOf(file, i) \in Sections(file)

\* A server has what the lines of its own section say, and nothing of another section,
\* when no line of [pgvictoria] follows it (pgvictoria_read_main_configuration).
ServersAsWritten ==
  phase = "running" /\ ~last.restart =>
    \A j \in Sections(last.main) :
      LET i == Cardinality({k \in Sections(last.main) : k <= j})
          server == config.servers[i]
          port == AsInt(Says(last.main, j, "port", <<>>))
      IN /\ server.name = last.main[j][2]
         /\ server.host = Says(last.main, j, "host", "")
         /\ server.user = Says(last.main, j, "user", "")
         /\ server.port = IF port.ret = 0 THEN port.val ELSE 0
=============================================================================
