----------------------------- MODULE MainConfig -----------------------------
(***************************************************************************)
(* pgvictoria.conf and pgvictoria_users.conf: how they are read, validated *)
(* and, when they are read again, transferred into the configuration that  *)
(* is in use (configuration.c).  The fields of the log are in a value of   *)
(* Logging, the rest in a record of settings.                              *)
(*                                                                         *)
(* A file is a sequence of lines: a section <<"section", name>>, a setting *)
(* <<"key", key, value>> as Values extracts it, or <<"junk">>.  A string   *)
(* is a TLA+ string, a number the sequence of its characters.              *)
(***************************************************************************)
EXTENDS Values, Logging

CONSTANTS
  NUMBER_OF_SERVERS, NUMBER_OF_USERS,
  Directories,   \* the paths at which stat finds a directory
  Long           \* the strings that are longer than those that are not in Long

ASSUME MainConfigAssumption ==
  NUMBER_OF_SERVERS \in Nat \ {0} /\ NUMBER_OF_USERS \in Nat \ {0} /\ "" \notin Long

NoServer == [name |-> "", host |-> "", port |-> 0, user |-> ""]
NoUser == <<"", "">>

\* pgvictoria_init_main_configuration, in memory that is zero.
Initial == [host |-> "", dir |-> "", pidfile |-> "", libev |-> "", prefix |-> "",
            title |-> "verbose", hugepage |-> "try",
            servers |-> [i \in 1..NUMBER_OF_SERVERS |-> NoServer], n |-> 0, users |-> <<>>]

\* memcpy of a string without its end: what was longer before shows behind it.
Over(old, new) == IF old \in Long /\ new \notin Long THEN new \o "~" \o old ELSE new

LoggingType(v) == IF v \in {"file", "syslog"} THEN v ELSE "console"
LoggingMode(v) == IF v \in {"c", "create"} THEN "create" ELSE "append"
LoggingLevel(v) ==
  CASE v \in {"debug", "debug0", "debug1"} -> 2
    [] v \in {"debug2", "debug3", "debug4", "debug5", "debug9"} -> 1
    [] v = "warn" -> 4 [] v = "error" -> 5 [] v = "fatal" -> FATAL
    [] OTHER -> INFO
Hugepage(v) == IF v \in {"try", "on"} THEN v ELSE "off"
ProcessTitle(v) ==
  CASE v \in {"never", "off"} -> "never"
    [] v \in {"strict", "minimal"} -> v
    [] OTHER -> "verbose"

-----------------------------------------------------------------------------
(* pgvictoria_read_main_configuration. *)

\* A setting of the section [pgvictoria]; a size or an age that cannot be read is off.
SetMain(s, k, v) ==
  CASE k = "host"                 -> [s EXCEPT !.conf.host = Over(@, v)]
    [] k = "pidfile"              -> [s EXCEPT !.conf.pidfile = Over(@, v)]
    [] k = "unix_socket_dir"      -> [s EXCEPT !.conf.dir = Over(@, v)]
    [] k = "libev"                -> [s EXCEPT !.conf.libev = Over(@, v)]
    [] k = "log_line_prefix"      -> [s EXCEPT !.conf.prefix = Over(@, v)]
    [] k = "update_process_title" -> [s EXCEPT !.conf.title = ProcessTitle(v)]
    [] k = "hugepage"             -> [s EXCEPT !.conf.hugepage = Hugepage(v)]
    [] k = "log_type"             -> [s EXCEPT !.log.type = LoggingType(v)]
    [] k = "log_level"            -> [s EXCEPT !.log.level = LoggingLevel(v)]
    [] k = "log_mode"             -> [s EXCEPT !.log.mode = LoggingMode(v)]
    [] k = "log_path"             -> [s EXCEPT !.log.path = Over(@, v)]
    [] k = "log_rotation_size"    -> [s EXCEPT !.log.size = AsBytes(v).val]
    [] k = "log_rotation_age"     -> [s EXCEPT !.log.age = AsSeconds(v).val]
    [] OTHER -> s

\* port and user go to the server that is being read, also in the section [pgvictoria];
\* host and user write the name of the section over the server's name once more.
SetServer(s, k, v) ==
  CASE k = "host" -> [s EXCEPT !.srv.name = Over(@, s.section), !.srv.host = Over(@, v)]
    [] k = "port" -> IF AsInt(v).ret = 0 THEN [s EXCEPT !.srv.port = AsInt(v).val] ELSE s
    [] k = "user" -> [s EXCEPT !.srv.name = Over(@, s.section), !.srv.user = Over(@, v)]

ReadKey(s, k, v) ==
  IF k \in {"port", "user"} \/ (k = "host" /\ s.section # "pgvictoria")
  THEN IF s.section # "" THEN SetServer(s, k, v) ELSE s
  ELSE IF s.section = "pgvictoria" THEN SetMain(s, k, v) ELSE s

Stored(s) == [s.conf.servers EXCEPT ![s.idx] = s.srv]

\* Mutant of ReadSection: the server's fields are not cleared for the next one.
ReadSectionKeeps(s, name) ==
  IF name = "pgvictoria" THEN [s EXCEPT !.section = name]
  ELSE [s EXCEPT !.section = name,
                 !.conf.servers = IF s.idx \in 1..NUMBER_OF_SERVERS THEN Stored(s) ELSE @,
                 !.srv = [@ EXCEPT !.name = name],
                 !.idx = @ + 1]

\* A section that is no [pgvictoria] stores the server before it and begins another.
ReadSection(s, name) ==
  IF name = "pgvictoria" THEN [s EXCEPT !.section = name]
  ELSE [s EXCEPT !.section = name,
                 !.conf.servers = IF s.idx \in 1..NUMBER_OF_SERVERS THEN Stored(s) ELSE @,
                 !.srv = [NoServer EXCEPT !.name = name],
                 !.idx = @ + 1]

ReadLine(s, l) ==
  CASE l[1] = "section" -> ReadSection(s, l[2])
    [] l[1] = "key"     -> ReadKey(s, l[2], l[3])
    [] OTHER            -> s

\* The last server is stored without a look at its index: that is undefined when there
\* is no server section, but a user in [pgvictoria], or when there are too many.
LastStored(s) ==
  LET stores == s.srv.name # ""
  IN [defined |-> stores => s.idx \in 1..NUMBER_OF_SERVERS,
      log |-> s.log,
      conf |-> [s.conf EXCEPT !.servers = IF stores /\ s.idx \in 1..NUMBER_OF_SERVERS
                                          THEN Stored(s) ELSE @,
                              !.n = s.idx]]

Unread == [conf |-> Initial, log |-> Console, section |-> "", srv |-> NoServer, idx |-> 0]

ReadMain(file) == LastStored(FoldLeft(ReadLine, Unread, file))

-----------------------------------------------------------------------------
(* The users file, and validation. *)

\* pgvictoria_read_users_configuration: 1 no file or a line that cannot be decrypted, 2 no
\* key, 3 too many entries, of which those behind the array have been stored in it; an
\* entry whose name or password is too long leaves a blank.
ReadUsers(u) ==
  [defined |-> u.state \in {"missing", "nokey"} \/ Len(u.entries) <= NUMBER_OF_USERS,
   ret |-> CASE u.state = "missing" -> 1
             [] u.state = "nokey"   -> 2
             [] u.state = "badline" -> 1
             [] Len(u.entries) > NUMBER_OF_USERS -> 3
             [] OTHER -> 0,
   users |-> [i \in DOMAIN u.entries |->
                IF u.entries[i][1] \in Long THEN NoUser ELSE u.entries[i]]]

ValidMain(c) ==
  /\ c.host # ""
  /\ c.dir \in Directories
  /\ c.n > 0
  /\ \A i \in 1..c.n : /\ c.servers[i].name \notin {"pgvictoria", "all"}
                       /\ c.servers[i].host # "" /\ c.servers[i].port # 0
                       /\ c.servers[i].user # ""

UserNames(c) == {c.users[j][1] : j \in DOMAIN c.users}

\* Mutant of ValidUsers: found is not reset for the next server.
ValidUsersOnce(c) ==
  c.users # <<>> /\ \A i \in 1..c.n : \E j \in 1..i : c.servers[j].user \in UserNames(c)

ValidUsers(c) ==
  c.users # <<>> /\ \A i \in 1..c.n : c.servers[i].user \in UserNames(c)

-----------------------------------------------------------------------------
(* pgvictoria_reload_configuration. *)

\* Mutant of NeedsRestart: the library of the event loop is not compared.
NeedsRestartNoLibev(c, l, new, newLog) ==
  \/ c.host # new.host \/ l.type # newLog.type
  \/ c.hugepage # new.hugepage \/ c.title # new.title \/ c.dir # new.dir
  \/ c.servers # new.servers \/ c.n # new.n

\* What is compared and kept: a difference asks for a restart.
NeedsRestart(c, l, new, newLog) ==
  \/ c.host # new.host \/ l.type # newLog.type \/ c.libev # new.libev
  \/ c.hugepage # new.hugepage \/ c.title # new.title \/ c.dir # new.dir
  \/ c.servers # new.servers \/ c.n # new.n

RestartsLog(l, newLog) ==
  l.path # newLog.path \/ l.size # newLog.size \/ l.age # newLog.age \/ l.mode # newLog.mode

\* What is taken over: the users, and the prefix only when the log is restarted.
Transferred(c, l, new, newLog) ==
  [c EXCEPT !.users = new.users, !.prefix = IF RestartsLog(l, newLog) THEN new.prefix ELSE @]

\* The log is stopped, gets its new fields, and is started.
TransferredLog(l, newLog, fs, now, opens) ==
  LET level == [l EXCEPT !.level = newLog.level]
      fields == [StopLogging(level) EXCEPT !.path = newLog.path, !.mode = newLog.mode,
                                           !.size = newLog.size, !.age = newLog.age]
  IN IF RestartsLog(l, newLog) THEN StartLogging(fields, fs, now, opens)
     ELSE Outcome(level, fs)
=============================================================================
