------------------------------ MODULE Logging ------------------------------
(***************************************************************************)
(* logging.c: the log of one process.  log_file is static and a process    *)
(* has one thread, so the log is a value of the process and its operations *)
(* are functions of that value and of the log files on disk, which other   *)
(* processes may share.  A log file is the sequence of those who wrote its *)
(* lines.                                                                  *)
(***************************************************************************)
EXTENDS Naturals, Sequences

CONSTANTS
  LogFiles,   \* the log files there can be
  PathAt,     \* the file a log_path names at a time: strftime of log_path
  NoPath,     \* log_path is not set
  Fallback,   \* "pgvictoria.log"
  NoFile,     \* log_file is NULL
  Closed      \* log_file is a stream that fclose has closed

ASSUME LoggingAssumption ==
  /\ Fallback \in LogFiles
  /\ NoFile \notin LogFiles /\ Closed \notin LogFiles /\ NoFile # Closed

INFO == 3
FATAL == 6

\* What pgvictoria_init_main_configuration leaves, and the statics of logging.c.
Console == [type |-> "console", level |-> INFO, mode |-> "append", path |-> NoPath,
            size |-> 0, age |-> 0, fp |-> NoFile, current |-> NoFile, next |-> 0, broken |-> FALSE]

\* A log and the files, as an operation leaves them.
Outcome(l, fs) == [log |-> l, files |-> fs]

IsFile(l) == l.type = "file"
RotationDisable(l) == [l EXCEPT !.age = 0, !.size = 0, !.next = 0]
RotationEnabled(l) == IsFile(l) /\ (l.age # 0 \/ l.size # 0)

\* The calls of stat and fopen work on the name that was opened last.
RotationRequired(l, fs, now) ==
  /\ RotationEnabled(l)
  /\ \/ l.size > 0 /\ Len(fs[l.current]) >= l.size
     \/ l.age > 0 /\ l.next > 0 /\ l.next <= now

SetNextAge(l, now) == IF l.age > 0 THEN [l EXCEPT !.next = now + l.age] ELSE l

\* Mutant of FileOpen: mode "w" whenever no log file is open.
FileOpenEmpties(l, fs, now, opens) ==
  LET named == IF l.path = NoPath THEN [RotationDisable(l) EXCEPT !.current = Fallback]
               ELSE [l EXCEPT !.current = PathAt[l.path, now]]
  IN IF opens
     THEN Outcome(SetNextAge([named EXCEPT !.fp = named.current], now),
                  IF l.fp = NoFile THEN [fs EXCEPT ![named.current] = <<>>] ELSE fs)
     ELSE Outcome([named EXCEPT !.fp = NoFile], fs)

\* mode "w" empties the file, and only when the process has no log file open.
\* opens: whether fopen succeeds.
FileOpen(l, fs, now, opens) ==
  LET named == IF l.path = NoPath THEN [RotationDisable(l) EXCEPT !.current = Fallback]
               ELSE [l EXCEPT !.current = PathAt[l.path, now]]
      empties == l.mode = "create" /\ l.fp = NoFile
  IN IF opens
     THEN Outcome(SetNextAge([named EXCEPT !.fp = named.current], now),
                  IF empties THEN [fs EXCEPT ![named.current] = <<>>] ELSE fs)
     ELSE Outcome([named EXCEPT !.fp = NoFile], fs)

FileRotate(l, fs, now, opens) ==
  IF RotationEnabled(l) THEN FileOpen([l EXCEPT !.fp = NoFile], fs, now, opens)
  ELSE Outcome(l, fs)

StartLogging(l, fs, now, opens) ==
  IF IsFile(l) /\ l.fp = NoFile
  THEN LET opened == FileOpen(l, fs, now, opens)
       IN IF opened.log.fp = NoFile THEN Outcome(RotationDisable(opened.log), fs) ELSE opened
  ELSE Outcome(l, fs)

StartFails(l, opens) == IsFile(l) /\ l.fp = NoFile /\ ~opens

\* fclose of a stream that is closed already is undefined.
StopLogging(l) ==
  IF IsFile(l) /\ l.fp # NoFile
  THEN [l EXCEPT !.fp = Closed, !.broken = @ \/ l.fp = Closed]
  ELSE l

\* pgvictoria_log_line of a message at a level.  Without a log file the line goes to
\* stderr; a line to a closed stream is undefined; the rotation comes after the line.
LogLine(l, fs, now, opens, who, level) ==
  IF level < l.level \/ ~IsFile(l) \/ l.fp = NoFile THEN Outcome(l, fs)
  ELSE IF l.fp = Closed THEN Outcome([l EXCEPT !.broken = TRUE], fs)
  ELSE LET written == [fs EXCEPT ![l.fp] = Append(@, who)]
       IN IF RotationRequired(l, written, now) THEN FileRotate(l, written, now, opens)
          ELSE Outcome(l, written)

=============================================================================
