-------------------------------- MODULE Cli --------------------------------
(***************************************************************************)
(* The command line of pgvictoria-cli: cmd_parse, parse_command and main,  *)
(* up to the report main asks for.  A word is an option, by its letter and *)
(* with or without a value behind an equals sign, or it is text; the long  *)
(* name of an option is not told from the short one.                       *)
(***************************************************************************)
EXTENDS Report

CONSTANTS
  NumberOf,    \* the texts that are numbers, and their numbers
  Extension,   \* the formats of the output names that have an extension
  TooLong,     \* the texts that fit into no field
  ServerFiles, \* the configuration files that can be read: the server each begins with
  UserFiles    \* the users files that can be read: a sequence of users

ASSUME CliAssumption == "" \notin TooLong /\ DOMAIN NumberOf \cap TooLong = {}

Flag == {"V", "?"}
WithArgument == {"c", "u", "H", "P", "U", "W", "pg", "f", "t", "o"}
MaxResults == Cardinality(Flag \cup WithArgument)
None == "none"

IsOption(w) == w.kind # "text"
TakesArgument(w) == w.kind = "option" /\ w.text \in WithArgument

-----------------------------------------------------------------------------
(* cmd_parse: the words are sorted, then read. *)

\* First the options that need no argument, the unknown ones included.
Flags(ws) == SelectSeq(ws, LAMBDA w : w.kind = "option" /\ ~TakesArgument(w))

\* Then the options that have an argument, each with it.
Arguments(ws) ==
  FlattenSeq([i \in DOMAIN ws |->
    IF ws[i].kind = "joined" THEN <<ws[i]>>
    ELSE IF ~TakesArgument(ws[i]) THEN <<>>
    ELSE IF i < Len(ws) /\ ~IsOption(ws[i + 1]) THEN <<ws[i], ws[i + 1]>>
    ELSE <<ws[i]>>])

\* Mutant of Texts: the argument of an option is taken for a text as well.
TextsAll(ws) == SelectSeq(ws, LAMBDA w : ~IsOption(w))

\* Last the texts that are no argument.
Texts(ws) ==
  FlattenSeq([i \in DOMAIN ws |->
    IF IsOption(ws[i]) \/ (i > 1 /\ TakesArgument(ws[i - 1])) THEN <<>> ELSE <<ws[i]>>])

Sorted(ws) == Flags(ws) \o Arguments(ws) \o Texts(ws)

\* Reading stops at a text and at an option it does not know; a joined one is never known.
ReadWord(s, w) ==
  CASE s.bad -> s
    [] s.stopped -> [s EXCEPT !.left = Append(@, w)]
    [] s.open # None -> IF IsOption(w) THEN [s EXCEPT !.bad = TRUE]
                        ELSE [s EXCEPT !.open = None, !.results = Append(@, <<s.open, w.text>>)]
    [] w.kind = "option" /\ Len(s.results) < MaxResults /\ w.text \in WithArgument ->
         [s EXCEPT !.open = w.text]
    [] w.kind = "option" /\ Len(s.results) < MaxResults /\ w.text \in Flag ->
         [s EXCEPT !.results = Append(@, <<w.text, "">>)]
    [] OTHER -> [s EXCEPT !.stopped = TRUE, !.left = <<w>>]

CmdParse(ws) ==
  LET s == FoldLeft(ReadWord, [results |-> <<>>, open |-> None, stopped |-> FALSE,
                               left |-> <<>>, bad |-> FALSE], Sorted(ws))
  IN [s EXCEPT !.bad = @ \/ s.open # None]

\* parse_command with the one command there is: report has no subcommand, which an empty
\* text is, and takes one argument or none.
ParseCommand(left) ==
  LET rest == From(left, IF Len(left) > 1 /\ left[2].text = "" THEN 3 ELSE 2)
  IN [ok |-> left # <<>> /\ left[1] = [kind |-> "text", text |-> "report"] /\ Len(rest) < 2,
      file |-> IF rest = <<>> THEN None ELSE rest[1].text]

-----------------------------------------------------------------------------
(* main: the options in the order they were read. *)

FormatOf == [f \in {"text", "html", "md", "markdown"} |-> IF f = "markdown" THEN "md" ELSE f]

StartOptions ==
  [exit |-> -1, port |-> 5432, version |-> 0, format |-> None, type |-> "changed"]
  @@ [o \in {"c", "u", "H", "U", "W", "o"} |-> None]

\* An option that cannot be taken ends the program at once, and so do -V and -?.
Option(s, r) ==
  LET o == r[1]
      a == r[2]
      Exits(code) == [s EXCEPT !.exit = code]
  IN CASE s.exit # -1 -> s
       [] o = "V" -> Exits(1)
       [] o = "?" -> Exits(0)
       [] o = "P" -> IF a \in DOMAIN NumberOf /\ NumberOf[a] \in 1..65535
                     THEN [s EXCEPT !.port = NumberOf[a]] ELSE Exits(1)
       [] o = "pg" -> IF a \in DOMAIN NumberOf /\ Supported(NumberOf[a])
                      THEN [s EXCEPT !.version = NumberOf[a]] ELSE Exits(1)
       [] o = "f" -> IF a \in DOMAIN FormatOf THEN [s EXCEPT !.format = FormatOf[a]] ELSE Exits(1)
       [] o = "t" -> IF a \in {"changed", "full"} THEN [s EXCEPT !.type = a] ELSE Exits(1)
       [] o = "o" /\ a \in TooLong -> Exits(1)
       [] OTHER -> [s EXCEPT ![o] = a]

Given(a) == a # None

\* The server the report is about: that of the file, unless the line says something of its own.
FreshServer(s, path) == \/ path \notin DOMAIN ServerFiles
                        \/ Given(s.H) \/ Given(s.U) \/ s.port # 5432
Target(s, path) ==
  IF ~FreshServer(s, path) THEN ServerFiles[path]
  ELSE [host |-> IF Given(s.H) THEN s.H ELSE "127.0.0.1", port |-> s.port,
        user |-> IF Given(s.U) THEN s.U ELSE "postgres"]

FreshUsers(s, path, pgpass) == \/ path \notin DOMAIN UserFiles
                               \/ Given(s.U) \/ Given(s.W) \/ Given(pgpass)

\* Mutant of Users: a password of the environment comes before the one of the line.
UsersEnvironment(s, path, pgpass) ==
  IF ~FreshUsers(s, path, pgpass) THEN UserFiles[path]
  ELSE << [user |-> IF Given(s.U) THEN s.U ELSE "postgres",
           password |-> IF Given(pgpass) THEN pgpass ELSE IF Given(s.W) THEN s.W ELSE ""] >>

Users(s, path, pgpass) ==
  IF ~FreshUsers(s, path, pgpass) THEN UserFiles[path]
  ELSE << [user |-> IF Given(s.U) THEN s.U ELSE "postgres",
           password |-> IF Given(s.W) THEN s.W ELSE IF Given(pgpass) THEN pgpass ELSE ""] >>

\* The password of the server's user; without one, that of the first user there is.
PasswordOf(users, server) ==
  LET known == SelectSeq(users, LAMBDA u : u.user = server.user)
  IN IF known # <<>> /\ known[1].password # "" THEN known[1].password
     ELSE IF users # <<>> THEN users[1].password ELSE ""

Ends(code) == [asks |-> "nothing", exit |-> code]
Path(a, default) == IF Given(a) THEN a ELSE default

\* What main does with a line, as another user than root or as root: it ends, or it asks
\* for a report on a file or on a server.
Main(ws, root, pgpass) ==
  LET parsed == CmdParse(ws)
      s == FoldLeft(Option, StartOptions, parsed.results)
      command == ParseCommand(parsed.left)
      confPath == Path(s.c, "pgvictoria.conf")
      usersPath == Path(s.u, "pgvictoria_users.conf")
      server == Target(s, confPath)
      format == IF Given(s.format) THEN s.format
                ELSE IF s.o \in DOMAIN Extension THEN Extension[s.o] ELSE "text"
      report == [exit |-> 0, format |-> format, type |-> s.type, output |-> s.o]
  IN IF parsed.bad THEN Ends(1)
     ELSE IF s.exit # -1 THEN Ends(s.exit)
     ELSE IF root \/ ~command.ok THEN Ends(1)
     ELSE IF FreshServer(s, confPath) /\ {s.H, s.U} \cap TooLong # {} THEN Ends(1)
     ELSE IF FreshUsers(s, usersPath, pgpass) /\ {s.U, s.W, pgpass} \cap TooLong # {} THEN Ends(1)
     ELSE IF s.o \in {None, ""} THEN Ends(1)
     ELSE IF Given(command.file)
     THEN report @@ [asks |-> "file", file |-> command.file, version |-> s.version]
     ELSE report @@ [asks |-> "server", server |-> server,
                     password |-> PasswordOf(Users(s, usersPath, pgpass), server)]
=============================================================================
