------------------------------ MODULE ConfigFile ------------------------------
(***************************************************************************)
(* pgvictoria-config `init | set | del` on a configuration file, one       *)
(* command at a time, any of which may be killed.  Each writes the whole   *)
(* new file under the name "<file>.tmp" and renames it.  get and ls only   *)
(* read.                                                                   *)
(*                                                                         *)
(* Bounds: MaxEdits, the commands run; MaxServers, the servers that a       *)
(* person adds to a file before answering no.                              *)
(***************************************************************************)
EXTENDS ConfigLines

CONSTANTS
  MainSection,    \* the section of pgvictoria or pgvictoria-cli itself
  Host,           \* the key that init gives a value
  Files,          \* the files that may be there before the first command
  MaxEdits,
  MaxServers

ASSUME ConfigAssumption ==
  /\ MainSection \in Sections /\ Host \in ConfKeys
  /\ NoValue \notin Values \union {Garbled}
  /\ Files \subseteq Seq(Line)
  /\ MaxEdits \in Nat /\ MaxServers \in Nat

VARIABLES
  conf,     \* the file: whether it exists, its lines, its permissions
  tmp,      \* the temporary file
  job,      \* the command that runs
  out,      \* the lines it will write
  edits     \* how many commands have been run

vars == <<conf, tmp, job, out, edits>>

File(lines, mode) == [exists |-> TRUE, lines |-> lines, mode |-> mode]
NoFile == [exists |-> FALSE, lines |-> <<>>, mode |-> "umask"]

Ended == {"idle", "success", "failure", "killed"}
NoJob(pc) == [pc |-> pc, cmd |-> "none", section |-> "", key |-> "", val |-> NoValue]

Init ==
  /\ conf \in {NoFile} \union {File(f, "0600") : f \in Files}
  /\ tmp = NoFile
  /\ job = NoJob("idle")
  /\ out = <<>>
  /\ edits = 0

Goto(pc) == job' = [job EXCEPT !.pc = pc]
End(pc) == job' = NoJob(pc) /\ out' = <<>>

-----------------------------------------------------------------------------
\* main: the arguments.  The key "" of a del stands for the section.
Start ==
  /\ job.pc \in Ended /\ edits < MaxEdits
  /\ edits' = edits + 1
  /\ \/ job' = [NoJob("ask") EXCEPT !.cmd = "init"]
     \/ \E s \in Sections, k \in ConfKeys, v \in Values :
          job' = [pc |-> "read", cmd |-> "set", section |-> s, key |-> k, val |-> v]
     \/ \E s \in Sections, k \in ConfKeys \union {""} :
          job' = [pc |-> "read", cmd |-> "del", section |-> s, key |-> k, val |-> NoValue]
  /\ UNCHANGED <<conf, tmp, out>>

\* set, del: the file is read, closed and edited.  set makes a file that is not
\* there, del refuses what is not there.
ReadConf ==
  /\ job.pc = "read"
  /\ LET f == conf.lines
         s == job.section
     IN  \/ /\ job.cmd = "set"
            /\ Goto("open") /\ out' = SetLines(f, s, job.key, job.val)
         \/ /\ job.cmd = "del"
            /\ HeadersOf(f, s) = {} \/ (job.key # "" /\ KeysOf(f, s, job.key) = {})
            /\ End("failure")
         \/ /\ job.cmd = "del" /\ job.key # "" /\ KeysOf(f, s, job.key) # {}
            /\ Goto("open") /\ out' = DelKeyLines(f, s, job.key)
         \/ /\ job.cmd = "del" /\ job.key = "" /\ HeadersOf(f, s) # {}
            /\ Goto("open") /\ out' = DelSectionLines(f, s)
  /\ UNCHANGED <<conf, tmp, edits>>

SectionLines(s, v) == <<Header(s), KeyLine(Host, v), TextLine("blank")>>

\* init: a file that is there may be kept; then the questions about the main section,
\* which end the command when the input ends, unless -q takes the defaults.
Ask ==
  /\ job.pc = "ask"
  /\ \/ End("failure")
     \/ /\ \E v \in Values :
             out' = <<TextLine("comment"), TextLine("blank")>> \o SectionLines(MainSection, v)
        /\ Goto("open")
  /\ UNCHANGED <<conf, tmp, edits>>

\* Mutant of OpenTmp: the temporary name is not used.
OpenConf ==
  /\ job.pc = "open"
  /\ tmp' = File(<<>>, "umask") /\ conf' = [conf EXCEPT !.lines = <<>>]
  /\ Goto(IF job.cmd = "init" THEN "servers" ELSE "flush")
  /\ UNCHANGED <<out, edits>>

\* fopen("w"): a new file, or the one of a killed command, emptied, with its mode.
OpenTmp ==
  /\ job.pc = "open"
  /\ tmp' = [tmp EXCEPT !.exists = TRUE, !.lines = <<>>]
  /\ Goto(IF job.cmd = "init" THEN "servers" ELSE "flush")
  /\ UNCHANGED <<conf, out, edits>>

\* Mutant of AskServer: nothing but another server is accepted.
AskServerAgain ==
  /\ job.pc = "servers"
  /\ \E s \in Sections, v \in Values :
       Cardinality(Headers(out)) <= MaxServers /\ out' = out \o SectionLines(s, v)
  /\ UNCHANGED <<conf, tmp, job, edits>>

\* init of pgvictoria.conf: one server after the other, in sections of any name, one
\* that is there too: "primary" is offered each time.  At the end of the input "Add a
\* PostgreSQL server?" is answered with its default, yes, and the next question fails
\* and goes back to it.
AskServer ==
  /\ job.pc = "servers"
  /\ \/ \E s \in Sections, v \in Values :
          /\ Cardinality(Headers(out)) <= MaxServers
          /\ out' = out \o SectionLines(s, v)
          /\ UNCHANGED job
     \/ Goto("flush") /\ UNCHANGED out
     \/ Goto("noinput") /\ UNCHANGED out
  /\ UNCHANGED <<conf, tmp, edits>>

\* fflush, fsync, fclose
Flush ==
  /\ job.pc = "flush"
  /\ tmp' = [tmp EXCEPT !.lines = out]
  /\ Goto(IF job.cmd = "del" THEN "rename" ELSE "chmod")
  /\ UNCHANGED <<conf, out, edits>>

\* init, set: chmod(tmp_path, 0600).
Chmod ==
  /\ job.pc = "chmod"
  /\ tmp' = [tmp EXCEPT !.mode = "0600"]
  /\ Goto("rename")
  /\ UNCHANGED <<conf, out, edits>>

Rename ==
  /\ job.pc = "rename"
  /\ conf' = tmp /\ tmp' = NoFile
  /\ End("success")
  /\ UNCHANGED edits

\* The process is killed: of what it was writing, a part is in the temporary file
\* (half of it stands for any part).
Crash ==
  /\ job.pc \notin Ended
  /\ \/ UNCHANGED tmp
     \/ /\ job.pc \in {"servers", "flush"}
        /\ tmp' = [tmp EXCEPT !.lines = SubSeq(out, 1, Len(out) \div 2)]
  /\ End("killed")
  /\ UNCHANGED <<conf, edits>>

Step == ReadConf \/ Ask \/ OpenTmp \/ AskServer \/ Flush \/ Chmod \/ Rename

Next == Start \/ Step \/ Crash

Spec == Init /\ [][Next]_vars

\* A command that nobody kills keeps running, and a question is answered.  At
\* "noinput" it asks and asks, which changes nothing.
FairSpec == Spec /\ WF_vars(Step)

-----------------------------------------------------------------------------
(* Properties *)

Table == INSTANCE ConfigTable WITH
           present <- {s \in Sections : HeadersOf(conf.lines, s) # {}},
           table <- [s \in Sections |-> [k \in ConfKeys |-> Get(conf.lines, s, k)]]

\* A file with no section twice, no key twice in its section, every key in a section
\* and every newline there.
Proper(f) ==
  /\ \A s \in Sections : Cardinality(HeadersOf(f, s)) <= 1
  /\ \A s \in Sections, k \in ConfKeys : Cardinality(KeysOf(f, s, k)) <= 1
  /\ \A i \in DOMAIN f : f[i].nl /\ (f[i].is = "key" => Under(f, i) # 0)

\* Whatever names the servers were given, init does to what `get` says of every key what
\* ConfigTable says of it; so do set and del to a proper file.  No other step does
\* anything to it.
TableRefinement ==
  [][IF job'.pc # "success" \/ job.pc \in Ended THEN UNCHANGED Table!tableVars
     ELSE \/ job.cmd = "init" /\ Table!Generate
          \/ job.cmd # "init" /\ ~Proper(conf.lines)
          \/ job.cmd = "set" /\ Table!Set(job.section, job.key, job.val)
          \/ job.cmd = "del" /\ job.key = "" /\ Table!DelSection(job.section)
          \/ job.cmd = "del" /\ job.key # "" /\ Table!DelKey(job.section, job.key)]_vars

\* set and del leave a proper file proper: they write no section and no key that is
\* there a second time.  (init does, when two servers are given one name.)
StaysProper ==
  [][job.cmd \in {"set", "del"} /\ Proper(conf.lines) => Proper(conf'.lines)]_vars

\* The lines of f at the indexes in S, in order.
Lines(f, S) == FlattenSeq([i \in DOMAIN f |-> IF i \in S THEN <<f[i]>> ELSE <<>>])

\* What set has no business with when it gives key k of section s a value.
Others(f, s, k) ==
  {i \in DOMAIN f : f[i].is # "blank" /\ i \notin KeysOf(f, s, k) \union HeadersOf(f, s)}

Blanks(f) == {i \in DOMAIN f : f[i].is = "blank"}

\* "Comments and formatting of other lines are preserved": in a proper file set keeps
\* every line but that of the key, in order, and adds none but a header and a blank
\* line.
Kept(f, g, s, k) ==
  /\ Lines(f, Others(f, s, k)) = Lines(g, Others(g, s, k))
  /\ Len(Lines(g, Blanks(g))) - Len(Lines(f, Blanks(f))) \in 0 .. 1

OthersKept ==
  [][job.cmd = "set" /\ job'.pc = "success" /\ Proper(conf.lines)
       => Kept(conf.lines, conf'.lines, job.section, job.key)]_vars

\* "The file is updated atomically": at any time, kills included, the file is the one
\* before a command or the one it meant to write.
UpdatedAtomically == [][conf' # conf => conf'.lines = out /\ job'.pc = "success"]_vars

\* A command that nobody kills comes to its end once the person has no more servers to
\* add, unless the input ends between two of them: then it asks for ever.
EditEndsAnswered == job.pc \notin Ended ~> job.pc \in Ended \union {"noinput"}
=============================================================================
