---------------------------- MODULE ReloadProofs ----------------------------
(***************************************************************************)
(* For any files that are read any number of times: a program that was not *)
(* asked to restart runs with what is in the files, knows the user of      *)
(* every server, and has for every server what its section says.           *)
(***************************************************************************)
EXTENDS Reload, SequenceFacts, FiniteSetTheorems

-----------------------------------------------------------------------------
(* What a reading leaves is a record of settings and a log, whatever is in the file. *)

Settings == {"host", "dir", "pidfile", "libev", "prefix", "title", "hugepage",
             "servers", "n", "users"}
LogFields == {"type", "level", "mode", "path", "size", "age", "fp", "current", "next", "broken"}
ReaderFields == {"conf", "log", "section", "srv", "idx"}

\* r is a record with the fields S.
Has(r, S) == r = [x \in S |-> r[x]]

Shaped(s) == Has(s, ReaderFields) /\ Has(s.conf, Settings) /\ Has(s.log, LogFields)

\* A record keeps its fields when one of them changes.
LEMMA FieldSet ==
  ASSUME NEW S, NEW r, Has(r, S), NEW k \in S, NEW v
  PROVE  Has([r EXCEPT ![k] = v], S) /\ [r EXCEPT ![k] = v][k] = v
         /\ \A x \in S \ {k} : [r EXCEPT ![k] = v][x] = r[x]
BY DEF Has

\* A record that is a field of another keeps its fields, and the other does.
LEMMA FieldShaped ==
  ASSUME NEW s, Shaped(s), NEW c
  PROVE  /\ \A x \in Settings : Shaped([s EXCEPT !.conf[x] = c])
         /\ \A x \in LogFields : Shaped([s EXCEPT !.log[x] = c])
<1>1. ASSUME NEW x \in Settings PROVE Shaped([s EXCEPT !.conf[x] = c])
  <2>1. Has([s.conf EXCEPT ![x] = c], Settings)
    BY FieldSet DEF Shaped
  <2> DEFINE d == [s.conf EXCEPT ![x] = c]
  <2>2. [s EXCEPT !.conf[x] = c] = [s EXCEPT !.conf = d]
    OBVIOUS
  <2> HIDE DEF d
  <2>3. Shaped([s EXCEPT !.conf = d])
    BY <2>1, FieldSet DEF Shaped, ReaderFields, d
  <2> QED
    BY <2>2, <2>3
<1>2. ASSUME NEW x \in LogFields PROVE Shaped([s EXCEPT !.log[x] = c])
  <2>1. Has([s.log EXCEPT ![x] = c], LogFields)
    BY FieldSet DEF Shaped
  <2> DEFINE d == [s.log EXCEPT ![x] = c]
  <2>2. [s EXCEPT !.log[x] = c] = [s EXCEPT !.log = d]
    OBVIOUS
  <2> HIDE DEF d
  <2>3. Shaped([s EXCEPT !.log = d])
    BY <2>1, FieldSet DEF Shaped, ReaderFields, d
  <2> QED
    BY <2>2, <2>3
<1> QED
  BY <1>1, <1>2

\* A setting of [pgvictoria] changes one field, of the settings or of the log.
LEMMA SetMainShaped ==
  ASSUME NEW s, Shaped(s), NEW k, NEW v
  PROVE  Shaped(SetMain(s, k, v))
<1>1. \A c : /\ Shaped([s EXCEPT !.conf.host = c]) /\ Shaped([s EXCEPT !.conf.pidfile = c])
             /\ Shaped([s EXCEPT !.conf.dir = c]) /\ Shaped([s EXCEPT !.conf.libev = c])
             /\ Shaped([s EXCEPT !.conf.prefix = c]) /\ Shaped([s EXCEPT !.conf.title = c])
             /\ Shaped([s EXCEPT !.conf.hugepage = c]) /\ Shaped([s EXCEPT !.conf.servers = c])
  BY FieldShaped DEF Settings
<1>2. \A c : /\ Shaped([s EXCEPT !.log.type = c]) /\ Shaped([s EXCEPT !.log.level = c])
             /\ Shaped([s EXCEPT !.log.mode = c]) /\ Shaped([s EXCEPT !.log.path = c])
             /\ Shaped([s EXCEPT !.log.size = c]) /\ Shaped([s EXCEPT !.log.age = c])
  BY FieldShaped DEF LogFields
<1>3. CASE k \in {"host", "pidfile", "unix_socket_dir", "libev"}
  BY <1>1, <1>3, Zenon DEF SetMain
<1>4. CASE k \in {"log_line_prefix", "update_process_title", "hugepage"}
  BY <1>1, <1>4, Zenon DEF SetMain
<1>5. CASE k \in {"log_type", "log_level", "log_mode"}
  BY <1>2, <1>5, Zenon DEF SetMain
<1>6. CASE k \in {"log_path", "log_rotation_size", "log_rotation_age"}
  BY <1>2, <1>6, Zenon DEF SetMain
<1>7. CASE k \notin {"host", "pidfile", "unix_socket_dir", "libev", "log_line_prefix",
                     "update_process_title", "hugepage", "log_type", "log_level", "log_mode",
                     "log_path", "log_rotation_size", "log_rotation_age"}
  BY <1>7, Zenon DEF SetMain
<1> QED
  BY <1>3, <1>4, <1>5, <1>6, <1>7

\* The server that is being read is a field of its own.
LEMMA SrvShaped ==
  ASSUME NEW s, Shaped(s), NEW k \in ReaderFields \ {"conf", "log"}, NEW c
  PROVE  Shaped([s EXCEPT ![k] = c])
<1> DEFINE t == [s EXCEPT ![k] = c]
<1>1. Has(t, ReaderFields) /\ t.conf = s.conf /\ t.log = s.log
  BY FieldSet DEF Shaped, ReaderFields
<1> QED
  BY <1>1 DEF Shaped

\* Each line leaves the records with their fields.
LEMMA LineShaped ==
  ASSUME NEW s, Shaped(s), NEW l
  PROVE  Shaped(ReadLine(s, l))
<1>1. ASSUME NEW t, Shaped(t)
      PROVE  \A c : /\ Shaped([t EXCEPT !.srv = c]) /\ Shaped([t EXCEPT !.idx = c])
                    /\ Shaped([t EXCEPT !.section = c]) /\ Shaped([t EXCEPT !.conf.servers = c])
  BY <1>1, SrvShaped, FieldShaped DEF ReaderFields, Settings
<1>2. ASSUME NEW k \in {"port", "user", "host"}, NEW v PROVE Shaped(SetServer(s, k, v))
  <2>1. \A c, d : /\ Shaped([s EXCEPT !.srv.name = c, !.srv.host = d])
                  /\ Shaped([s EXCEPT !.srv.name = c, !.srv.user = d])
                  /\ Shaped([s EXCEPT !.srv.port = d])
    <3> TAKE c, d
    <3>1. Shaped([s EXCEPT !.srv.name = c])
      <4> DEFINE e == [s.srv EXCEPT !.name = c]
      <4>1. [s EXCEPT !.srv.name = c] = [s EXCEPT !.srv = e]
        OBVIOUS
      <4> HIDE DEF e
      <4> QED
        BY <4>1, <1>1
    <3>2. \A t : Shaped(t) => Shaped([t EXCEPT !.srv.host = d]) /\ Shaped([t EXCEPT !.srv.user = d])
                              /\ Shaped([t EXCEPT !.srv.port = d])
      <4> TAKE t
      <4> HAVE Shaped(t)
      <4> DEFINE e == [t.srv EXCEPT !.host = d]
                 f == [t.srv EXCEPT !.user = d]
                 g == [t.srv EXCEPT !.port = d]
      <4>1. /\ [t EXCEPT !.srv.host = d] = [t EXCEPT !.srv = e]
            /\ [t EXCEPT !.srv.user = d] = [t EXCEPT !.srv = f]
            /\ [t EXCEPT !.srv.port = d] = [t EXCEPT !.srv = g]
        OBVIOUS
      <4> HIDE DEF e, f, g
      <4> QED
        BY <4>1, <1>1
    <3> QED
      BY <3>1, <3>2, Zenon
  <2>2. CASE k = "port"
    BY <2>1, <2>2, Zenon DEF SetServer
  <2>3. CASE k = "host"
    BY <2>1, <2>3, Zenon DEF SetServer
  <2>4. CASE k = "user"
    BY <2>1, <2>4, Zenon DEF SetServer
  <2> QED
    BY <2>2, <2>3, <2>4
<1>3. ASSUME NEW k, NEW v PROVE Shaped(ReadKey(s, k, v))
  <2>1. k \in {"port", "user", "host"} => Shaped(SetServer(s, k, v))
    BY <1>2
  <2> QED
    BY <2>1, SetMainShaped, Zenon DEF ReadKey
<1>4. ASSUME NEW name PROVE Shaped(ReadSection(s, name))
  <2>1. CASE name = "pgvictoria"
    BY <2>1, <1>1, Zenon DEF ReadSection
  <2>2. CASE name # "pgvictoria"
    <3> DEFINE servers == IF s.idx \in 1 .. NUMBER_OF_SERVERS THEN Stored(s) ELSE s.conf.servers
               a == [s EXCEPT !.section = name]
               b == [a EXCEPT !.conf.servers = servers]
               c == [b EXCEPT !.srv = [NoServer EXCEPT !.name = name]]
               d == [c EXCEPT !.idx = s.idx + 1]
    <3>1. ReadSection(s, name) = d
      BY <2>2 DEF ReadSection, Shaped, Has, ReaderFields
    <3>2. Shaped(a)
      BY <1>1
    <3>3. Shaped(b)
      BY <3>2, <1>1
    <3>4. Shaped(c)
      BY <3>3, <1>1
    <3>5. Shaped(d)
      BY <3>4, <1>1
    <3> QED
      BY <3>1, <3>5
  <2> QED
    BY <2>1, <2>2
<1>5. CASE l[1] = "section"
  BY <1>5, <1>4, Zenon DEF ReadLine
<1>6. CASE l[1] = "key"
  BY <1>6, <1>3, Zenon DEF ReadLine
<1>7. CASE l[1] # "section" /\ l[1] # "key"
  BY <1>7, Zenon DEF ReadLine
<1> QED
  BY <1>5, <1>6, <1>7

-----------------------------------------------------------------------------
(* The reading of a whole file is a fold over its lines, which is a recursive  *)
(* function on sets of their numbers: it has to be shown to exist first.       *)

Reads(g, file, n) ==
  g = [S \in SUBSET (1 .. n) |->
         IF S = {} THEN Unread ELSE ReadLine(g[S \ {Max(S)}], file[Max(S)])]

ReadsLine(g, file, S) ==
  g[S] = IF S = {} THEN Unread ELSE ReadLine(g[S \ {Max(S)}], file[Max(S)])

\* The greatest of a set of line numbers that has the last one.
LEMMA MaxIs ==
  ASSUME NEW n \in Nat, NEW S \in SUBSET (1 .. n + 1), n + 1 \in S
  PROVE  Max(S) = n + 1
<1>1. \A y \in S : n + 1 >= y
  OBVIOUS
<1>2. \E x \in S : \A y \in S : x >= y
  BY <1>1
<1> DEFINE m == Max(S)
<1>3. m \in S /\ \A y \in S : m >= y
  BY <1>2, Zenon DEF Max
<1> HIDE DEF m
<1>4. m \in 1 .. n + 1 /\ m >= n + 1
  BY <1>3
<1>5. m = n + 1
  BY <1>4
<1> QED
  BY <1>5 DEF m

\* Such a function, at each of its arguments.
LEMMA ReadsAt ==
  ASSUME NEW g, NEW file, NEW n \in Nat, NEW S \in SUBSET (1 .. n), Reads(g, file, n)
  PROVE  ReadsLine(g, file, S)
<1> DEFINE step(T) == IF T = {} THEN Unread ELSE ReadLine(g[T \ {Max(T)}], file[Max(T)])
<1>1. g = [T \in SUBSET (1 .. n) |-> step(T)]
  BY Zenon DEF Reads
<1> HIDE DEF step
<1>2. g[S] = step(S)
  BY <1>1
<1> QED
  BY <1>2 DEF step, ReadsLine

\* It exists for any number of lines.
LEMMA ReadsExists ==
  ASSUME NEW file
  PROVE  \A n \in Nat : \E g : Reads(g, file, n)
<1> DEFINE L == {n \in Nat : \E g : Reads(g, file, n)}
<1>1. 0 \in L
  <2> DEFINE g == [S \in SUBSET (1 .. 0) |-> Unread]
  <2>1. SUBSET (1 .. 0) = {{}}
    OBVIOUS
  <2>2. g = [S \in SUBSET (1 .. 0) |->
               IF S = {} THEN Unread ELSE ReadLine(g[S \ {Max(S)}], file[Max(S)])]
    BY <2>1
  <2> QED
    BY <2>2 DEF Reads
<1>2. ASSUME NEW n \in Nat, n \in L PROVE n + 1 \in L
  <2>1. PICK g : Reads(g, file, n)
    BY <1>2
  <2> DEFINE h == [S \in SUBSET (1 .. n + 1) |->
                     IF n + 1 \in S THEN ReadLine(g[S \ {n + 1}], file[n + 1]) ELSE g[S]]
             step(S) == IF S = {} THEN Unread ELSE ReadLine(h[S \ {Max(S)}], file[Max(S)])
  <2>2. ASSUME NEW S \in SUBSET (1 .. n + 1)
        PROVE  h[S] = step(S)
    <3>1. CASE n + 1 \in S
      <4>1. Max(S) = n + 1
        BY <3>1, MaxIs
      <4>2. S \ {n + 1} \in SUBSET (1 .. n) /\ n + 1 \notin S \ {n + 1} /\ S # {}
        BY <3>1
      <4>3. h[S \ {n + 1}] = g[S \ {n + 1}]
        BY <4>2
      <4>4. h[S] = ReadLine(g[S \ {n + 1}], file[n + 1])
        BY <3>1
      <4> HIDE DEF h
      <4> QED
        BY <4>1, <4>2, <4>3, <4>4
    <3>2. CASE n + 1 \notin S
      <4>1. S \in SUBSET (1 .. n)
        BY <3>2
      <4>2. g[S] = IF S = {} THEN Unread ELSE ReadLine(g[S \ {Max(S)}], file[Max(S)])
        BY <2>1, <4>1, ReadsAt DEF ReadsLine
      <4>3. h[S] = g[S] /\ h[S \ {Max(S)}] = g[S \ {Max(S)}]
        BY <3>2
      <4> HIDE DEF h
      <4> QED
        BY <4>2, <4>3
    <3> QED
      BY <3>1, <3>2
  <2>3. h = [S \in SUBSET (1 .. n + 1) |-> h[S]]
    OBVIOUS
  <2> HIDE DEF h, step
  <2>4. h = [S \in SUBSET (1 .. n + 1) |-> step(S)]
    BY <2>2, <2>3
  <2>5. Reads(h, file, n + 1)
    BY <2>4, Zenon DEF step, Reads
  <2> QED
    BY <2>5
<1> HIDE DEF L
<1>3. Nat \subseteq L
  BY <1>1, <1>2, SetInduction
<1> QED
  BY <1>3 DEF L

\* Its last value is what the reader is in after the last line.
LEMMA FoldIs ==
  ASSUME NEW file, NEW n \in Nat, DOMAIN file = 1 .. n
  PROVE  \E g : Reads(g, file, n) /\ FoldLeft(ReadLine, Unread, file) = g[1 .. n]
<1> DEFINE g == CHOOSE g : g = [S \in SUBSET (1 .. n) |->
                  IF S = {} THEN Unread ELSE ReadLine(g[S \ {Max(S)}], file[Max(S)])]
<1>1. FoldLeft(ReadLine, Unread, file) = g[1 .. n]
  BY Zenon DEF FoldLeft, MapThenFoldSet
<1>2. Reads(g, file, n)
  BY ReadsExists, Zenon DEF Reads
<1> QED
  BY <1>1, <1>2

\* The first i of n lines.
LEMMA FirstLines ==
  \A n \in Nat : \A i \in 1 .. n :
    /\ 1 .. i \in SUBSET (1 .. n)
    /\ 1 .. i # {}
    /\ (1 .. i) \ {i} = 1 .. i - 1
    /\ 1 .. i = (1 .. i - 1) \cup {i}
    /\ i \in Nat \ {0} /\ i \in 0 .. n /\ i - 1 \in 0 .. n
<1> TAKE n \in Nat
<1> TAKE i \in 1 .. n
<1>1. i \in 1 .. i
  OBVIOUS
<1>2. \A x \in 1 .. i : x \in 1 .. n
  OBVIOUS
<1>3. (1 .. i) \ {i} = 1 .. i - 1
  OBVIOUS
<1>4. 1 .. i = (1 .. i - 1) \cup {i}
  OBVIOUS
<1>5. i \in Nat \ {0} /\ i \in 0 .. n /\ i - 1 \in 0 .. n
  OBVIOUS
<1> QED
  BY <1>1, <1>2, <1>3, <1>4, <1>5

\* Line by line: what the reader is in after each of them.
LEMMA FoldSteps ==
  ASSUME NEW file, NEW n \in Nat, DOMAIN file = 1 .. n
  PROVE  \E h : /\ h[0] = Unread /\ h[n] = FoldLeft(ReadLine, Unread, file)
                /\ \A i \in 1 .. n : h[i] = ReadLine(h[i - 1], file[i])
<1>1. PICK g : Reads(g, file, n) /\ FoldLeft(ReadLine, Unread, file) = g[1 .. n]
  BY FoldIs
<1> DEFINE h == [i \in 0 .. n |-> g[1 .. i]]
<1>2. h[0] = Unread
  <2>1. {} \in SUBSET (1 .. n) /\ 1 .. 0 = {}
    OBVIOUS
  <2>2. g[{}] = Unread
    BY <1>1, <2>1, ReadsAt DEF ReadsLine
  <2> QED
    BY <2>1, <2>2
<1>3. h[n] = g[1 .. n]
  OBVIOUS
<1>4. ASSUME NEW i \in 1 .. n PROVE h[i] = ReadLine(h[i - 1], file[i])
  <2>1. 1 .. i \in SUBSET (1 .. n) /\ 1 .. i # {} /\ (1 .. i) \ {i} = 1 .. i - 1
    BY FirstLines, Zenon
  <2>2. Max(1 .. i) = i
    <3>1. i - 1 \in Nat /\ (i - 1) + 1 = i
      OBVIOUS
    <3>2. 1 .. i \in SUBSET (1 .. (i - 1) + 1) /\ (i - 1) + 1 \in 1 .. i
      BY <3>1
    <3> QED
      BY <3>1, <3>2, MaxIs
  <2>3. ReadsLine(g, file, 1 .. i)
    BY <1>1, <2>1, ReadsAt
  <2>4. g[1 .. i] = ReadLine(g[1 .. i - 1], file[i])
    BY <2>1, <2>2, <2>3 DEF ReadsLine
  <2>5. h[i] = g[1 .. i] /\ h[i - 1] = g[1 .. i - 1]
    OBVIOUS
  <2> QED
    BY <2>4, <2>5
<1> HIDE DEF h
<1> QED
  BY <1>1, <1>2, <1>3, <1>4

\* What the reader is in has its fields after the last line as after every line.
LEMMA FoldShaped ==
  ASSUME NEW file, NEW n \in Nat, DOMAIN file = 1 .. n
  PROVE  Shaped(FoldLeft(ReadLine, Unread, file))
<1>1. PICK h : /\ h[0] = Unread /\ h[n] = FoldLeft(ReadLine, Unread, file)
               /\ \A i \in 1 .. n : h[i] = ReadLine(h[i - 1], file[i])
  BY FoldSteps
<1> DEFINE L == {i \in Nat : i <= n => Shaped(h[i])}
<1>2. Shaped(Unread)
  BY DEF Shaped, Has, Unread, Initial, Console, Settings, LogFields, ReaderFields
<1>3. 0 \in L
  BY <1>1, <1>2
<1>4. ASSUME NEW i \in Nat, i \in L PROVE i + 1 \in L
  <2> SUFFICES ASSUME i + 1 <= n PROVE Shaped(h[i + 1])
    OBVIOUS
  <2>1. i + 1 \in 1 .. n /\ (i + 1) - 1 = i /\ i <= n
    OBVIOUS
  <2>2. h[i + 1] = ReadLine(h[i], file[i + 1])
    BY <1>1, <2>1
  <2> QED
    BY <1>4, <2>1, <2>2, LineShaped
<1> HIDE DEF L
<1>5. n \in L
  BY <1>3, <1>4, SetInduction
<1> QED
  BY <1>1, <1>5 DEF L

\* What a file reads as is a record of settings, and a log with its settings.
LEMMA ReadingShaped ==
  ASSUME NEW main \in MainFiles
  PROVE  Has(Reading[main].conf, Settings) /\ Has(Reading[main].log, LogFields)
<1> DEFINE s == FoldLeft(ReadLine, Unread, main)
           servers == IF s.srv.name # "" /\ s.idx \in 1 .. NUMBER_OF_SERVERS
                      THEN Stored(s) ELSE s.conf.servers
           a == [s.conf EXCEPT !.servers = servers]
           b == [a EXCEPT !.n = s.idx]
<1>1. Reading[main].conf = b /\ Reading[main].log = s.log
  BY DEF Reading, ReadMain, LastStored
<1>2. Shaped(s)
  <2>1. main \in Seq(Range(main))
    BY ReloadAssumption
  <2>2. Len(main) \in Nat /\ DOMAIN main = 1 .. Len(main)
    BY <2>1
  <2> QED
    BY <2>2, FoldShaped
<1> HIDE DEF s, servers
<1>3. Has(a, Settings)
  <2>1. Has(s.conf, Settings) /\ "servers" \in Settings
    BY <1>2 DEF Shaped, Settings
  <2> QED
    BY <2>1, FieldSet
<1> HIDE DEF a
<1>4. Has(b, Settings)
  <2>1. "n" \in Settings
    BY DEF Settings
  <2> QED
    BY <1>3, <2>1, FieldSet
<1> QED
  BY <1>1, <1>2, <1>4 DEF Shaped

\* With the users of the other file it is one still.
LEMMA FreshShaped ==
  ASSUME NEW main \in MainFiles, NEW users
  PROVE  Has(Fresh(main, users), Settings)
BY ReadingShaped, FieldSet DEF Fresh, Settings

-----------------------------------------------------------------------------
(* The servers: what a reader has after i lines of an orderly file. *)

\* The greatest of a set of line numbers.
LEMMA MaxOf ==
  ASSUME NEW n \in Nat, NEW S \in SUBSET (1 .. n), S # {}
  PROVE  Max(S) \in S /\ \A y \in S : Max(S) >= y
<1> DEFINE T == {k \in Nat : \E x \in S : k = n - x}
<1>1. PICK k \in T : \A m \in T : k <= m
  <2>1. PICK x \in S : TRUE
    OBVIOUS
  <2>2. n - x \in T
    OBVIOUS
  <2> QED
    BY <2>2, LeastNatural
<1>2. PICK x \in S : k = n - x
  BY <1>1
<1>3. \A y \in S : x >= y
  <2> TAKE y \in S
  <2>1. n - y \in T
    OBVIOUS
  <2> HIDE DEF T
  <2> QED
    BY <1>1, <1>2, <2>1
<1>4. \E z \in S : \A y \in S : z >= y
  BY <1>3
<1> QED
  BY <1>4, Zenon DEF Max

IsSection(file, i) == file[i][1] = "section"

\* The section of a line is the line itself, or that of the line before.
LEMMA SectionStep ==
  ASSUME NEW file, NEW n \in Nat, DOMAIN file = 1 .. n
  PROVE  /\ SectionOf(file, 0) = 0
         /\ \A i \in 0 .. n : SectionOf(file, i) \in 0 .. i
         /\ \A i \in 1 .. n :
              SectionOf(file, i) = IF IsSection(file, i) THEN i ELSE SectionOf(file, i - 1)
         /\ \A i \in 0 .. n : SectionOf(file, i) # 0 => IsSection(file, SectionOf(file, i))
<1> DEFINE before(i) == {j \in 1 .. i : file[j][1] = "section"}
<1>1. \A i \in 0 .. n : SectionOf(file, i) = IF before(i) = {} THEN 0 ELSE Max(before(i))
  BY DEF SectionOf
<1>2. \A i \in 0 .. n : before(i) # {} =>
        Max(before(i)) \in before(i) /\ \A y \in before(i) : Max(before(i)) >= y
  <2> TAKE i \in 0 .. n
  <2> HAVE before(i) # {}
  <2>1. i \in Nat /\ before(i) \in SUBSET (1 .. i)
    OBVIOUS
  <2> HIDE DEF before
  <2> QED
    BY <2>1, MaxOf
<1>3. before(0) = {}
  OBVIOUS
<1>4. \A i \in 1 .. n : IsSection(file, i) => SectionOf(file, i) = i
  <2> TAKE i \in 1 .. n
  <2> HAVE IsSection(file, i)
  <2>1. i \in before(i) /\ i \in 0 .. n
    BY DEF IsSection
  <2>2. Max(before(i)) \in before(i) /\ Max(before(i)) >= i
    BY <1>2, <2>1
  <2>3. Max(before(i)) = i
    <3> DEFINE m == Max(before(i))
    <3>1. m \in before(i) /\ m >= i
      BY <2>2
    <3> HIDE DEF m
    <3>2. m = i
      BY <3>1
    <3> QED
      BY <3>2 DEF m
  <2> QED
    BY <1>1, <2>1, <2>3
<1>5. \A i \in 1 .. n : ~IsSection(file, i) => before(i) = before(i - 1)
  BY DEF IsSection
<1>6. \A i \in 1 .. n : ~IsSection(file, i) => SectionOf(file, i) = SectionOf(file, i - 1)
  <2> HIDE DEF before
  <2> QED
    BY <1>1, <1>5
<1>7. \A i \in 0 .. n : SectionOf(file, i) \in 0 .. i
  <2> TAKE i \in 0 .. n
  <2>1. before(i) \subseteq 0 .. i /\ 0 \in 0 .. i
    OBVIOUS
  <2> HIDE DEF before
  <2> QED
    BY <1>1, <1>2, <2>1
<1>8. \A i \in 0 .. n : SectionOf(file, i) # 0 => IsSection(file, SectionOf(file, i))
  BY <1>1, <1>2 DEF IsSection
<1> QED
  BY <1>1, <1>3, <1>4, <1>6, <1>7, <1>8

\* A line that is no section is in the section of the line before it.
LEMMA SameSection ==
  ASSUME NEW file, NEW n \in Nat, DOMAIN file = 1 .. n, NEW i \in 1 .. n, ~IsSection(file, i)
  PROVE  SectionOf(file, i) = SectionOf(file, i - 1)
<1>1. SectionOf(file, i) = IF IsSection(file, i) THEN i ELSE SectionOf(file, i - 1)
  BY SectionStep
<1> QED
  BY <1>1

\* Later lines are of later sections.
LEMMA SectionsGrow ==
  ASSUME NEW file, NEW n \in Nat, DOMAIN file = 1 .. n
  PROVE  \A j \in 1 .. n : IsSection(file, j) => \A i \in j .. n : SectionOf(file, i) >= j
<1> SUFFICES ASSUME NEW j \in 1 .. n, IsSection(file, j)
             PROVE  \A i \in j .. n : SectionOf(file, i) >= j
  OBVIOUS
<1> DEFINE L == {i \in Nat : i \in j .. n => SectionOf(file, i) >= j}
<1>1. 0 \in L
  OBVIOUS
<1>2. ASSUME NEW i \in Nat, i \in L PROVE i + 1 \in L
  <2> SUFFICES ASSUME i + 1 \in j .. n PROVE SectionOf(file, i + 1) >= j
    OBVIOUS
  <2>1. i + 1 \in 1 .. n
    OBVIOUS
  <2>2. SectionOf(file, i + 1) = IF IsSection(file, i + 1) THEN i + 1 ELSE SectionOf(file, (i + 1) - 1)
    BY <2>1, SectionStep
  <2>3. CASE IsSection(file, i + 1)
    BY <2>2, <2>3
  <2>4. CASE ~IsSection(file, i + 1)
    <3>1. i + 1 # j
      BY <2>4
    <3>2. SectionOf(file, i) >= j
      BY <1>2, <3>1
    <3> QED
      BY <2>2, <2>4, <3>2
  <2> QED
    BY <2>3, <2>4
<1> HIDE DEF L
<1>3. Nat \subseteq L
  BY <1>1, <1>2, SetInduction
<1> QED
  BY <1>3 DEF L

\* The sections of servers up to a line, and their number.
Upto(file, i) == {k \in Sections(file) : k <= i}
ServerNumber(file, i) == Cardinality(Upto(file, i))

\* The sections of servers are lines.
LEMMA SectionsAreLines ==
  ASSUME NEW file, NEW n \in Nat, DOMAIN file = 1 .. n
  PROVE  /\ Upto(file, n) = Sections(file)
         /\ \A j \in Sections(file) : /\ j \in 1 .. n /\ j \in Nat /\ j \in 0 .. n
                                     /\ j - 1 \in 0 .. n /\ n \in j .. n
<1>1. \A j \in Sections(file) : j \in 1 .. n
  BY DEF Sections
<1>2. Upto(file, n) = Sections(file)
  BY <1>1 DEF Upto
<1>3. \A j \in 1 .. n : j \in Nat /\ j \in 0 .. n /\ j - 1 \in 0 .. n /\ n \in j .. n
  OBVIOUS
<1> QED
  BY <1>1, <1>2, <1>3

\* They are counted: one more at the section of a server.
LEMMA SectionsCounted ==
  ASSUME NEW file, NEW n \in Nat, DOMAIN file = 1 .. n
  PROVE  /\ Upto(file, 0) = {} /\ ServerNumber(file, 0) = 0
         /\ \A i \in 0 .. n : ServerNumber(file, i) \in Nat
         /\ \A i \in 1 .. n :
              /\ i \in Sections(file) => /\ Upto(file, i) = Upto(file, i - 1) \cup {i}
                                         /\ ServerNumber(file, i) = ServerNumber(file, i - 1) + 1
              /\ i \notin Sections(file) => /\ Upto(file, i) = Upto(file, i - 1)
                                            /\ ServerNumber(file, i) = ServerNumber(file, i - 1)
<1>1. Sections(file) \subseteq 1 .. n
  BY DEF Sections
<1>2. \A i \in 0 .. n : IsFiniteSet(Upto(file, i))
  <2>1. \A i \in 0 .. n : Upto(file, i) \subseteq 1 .. n
    BY <1>1 DEF Upto
  <2> QED
    BY <2>1, FS_Interval, FS_Subset
<1>3. Upto(file, 0) = {}
  BY <1>1 DEF Upto
<1>4. ASSUME NEW i \in 1 .. n, i \in Sections(file)
      PROVE  Upto(file, i) = Upto(file, i - 1) \cup {i} /\ i \notin Upto(file, i - 1)
  BY <1>1, <1>4 DEF Upto
<1>5. ASSUME NEW i \in 1 .. n, i \notin Sections(file)
      PROVE  Upto(file, i) = Upto(file, i - 1)
  BY <1>1, <1>5 DEF Upto
<1>6. \A i \in 0 .. n : ServerNumber(file, i) \in Nat
  BY <1>2, FS_CardinalityType DEF ServerNumber
<1>7. ASSUME NEW i \in 1 .. n, i \in Sections(file)
      PROVE  ServerNumber(file, i) = ServerNumber(file, i - 1) + 1
  <2>1. i - 1 \in 0 .. n
    OBVIOUS
  <2> QED
    BY <1>2, <1>4, <1>7, <2>1, FS_AddElement DEF ServerNumber
<1> QED
  BY <1>3, <1>4, <1>5, <1>6, <1>7, FS_EmptySet DEF ServerNumber

\* The number does not fall, and it rises with every server.
LEMMA NumbersGrow ==
  ASSUME NEW file, NEW n \in Nat, DOMAIN file = 1 .. n
  PROVE  /\ \A i \in 0 .. n : \A k \in i .. n : ServerNumber(file, k) >= ServerNumber(file, i)
         /\ \A j, c \in Sections(file) : j < c => ServerNumber(file, j) < ServerNumber(file, c)
<1>1. ASSUME NEW i \in 0 .. n
      PROVE  \A k \in i .. n : ServerNumber(file, k) >= ServerNumber(file, i)
  <2> DEFINE L == {k \in Nat : k \in i .. n => ServerNumber(file, k) >= ServerNumber(file, i)}
  <2>1. 0 \in L
    BY SectionsCounted
  <2>2. ASSUME NEW k \in Nat, k \in L PROVE k + 1 \in L
    <3> SUFFICES ASSUME k + 1 \in i .. n
                 PROVE  ServerNumber(file, k + 1) >= ServerNumber(file, i)
      OBVIOUS
    <3>1. CASE k + 1 = i
      BY <3>1, SectionsCounted
    <3>2. CASE k + 1 # i
      <4>1. k \in i .. n /\ k + 1 \in 1 .. n /\ (k + 1) - 1 = k /\ k \in 0 .. n /\ i \in 0 .. n
        BY <3>2
      <4>2. ServerNumber(file, k) >= ServerNumber(file, i)
        BY <2>2, <4>1
      <4>3. ServerNumber(file, k) \in Nat /\ ServerNumber(file, i) \in Nat
        BY <4>1, SectionsCounted
      <4>4. ServerNumber(file, k + 1) \in {ServerNumber(file, k), ServerNumber(file, k) + 1}
        BY <4>1, SectionsCounted
      <4> QED
        BY <4>2, <4>3, <4>4
    <3> QED
      BY <3>1, <3>2
  <2> HIDE DEF L
  <2>3. Nat \subseteq L
    BY <2>1, <2>2, SetInduction
  <2> QED
    BY <2>3 DEF L
<1>2. ASSUME NEW j \in Sections(file), NEW c \in Sections(file), j < c
      PROVE  ServerNumber(file, j) < ServerNumber(file, c)
  <2>1. j \in 0 .. n /\ c \in 1 .. n /\ c - 1 \in j .. n /\ c - 1 \in 0 .. n
    BY <1>2 DEF Sections
  <2>2. ServerNumber(file, c) = ServerNumber(file, c - 1) + 1
    BY <2>1, SectionsCounted
  <2>3. ServerNumber(file, c - 1) >= ServerNumber(file, j)
    BY <1>1, <2>1
  <2>4. ServerNumber(file, c - 1) \in Nat /\ ServerNumber(file, j) \in Nat
    BY <2>1, SectionsCounted
  <2> QED
    BY <2>2, <2>3, <2>4
<1> QED
  BY <1>1, <1>2

ServerFields == {"name", "host", "port", "user"}

\* What is written into an empty field, or over the same, is what is in it.
LEMMA OverIs == ASSUME NEW v PROVE Over("", v) = v /\ Over(v, v) = v
BY MainConfigAssumption DEF Over

\* What a reader knows of the servers.
SameServers(s, t) ==
  /\ t.idx = s.idx /\ t.section = s.section /\ t.srv = s.srv
  /\ t.conf.servers = s.conf.servers

\* A setting of [pgvictoria] leaves the servers alone.
LEMMA SetMainKeeps ==
  ASSUME NEW s, Shaped(s), NEW k, NEW v
  PROVE  SameServers(s, SetMain(s, k, v))
<1>1. ASSUME NEW x \in Settings \ {"servers"}, NEW c PROVE SameServers(s, [s EXCEPT !.conf[x] = c])
  BY <1>1 DEF SameServers
<1>2. ASSUME NEW x \in LogFields, NEW c PROVE SameServers(s, [s EXCEPT !.log[x] = c])
  BY DEF SameServers
<1>3. \A c : /\ SameServers(s, [s EXCEPT !.conf.host = c]) /\ SameServers(s, [s EXCEPT !.conf.pidfile = c])
             /\ SameServers(s, [s EXCEPT !.conf.dir = c]) /\ SameServers(s, [s EXCEPT !.conf.libev = c])
             /\ SameServers(s, [s EXCEPT !.conf.prefix = c]) /\ SameServers(s, [s EXCEPT !.conf.title = c])
             /\ SameServers(s, [s EXCEPT !.conf.hugepage = c])
  BY <1>1 DEF Settings
<1>4. \A c : /\ SameServers(s, [s EXCEPT !.log.type = c]) /\ SameServers(s, [s EXCEPT !.log.level = c])
             /\ SameServers(s, [s EXCEPT !.log.mode = c]) /\ SameServers(s, [s EXCEPT !.log.path = c])
             /\ SameServers(s, [s EXCEPT !.log.size = c]) /\ SameServers(s, [s EXCEPT !.log.age = c])
  BY <1>2 DEF LogFields
<1>5. SameServers(s, s)
  BY DEF SameServers
<1>6. CASE k \in {"host", "pidfile", "unix_socket_dir", "libev"}
  BY <1>3, <1>6, Zenon DEF SetMain
<1>7. CASE k \in {"log_line_prefix", "update_process_title", "hugepage"}
  BY <1>3, <1>7, Zenon DEF SetMain
<1>8. CASE k \in {"log_type", "log_level", "log_mode"}
  BY <1>4, <1>8, Zenon DEF SetMain
<1>9. CASE k \in {"log_path", "log_rotation_size", "log_rotation_age"}
  BY <1>4, <1>9, Zenon DEF SetMain
<1>10. CASE k \notin {"host", "pidfile", "unix_socket_dir", "libev", "log_line_prefix",
                      "update_process_title", "hugepage", "log_type", "log_level", "log_mode",
                      "log_path", "log_rotation_size", "log_rotation_age"}
  BY <1>5, <1>10, Zenon DEF SetMain
<1> QED
  BY <1>6, <1>7, <1>8, <1>9, <1>10

\* A setting of a server changes one of its fields, and writes its name once more.
LEMMA SetServerDoes ==
  ASSUME NEW s, Shaped(s), Has(s.srv, ServerFields), NEW k \in {"host", "port", "user"}, NEW v
  PROVE  LET t == SetServer(s, k, v)
             n == IF k = "port" THEN s.srv.name ELSE Over(s.srv.name, s.section)
         IN /\ t.idx = s.idx /\ t.section = s.section /\ t.conf = s.conf
            /\ Has(t.srv, ServerFields)
            /\ t.srv.name = n
            /\ t.srv.host = IF k = "host" THEN Over(s.srv.host, v) ELSE s.srv.host
            /\ t.srv.user = IF k = "user" THEN Over(s.srv.user, v) ELSE s.srv.user
            /\ t.srv.port = IF k = "port" /\ AsInt(v).ret = 0 THEN AsInt(v).val ELSE s.srv.port
<1> DEFINE a == Over(s.srv.name, s.section)
           b == Over(s.srv.host, v)
           c == Over(s.srv.user, v)
           d == AsInt(v).val
           named == [s.srv EXCEPT !.name = a]
<1>1. Has(named, ServerFields) /\ named.name = a /\ named.host = s.srv.host
      /\ named.user = s.srv.user /\ named.port = s.srv.port
  BY FieldSet DEF ServerFields
<1>2. CASE k = "host"
  <2> DEFINE e == [named EXCEPT !.host = b]
  <2>1. SetServer(s, k, v) = [s EXCEPT !.srv = e]
    BY <1>2 DEF SetServer
  <2> HIDE DEF a, b, named
  <2>2. /\ Has(e, ServerFields) /\ e.host = b /\ e.name = named.name /\ e.user = named.user
        /\ e.port = named.port
    BY <1>1, FieldSet DEF ServerFields
  <2> HIDE DEF e
  <2>3. LET t == [s EXCEPT !.srv = e]
        IN t.idx = s.idx /\ t.section = s.section /\ t.conf = s.conf /\ t.srv = e
    BY FieldSet DEF Shaped, ReaderFields
  <2> QED
    BY <1>1, <1>2, <2>1, <2>2, <2>3 DEF a, b
<1>3. CASE k = "user"
  <2> DEFINE e == [named EXCEPT !.user = c]
  <2>1. SetServer(s, k, v) = [s EXCEPT !.srv = e]
    BY <1>3 DEF SetServer
  <2> HIDE DEF a, c, named
  <2>2. /\ Has(e, ServerFields) /\ e.user = c /\ e.name = named.name /\ e.host = named.host
        /\ e.port = named.port
    BY <1>1, FieldSet DEF ServerFields
  <2> HIDE DEF e
  <2>3. LET t == [s EXCEPT !.srv = e]
        IN t.idx = s.idx /\ t.section = s.section /\ t.conf = s.conf /\ t.srv = e
    BY FieldSet DEF Shaped, ReaderFields
  <2> QED
    BY <1>1, <1>3, <2>1, <2>2, <2>3 DEF a, c
<1>4. CASE k = "port" /\ AsInt(v).ret = 0
  <2> DEFINE e == [s.srv EXCEPT !.port = d]
  <2>1. SetServer(s, k, v) = [s EXCEPT !.srv = e]
    BY <1>4 DEF SetServer
  <2> HIDE DEF d
  <2>2. /\ Has(e, ServerFields) /\ e.port = d /\ e.name = s.srv.name /\ e.host = s.srv.host
        /\ e.user = s.srv.user
    BY FieldSet DEF ServerFields
  <2> HIDE DEF e
  <2>3. LET t == [s EXCEPT !.srv = e]
        IN t.idx = s.idx /\ t.section = s.section /\ t.conf = s.conf /\ t.srv = e
    BY FieldSet DEF Shaped, ReaderFields
  <2> QED
    BY <1>4, <2>1, <2>2, <2>3 DEF d
<1>5. CASE k = "port" /\ AsInt(v).ret # 0
  <2>1. SetServer(s, k, v) = s
    BY <1>5 DEF SetServer
  <2> QED
    BY <1>5, <2>1
<1> QED
  BY <1>2, <1>3, <1>4, <1>5

InSection(file, m, j, key) == {i \in 1 .. m : Setting(file, i, key) /\ SectionOf(file, i) = j}

\* A server r has what the first m lines say in the section that begins at line j.
HasSaid(file, m, j, r) ==
  /\ Has(r, ServerFields)
  /\ r.name = file[j][2]
  /\ \A i \in InSection(file, m, j, "host") : r.host = file[i][3]
  /\ \A i \in InSection(file, m, j, "user") : r.user = file[i][3]
  /\ \A i \in InSection(file, m, j, "port") :
       r.port = IF AsInt(file[i][3]).ret = 0 THEN AsInt(file[i][3]).val ELSE 0
  /\ InSection(file, m, j, "host") = {} => r.host = ""
  /\ InSection(file, m, j, "user") = {} => r.user = ""
  /\ InSection(file, m, j, "port") = {} => r.port = 0

Finished(file, n, i, j, s) ==
  /\ \E c \in Upto(file, i) : j < c
  /\ ServerNumber(file, j) <= NUMBER_OF_SERVERS =>
       HasSaid(file, n, j, s.conf.servers[ServerNumber(file, j)])

BeingRead(file, i, j, s) ==
  /\ \A c \in Upto(file, i) : c <= j
  /\ HasSaid(file, i, j, s.srv)

\* After i lines: the server of every section is stored with what the file says, but for
\* the last, which is being read.
ReadSoFar(file, n, i, s) ==
  /\ Shaped(s)
  /\ s.idx = ServerNumber(file, i)
  /\ s.section = IF SectionOf(file, i) = 0 THEN "" ELSE file[SectionOf(file, i)][2]
  /\ Has(s.srv, ServerFields)
  /\ DOMAIN s.conf.servers = 1 .. NUMBER_OF_SERVERS
  /\ \A j \in Upto(file, i) : Finished(file, n, i, j, s) \/ BeingRead(file, i, j, s)

\* A line that says nothing about a section.
LEMMA SaysNoMore ==
  ASSUME NEW file, NEW i \in Nat \ {0}, NEW j, NEW r, HasSaid(file, i - 1, j, r),
         \/ SectionOf(file, i) # j
         \/ \A key \in {"host", "user", "port"} : ~Setting(file, i, key)
  PROVE  HasSaid(file, i, j, r)
<1>1. 1 .. i = (1 .. i - 1) \cup {i}
  OBVIOUS
<1>2. \A key \in {"host", "user", "port"} : InSection(file, i, j, key) = InSection(file, i - 1, j, key)
  <2> TAKE key \in {"host", "user", "port"}
  <2>1. ~(Setting(file, i, key) /\ SectionOf(file, i) = j)
    OBVIOUS
  <2> QED
    BY <1>1, <2>1 DEF InSection
<1> QED
  BY <1>2 DEF HasSaid

\* Nor do the lines behind the next section.
LEMMA SaysNoMoreEver ==
  ASSUME NEW file, NEW n \in Nat, DOMAIN file = 1 .. n, NEW i \in 1 .. n, IsSection(file, i),
         NEW j, j < i, j \in Nat, NEW r, HasSaid(file, i - 1, j, r)
  PROVE  HasSaid(file, n, j, r)
<1>1. \A k \in i .. n : SectionOf(file, k) # j
  <2> TAKE k \in i .. n
  <2>1. SectionOf(file, k) >= i /\ SectionOf(file, k) \in Nat
    BY SectionsGrow, SectionStep
  <2> QED
    BY <2>1
<1>2. 1 .. n = (1 .. i - 1) \cup (i .. n)
  OBVIOUS
<1>3. \A key : InSection(file, n, j, key) = InSection(file, i - 1, j, key)
  BY <1>1, <1>2 DEF InSection
<1> QED
  BY <1>3 DEF HasSaid

\* A line that leaves the servers alone, and is no section of one and no setting in one.
LEMMA LineElsewhere ==
  ASSUME NEW file, NEW n \in Nat, DOMAIN file = 1 .. n, NEW i \in 1 .. n, NEW s, NEW t,
         ReadSoFar(file, n, i - 1, s), Shaped(t), i \notin Sections(file),
         t.idx = s.idx, t.srv = s.srv, t.conf.servers = s.conf.servers,
         t.section = IF SectionOf(file, i) = 0 THEN "" ELSE file[SectionOf(file, i)][2],
         \/ SectionOf(file, i) \notin Sections(file)
         \/ \A key \in {"host", "user", "port"} : ~Setting(file, i, key)
  PROVE  ReadSoFar(file, n, i, t)
<1>1. Upto(file, i) = Upto(file, i - 1) /\ ServerNumber(file, i) = ServerNumber(file, i - 1)
  BY SectionsCounted
<1>2. ASSUME NEW j \in Upto(file, i - 1), BeingRead(file, i - 1, j, s)
      PROVE  BeingRead(file, i, j, t)
  <2>1. HasSaid(file, i - 1, j, t.srv)
    BY <1>2 DEF BeingRead
  <2>2. j \in Sections(file)
    BY DEF Upto
  <2>0. i \in Nat \ {0}
    BY FirstLines, Zenon
  <2>3. \/ SectionOf(file, i) # j
        \/ \A key \in {"host", "user", "port"} : ~Setting(file, i, key)
    BY <2>2, Zenon
  <2>4. HasSaid(file, i, j, t.srv)
    BY <2>0, <2>1, <2>3, SaysNoMore, Zenon
  <2> QED
    BY <1>1, <1>2, <2>4 DEF BeingRead
<1>3. ASSUME NEW j \in Upto(file, i - 1), Finished(file, n, i - 1, j, s)
      PROVE  Finished(file, n, i, j, t)
  BY <1>1, <1>3 DEF Finished
<1>4. \A j \in Upto(file, i) : Finished(file, n, i, j, t) \/ BeingRead(file, i, j, t)
  BY <1>1, <1>2, <1>3 DEF ReadSoFar
<1> QED
  BY <1>1, <1>4 DEF ReadSoFar

\* The line that begins a server stores the one before it.
LEMMA LineServer ==
  ASSUME NEW file, NEW n \in Nat, DOMAIN file = 1 .. n, NEW i \in 1 .. n, NEW s,
         ReadSoFar(file, n, i - 1, s), i \in Sections(file)
  PROVE  ReadSoFar(file, n, i, ReadSection(s, file[i][2]))
<1> DEFINE name == file[i][2]
           servers == IF s.idx \in 1 .. NUMBER_OF_SERVERS THEN Stored(s) ELSE s.conf.servers
           fresh == [NoServer EXCEPT !.name = name]
           t == ReadSection(s, name)
<1>0. NUMBER_OF_SERVERS \in Nat
  BY MainConfigAssumption
<1>1. /\ t.idx = s.idx + 1 /\ t.section = name /\ t.srv = fresh /\ t.conf.servers = servers
  <2>1. name # "pgvictoria"
    BY DEF Sections
  <2> DEFINE a == [s EXCEPT !.section = name]
             b == [a EXCEPT !.conf.servers = servers]
             c == [b EXCEPT !.srv = fresh]
             d == [c EXCEPT !.idx = s.idx + 1]
  <2>2. Shaped(s)
    BY DEF ReadSoFar
  <2>3. t = d
    BY <2>1, <2>2 DEF ReadSection, Shaped, Has, ReaderFields
  <2> HIDE DEF t, servers, name, fresh
  <2>4. Has(a, ReaderFields) /\ a.conf = s.conf /\ a.section = name
    BY <2>2, FieldSet DEF Shaped, ReaderFields
  <2>5. Has(b, ReaderFields) /\ b.conf.servers = servers /\ b.section = name
    <3> DEFINE e == [a.conf EXCEPT !.servers = servers]
    <3>1. b = [a EXCEPT !.conf = e] /\ e.servers = servers
      BY <2>2, <2>4 DEF Shaped, Has, Settings
    <3> HIDE DEF a, b, e
    <3> QED
      BY <2>4, <3>1, FieldSet DEF ReaderFields
  <2> HIDE DEF a, b
  <2>6. Has(c, ReaderFields) /\ c.conf = b.conf /\ c.section = name /\ c.srv = fresh
    BY <2>5, FieldSet DEF ReaderFields
  <2> HIDE DEF c
  <2>7. d.conf = c.conf /\ d.section = c.section /\ d.srv = c.srv /\ d.idx = s.idx + 1
    BY <2>6, FieldSet DEF ReaderFields
  <2> QED
    BY <2>3, <2>5, <2>6, <2>7
<1>2. Shaped(t)
  <2>1. ReadLine(s, <<"section", name>>) = t
    BY DEF ReadLine
  <2> QED
    BY <2>1, LineShaped DEF ReadSoFar
<1>3. /\ Upto(file, i) = Upto(file, i - 1) \cup {i}
      /\ ServerNumber(file, i) = ServerNumber(file, i - 1) + 1
      /\ ServerNumber(file, i - 1) = s.idx /\ s.idx \in Nat
  <2>1. i - 1 \in 0 .. n
    OBVIOUS
  <2>2. ServerNumber(file, i - 1) = s.idx
    BY DEF ReadSoFar
  <2>3. ServerNumber(file, i - 1) \in Nat
    BY <2>1, SectionsCounted
  <2> QED
    BY <2>2, <2>3, SectionsCounted
<1>4. SectionOf(file, i) = i /\ IsSection(file, i)
  <2>1. IsSection(file, i)
    BY DEF Sections, IsSection
  <2> QED
    BY <2>1, SectionStep
<1>5. /\ Has(fresh, ServerFields) /\ fresh.name = name /\ fresh.host = "" /\ fresh.user = ""
      /\ fresh.port = 0
  <2>1. Has(NoServer, ServerFields)
    BY DEF Has, NoServer, ServerFields
  <2>2. /\ Has(fresh, ServerFields) /\ fresh.name = name /\ fresh.host = NoServer.host
        /\ fresh.user = NoServer.user /\ fresh.port = NoServer.port
    BY <2>1, FieldSet DEF ServerFields
  <2> HIDE DEF fresh
  <2> QED
    BY <2>2 DEF NoServer
<1> HIDE DEF fresh, t, servers
<1>6. /\ DOMAIN servers = 1 .. NUMBER_OF_SERVERS
      /\ s.idx \in 1 .. NUMBER_OF_SERVERS => servers[s.idx] = s.srv
      /\ \A k \in 1 .. NUMBER_OF_SERVERS : k # s.idx => servers[k] = s.conf.servers[k]
  BY DEF ReadSoFar, servers, Stored
<1>7. BeingRead(file, i, i, t)
  <2>1. \A key \in {"host", "user", "port"} : InSection(file, i, i, key) = {}
    <3> TAKE key \in {"host", "user", "port"}
    <3> SUFFICES ASSUME NEW k \in InSection(file, i, i, key) PROVE FALSE
      OBVIOUS
    <3>1. k \in 1 .. i /\ Setting(file, k, key) /\ SectionOf(file, k) = i /\ k \in 0 .. n
      BY DEF InSection
    <3>2. SectionOf(file, k) \in 0 .. k
      BY <3>1, SectionStep
    <3>3. k = i
      BY <3>1, <3>2
    <3> QED
      BY <1>4, <3>1, <3>3 DEF Setting, IsSection
  <2>2. \A c \in Upto(file, i) : c <= i
    BY DEF Upto
  <2>3. HasSaid(file, i, i, fresh)
    BY <1>5, <2>1 DEF HasSaid
  <2> QED
    BY <1>1, <2>2, <2>3 DEF BeingRead
<1>8. ASSUME NEW j \in Upto(file, i - 1)
      PROVE  Finished(file, n, i, j, t)
  <2>1. j \in Sections(file) /\ j < i /\ j \in 1 .. n /\ j \in Nat
    BY DEF Upto, Sections
  <2>2. ServerNumber(file, j) \in Nat \ {0} /\ ServerNumber(file, j) <= s.idx
    <3>1. j - 1 \in 0 .. n /\ j \in 0 .. n /\ i - 1 \in j .. n
      BY <2>1
    <3>2. ServerNumber(file, j) = ServerNumber(file, j - 1) + 1
      BY <2>1, SectionsCounted
    <3>3. ServerNumber(file, j - 1) \in Nat
      BY <3>1, SectionsCounted
    <3>4. ServerNumber(file, i - 1) >= ServerNumber(file, j)
      BY <3>1, NumbersGrow
    <3> QED
      BY <1>3, <3>2, <3>3, <3>4
  <2>3. CASE Finished(file, n, i - 1, j, s)
    <3>1. PICK c \in Upto(file, i - 1) : j < c
      BY <2>3 DEF Finished
    <3>2. ServerNumber(file, j) < ServerNumber(file, c) /\ ServerNumber(file, c) <= s.idx
          /\ ServerNumber(file, c) \in Nat
      <4>1. c \in Sections(file) /\ c \in 0 .. n /\ i - 1 \in c .. n
        BY DEF Upto, Sections
      <4>2. ServerNumber(file, j) < ServerNumber(file, c)
        BY <2>1, <3>1, <4>1, NumbersGrow
      <4>3. ServerNumber(file, i - 1) >= ServerNumber(file, c) /\ ServerNumber(file, c) \in Nat
        BY <4>1, NumbersGrow, SectionsCounted
      <4> QED
        BY <1>3, <4>2, <4>3
    <3>3. ServerNumber(file, j) # s.idx
      BY <1>3, <2>2, <3>2
    <3>4. ServerNumber(file, j) <= NUMBER_OF_SERVERS =>
            HasSaid(file, n, j, servers[ServerNumber(file, j)])
      <4> SUFFICES ASSUME ServerNumber(file, j) <= NUMBER_OF_SERVERS
                   PROVE  HasSaid(file, n, j, servers[ServerNumber(file, j)])
        OBVIOUS
      <4>1. ServerNumber(file, j) \in 1 .. NUMBER_OF_SERVERS
        BY <1>0, <2>2
      <4>2. servers[ServerNumber(file, j)] = s.conf.servers[ServerNumber(file, j)]
        BY <1>6, <3>3, <4>1
      <4> QED
        BY <2>3, <4>2 DEF Finished
    <3> QED
      BY <1>1, <1>3, <3>1, <3>4 DEF Finished
  <2>4. CASE BeingRead(file, i - 1, j, s)
    <3>1. ServerNumber(file, j) = s.idx
      <4>1. Upto(file, i - 1) = Upto(file, j)
        BY <2>1, <2>4 DEF BeingRead, Upto, Sections
      <4> QED
        BY <1>3, <4>1 DEF ServerNumber
    <3>2. HasSaid(file, n, j, s.srv)
      BY <1>4, <2>1, <2>4, SaysNoMoreEver DEF BeingRead
    <3>3. ServerNumber(file, j) <= NUMBER_OF_SERVERS =>
            HasSaid(file, n, j, servers[ServerNumber(file, j)])
      <4> SUFFICES ASSUME ServerNumber(file, j) <= NUMBER_OF_SERVERS
                   PROVE  HasSaid(file, n, j, servers[ServerNumber(file, j)])
        OBVIOUS
      <4>1. s.idx \in 1 .. NUMBER_OF_SERVERS
        BY <1>0, <1>3, <2>2, <3>1
      <4> QED
        BY <1>6, <3>1, <3>2, <4>1
    <3>4. \E c \in Upto(file, i) : j < c
      BY <1>3, <2>1
    <3> QED
      BY <1>1, <3>3, <3>4 DEF Finished
  <2> QED
    BY <2>3, <2>4 DEF ReadSoFar
<1>9. \A j \in Upto(file, i) : Finished(file, n, i, j, t) \/ BeingRead(file, i, j, t)
  BY <1>3, <1>7, <1>8
<1>10. t.section = IF SectionOf(file, i) = 0 THEN "" ELSE file[SectionOf(file, i)][2]
  <2>1. i # 0
    OBVIOUS
  <2> QED
    BY <1>1, <1>4, <2>1, Zenon DEF name
<1>11. ReadSoFar(file, n, i, t)
  BY <1>1, <1>2, <1>3, <1>5, <1>6, <1>9, <1>10 DEF ReadSoFar
<1> QED
  BY <1>11 DEF t

\* A setting of the server that is being read.
LEMMA LineSetting ==
  ASSUME NEW file, NEW n \in Nat, DOMAIN file = 1 .. n, Orderly(file), NEW i \in 1 .. n, NEW s,
         ReadSoFar(file, n, i - 1, s), file[i][1] = "key", file[i][2] \in {"host", "user", "port"},
         SectionOf(file, i) \in Sections(file)
  PROVE  ReadSoFar(file, n, i, SetServer(s, file[i][2], file[i][3]))
<1> DEFINE k == file[i][2]
           v == file[i][3]
           j == SectionOf(file, i)
           t == SetServer(s, k, v)
<1>0. i \in Nat \ {0} /\ i - 1 \in 0 .. n /\ 1 .. i = (1 .. i - 1) \cup {i}
  BY FirstLines, Zenon
<1>1. /\ ~IsSection(file, i) /\ SectionOf(file, i - 1) = j /\ i \notin Sections(file)
      /\ j \in 1 .. n /\ j # 0 /\ Setting(file, i, k) /\ k \in {"host", "user", "port"}
  <2>1. ~IsSection(file, i)
    BY DEF IsSection
  <2>2. SectionOf(file, i) = SectionOf(file, i - 1)
    BY <2>1, SameSection, Zenon
  <2>3. i \notin Sections(file)
    BY <2>1 DEF Sections, IsSection
  <2> QED
    BY <2>1, <2>2, <2>3 DEF Sections, Setting
<1>2. Upto(file, i) = Upto(file, i - 1) /\ ServerNumber(file, i) = ServerNumber(file, i - 1)
  BY <1>1, SectionsCounted
<1>3. j \in Upto(file, i - 1) /\ \A c \in Upto(file, i - 1) : c <= j
  <2>1. i - 1 \in 0 .. n
    BY <1>0
  <2>2. j \in 0 .. i - 1
    BY <1>1, <2>1, SectionStep
  <2>3. \A c \in Upto(file, i - 1) : c <= j
    <3> TAKE c \in Upto(file, i - 1)
    <3>1. c \in 1 .. n /\ IsSection(file, c) /\ i - 1 \in c .. n
      BY <2>1 DEF Upto, Sections, IsSection
    <3> QED
      BY <1>1, <3>1, SectionsGrow
  <2> QED
    BY <2>2, <2>3 DEF Upto
<1>4. HasSaid(file, i - 1, j, s.srv)
  <2>1. ~Finished(file, n, i - 1, j, s)
    BY <1>1, <1>3 DEF Finished, Upto, Sections
  <2> QED
    BY <1>3, <2>1 DEF ReadSoFar, BeingRead
<1>5. s.section = file[j][2] /\ s.srv.name = file[j][2]
  BY <1>1, <1>4 DEF ReadSoFar, HasSaid
<1>6. /\ t.idx = s.idx /\ t.section = s.section /\ t.conf = s.conf
      /\ Has(t.srv, ServerFields) /\ t.srv.name = s.srv.name
      /\ t.srv.host = IF k = "host" THEN Over(s.srv.host, v) ELSE s.srv.host
      /\ t.srv.user = IF k = "user" THEN Over(s.srv.user, v) ELSE s.srv.user
      /\ t.srv.port = IF k = "port" /\ AsInt(v).ret = 0 THEN AsInt(v).val ELSE s.srv.port
  <2>1. Shaped(s) /\ Has(s.srv, ServerFields)
    BY DEF ReadSoFar
  <2>2. Over(s.srv.name, s.section) = s.srv.name
    BY <1>5, OverIs
  <2> HIDE DEF k, v
  <2> QED
    BY <1>1, <2>1, <2>2, SetServerDoes
<1>7. Shaped(t)
  <2>1. ReadLine(s, <<"key", k, v>>) = ReadKey(s, k, v)
    BY DEF ReadLine
  <2>2. s.section # "pgvictoria" /\ s.section # ""
    BY <1>5 DEF Orderly, Sections
  <2>3. ReadKey(s, k, v) = t
    BY <1>1, <2>2, Zenon DEF ReadKey
  <2> HIDE DEF t
  <2> QED
    BY <2>1, <2>3, LineShaped DEF ReadSoFar
<1>8. ASSUME NEW key \in {"host", "user", "port"}
      PROVE  /\ key = k => InSection(file, i, j, key) = {i} /\ InSection(file, i - 1, j, key) = {}
             /\ key # k => InSection(file, i, j, key) = InSection(file, i - 1, j, key)
  <2>1. 1 .. i = (1 .. i - 1) \cup {i}
    BY <1>0
  <2>2. CASE key = k
    <3>1. \A m \in 1 .. i - 1 : ~(Setting(file, m, key) /\ SectionOf(file, m) = j)
      <4> TAKE m \in 1 .. i - 1
      <4>1. m \in DOMAIN file /\ i \in DOMAIN file /\ m # i
        OBVIOUS
      <4> QED
        BY <1>1, <2>2, <4>1 DEF Orderly
    <3> QED
      BY <1>1, <2>1, <2>2, <3>1 DEF InSection
  <2>3. CASE key # k
    <3>1. ~Setting(file, i, key)
      BY <2>3 DEF Setting
    <3> QED
      BY <2>1, <2>3, <3>1 DEF InSection
  <2> QED
    BY <2>2, <2>3
<1>9. HasSaid(file, i, j, t.srv)
  <2> HIDE DEF k, t, j
  <2>1. CASE k = "host"
    <3>1. s.srv.host = "" /\ Over("", v) = v
      BY <1>4, <1>8, <2>1, OverIs DEF HasSaid
    <3>2. t.srv.host = v /\ t.srv.user = s.srv.user /\ t.srv.port = s.srv.port
      BY <1>6, <2>1, <3>1
    <3>3. /\ InSection(file, i, j, "host") = {i}
          /\ InSection(file, i, j, "user") = InSection(file, i - 1, j, "user")
          /\ InSection(file, i, j, "port") = InSection(file, i - 1, j, "port")
      BY <1>8, <2>1
    <3> QED
      BY <1>4, <1>6, <3>2, <3>3 DEF HasSaid
  <2>2. CASE k = "user"
    <3>1. s.srv.user = "" /\ Over("", v) = v
      BY <1>4, <1>8, <2>2, OverIs DEF HasSaid
    <3>2. t.srv.user = v /\ t.srv.host = s.srv.host /\ t.srv.port = s.srv.port
      BY <1>6, <2>2, <3>1
    <3>3. /\ InSection(file, i, j, "user") = {i}
          /\ InSection(file, i, j, "host") = InSection(file, i - 1, j, "host")
          /\ InSection(file, i, j, "port") = InSection(file, i - 1, j, "port")
      BY <1>8, <2>2
    <3> QED
      BY <1>4, <1>6, <3>2, <3>3 DEF HasSaid
  <2>3. CASE k = "port"
    <3>1. s.srv.port = 0
      BY <1>4, <1>8, <2>3 DEF HasSaid
    <3>2. /\ t.srv.port = IF AsInt(v).ret = 0 THEN AsInt(v).val ELSE 0
          /\ t.srv.host = s.srv.host /\ t.srv.user = s.srv.user
      BY <1>6, <2>3, <3>1
    <3>3. /\ InSection(file, i, j, "port") = {i}
          /\ InSection(file, i, j, "host") = InSection(file, i - 1, j, "host")
          /\ InSection(file, i, j, "user") = InSection(file, i - 1, j, "user")
      BY <1>8, <2>3
    <3> QED
      BY <1>4, <1>6, <3>2, <3>3 DEF HasSaid
  <2> QED
    BY <1>1, <2>1, <2>2, <2>3
<1> HIDE DEF t
<1>10. ASSUME NEW m \in Upto(file, i)
       PROVE  Finished(file, n, i, m, t) \/ BeingRead(file, i, m, t)
  <2>1. CASE m = j
    <3>1. \A c \in Upto(file, i) : c <= m
      BY <1>2, <1>3, <2>1
    <3>2. HasSaid(file, i, m, t.srv)
      BY <1>9, <2>1, Zenon
    <3> QED
      BY <3>1, <3>2 DEF BeingRead
  <2>2. CASE m # j
    <3>1. ~BeingRead(file, i - 1, m, s)
      BY <1>2, <1>3, <2>2 DEF BeingRead, Upto, Sections
    <3>2. Finished(file, n, i - 1, m, s)
      BY <1>2, <3>1 DEF ReadSoFar
    <3> QED
      BY <1>2, <1>6, <3>2 DEF Finished
  <2> QED
    BY <2>1, <2>2
<1>11. t.section = IF SectionOf(file, i) = 0 THEN "" ELSE file[SectionOf(file, i)][2]
  BY <1>1, <1>5, <1>6, Zenon
<1>12. DOMAIN t.conf.servers = 1 .. NUMBER_OF_SERVERS /\ t.idx = ServerNumber(file, i)
  BY <1>2, <1>6 DEF ReadSoFar
<1>13. ReadSoFar(file, n, i, t)
  BY <1>6, <1>7, <1>10, <1>11, <1>12 DEF ReadSoFar
<1> QED
  BY <1>13 DEF t

\* Every line of an orderly file keeps what has been read.
LEMMA ReadStep ==
  ASSUME NEW file, NEW n \in Nat, DOMAIN file = 1 .. n, Orderly(file), NEW i \in 1 .. n, NEW s,
         ReadSoFar(file, n, i - 1, s), NEW t, t = ReadLine(s, file[i])
  PROVE  ReadSoFar(file, n, i, t)
<1> DEFINE l == file[i]
<1>1. Shaped(s) /\ Shaped(t)
  BY LineShaped DEF ReadSoFar
<1>2. CASE l[1] = "section"
  <2>1. SectionOf(file, i) = i
    BY <1>2, SectionStep, Zenon DEF IsSection
  <2>2. t = ReadSection(s, l[2])
    BY <1>2, Zenon DEF ReadLine
  <2>3. CASE i \in Sections(file)
    BY <2>2, <2>3, LineServer
  <2>4. CASE i \notin Sections(file)
    <3>1. l[2] = "pgvictoria"
      BY <1>2, <2>4 DEF Sections
    <3>2. t = [s EXCEPT !.section = l[2]]
      BY <2>2, <3>1, Zenon DEF ReadSection
    <3>3. /\ t.section = l[2] /\ t.idx = s.idx /\ t.srv = s.srv /\ t.conf.servers = s.conf.servers
      BY <1>1, <3>2, FieldSet DEF Shaped, ReaderFields
    <3>4. i # 0
      OBVIOUS
    <3>5. t.section = IF SectionOf(file, i) = 0 THEN "" ELSE file[SectionOf(file, i)][2]
      BY <2>1, <3>3, <3>4, Zenon
    <3>6. SectionOf(file, i) \notin Sections(file)
      BY <2>1, <2>4
    <3>7. Shaped(t) /\ ReadSoFar(file, n, i - 1, s)
      BY <1>1
    <3> QED
      BY <2>4, <3>3, <3>5, <3>6, <3>7, LineElsewhere, Zenon
  <2> QED
    BY <2>3, <2>4
<1>3. CASE l[1] # "section"
  <2>1. ~IsSection(file, i) /\ SectionOf(file, i) = SectionOf(file, i - 1)
    <3>1. ~IsSection(file, i)
      BY <1>3 DEF IsSection
    <3> QED
      BY <3>1, SameSection, Zenon
  <2>2. i \notin Sections(file)
    BY <1>3 DEF Sections
  <2>3. s.section = IF SectionOf(file, i) = 0 THEN "" ELSE file[SectionOf(file, i)][2]
    BY <2>1 DEF ReadSoFar
  <2>4. ASSUME t = s, \/ SectionOf(file, i) \notin Sections(file)
                      \/ \A key \in {"host", "user", "port"} : ~Setting(file, i, key)
        PROVE  ReadSoFar(file, n, i, t)
    <3> QED
      BY <1>1, <2>2, <2>3, <2>4, LineElsewhere
  <2>5. CASE l[1] # "key"
    <3>1. t = s
      BY <1>3, <2>5, Zenon DEF ReadLine
    <3>2. \A key \in {"host", "user", "port"} : ~Setting(file, i, key)
      BY <2>5 DEF Setting
    <3> QED
      BY <2>4, <3>1, <3>2
  <2>6. CASE l[1] = "key"
    <3>1. t = ReadKey(s, l[2], l[3])
      BY <2>6, Zenon DEF ReadLine
    <3>2. CASE SectionOf(file, i) \in Sections(file)
      <4>1. s.section # "pgvictoria" /\ s.section # ""
        <5>1. SectionOf(file, i) # 0
          BY <3>2 DEF Sections
        <5>2. s.section = file[SectionOf(file, i)][2]
          BY <2>3, <5>1, Zenon
        <5> QED
          BY <3>2, <5>2, Zenon DEF Sections, Orderly
      <4>2. CASE l[2] \in {"host", "user", "port"}
        <5>1. t = SetServer(s, l[2], l[3])
          BY <3>1, <4>1, <4>2, Zenon DEF ReadKey
        <5> QED
          BY <2>6, <3>2, <4>2, <5>1, LineSetting
      <4>3. CASE l[2] \notin {"host", "user", "port"}
        <5>1. t = s
          BY <3>1, <4>1, <4>3, Zenon DEF ReadKey
        <5>2. \A key \in {"host", "user", "port"} : ~Setting(file, i, key)
          BY <4>3 DEF Setting
        <5> QED
          BY <2>4, <5>1, <5>2
      <4> QED
        BY <4>2, <4>3
    <3>3. CASE SectionOf(file, i) \notin Sections(file)
      <4>1. s.section \in {"", "pgvictoria"}
        <5>1. i \in 0 .. n
          OBVIOUS
        <5>2. SectionOf(file, i) # 0 => SectionOf(file, i) \in 1 .. n /\ IsSection(file, SectionOf(file, i))
          BY <5>1, SectionStep
        <5> QED
          BY <2>3, <3>3, <5>2 DEF Sections, IsSection
      <4>2. CASE l[2] \in {"port", "user"} /\ s.section # ""
        <5>1. t = SetServer(s, l[2], l[3])
          BY <3>1, <4>2, Zenon DEF ReadKey
        <5>2. /\ t.idx = s.idx /\ t.section = s.section /\ t.conf = s.conf
              /\ Has(t.srv, ServerFields)
          <6>1. l[2] \in {"host", "port", "user"} /\ Has(s.srv, ServerFields)
            BY <4>2 DEF ReadSoFar
          <6> HIDE DEF l
          <6> QED
            BY <1>1, <5>1, <6>1, SetServerDoes
        <5>3. Upto(file, i) = {}
          <6>1. Setting(file, i, l[2]) /\ i \in DOMAIN file
            BY <2>6 DEF Setting
          <6> SUFFICES ASSUME NEW j \in Upto(file, i) PROVE FALSE
            OBVIOUS
          <6>2. j \in Sections(file) /\ i > j
            BY <2>2 DEF Upto, Sections
          <6> QED
            BY <3>3, <4>2, <6>1, <6>2 DEF Orderly
        <5>4. ServerNumber(file, i) = ServerNumber(file, i - 1)
          BY <2>2, SectionsCounted
        <5>5. t.section = IF SectionOf(file, i) = 0 THEN "" ELSE file[SectionOf(file, i)][2]
          BY <2>3, <5>2, Zenon
        <5>6. Shaped(t) /\ t.idx = ServerNumber(file, i)
              /\ DOMAIN t.conf.servers = 1 .. NUMBER_OF_SERVERS
          BY <1>1, <5>2, <5>4 DEF ReadSoFar
        <5>7. \A j \in Upto(file, i) : Finished(file, n, i, j, t) \/ BeingRead(file, i, j, t)
          BY <5>3
        <5> QED
          BY <5>2, <5>5, <5>6, <5>7, Zenon DEF ReadSoFar
      <4>3. CASE ~(l[2] \in {"port", "user"} /\ s.section # "")
        <5>1. t = s \/ t = SetMain(s, l[2], l[3])
          BY <3>1, <4>1, <4>3, Zenon DEF ReadKey
        <5>2. SameServers(s, SetMain(s, l[2], l[3])) /\ SameServers(s, s)
          BY <1>1, SetMainKeeps DEF SameServers
        <5>3. /\ t.idx = s.idx /\ t.srv = s.srv /\ t.conf.servers = s.conf.servers
              /\ t.section = s.section
          BY <5>1, <5>2 DEF SameServers
        <5>4. t.section = IF SectionOf(file, i) = 0 THEN "" ELSE file[SectionOf(file, i)][2]
          BY <2>3, <5>3, Zenon
        <5>5. Shaped(t) /\ ReadSoFar(file, n, i - 1, s)
          BY <1>1
        <5> QED
          BY <2>2, <3>3, <5>3, <5>4, <5>5, LineElsewhere, Zenon
      <4> QED
        BY <4>2, <4>3
    <3> QED
      BY <3>2, <3>3
  <2> QED
    BY <2>5, <2>6
<1> QED
  BY <1>2, <1>3

\* A reading that is defined has stored every server of an orderly file.
LEMMA ServersRead ==
  ASSUME NEW main \in MainFiles, Orderly(main), Reading[main].defined
  PROVE  \A j \in Sections(main) :
           HasSaid(main, Len(main), j, Reading[main].conf.servers[ServerNumber(main, j)])
<1> DEFINE n == Len(main)
           s == FoldLeft(ReadLine, Unread, main)
<1>1. n \in Nat /\ DOMAIN main = 1 .. n
  BY ReloadAssumption
<1> HIDE DEF n
<1>2. PICK h : /\ h[0] = Unread /\ h[n] = s
               /\ \A i \in 1 .. n : h[i] = ReadLine(h[i - 1], main[i])
  BY <1>1, FoldSteps
<1> HIDE DEF s
<1>3. ReadSoFar(main, n, 0, Unread)
  <2>1. Upto(main, 0) = {} /\ ServerNumber(main, 0) = 0
    BY <1>1, SectionsCounted
  <2>2. SectionOf(main, 0) = 0
    BY <1>1, SectionStep
  <2>3. Shaped(Unread)
    BY DEF Shaped, Has, Unread, Initial, Console, Settings, LogFields, ReaderFields
  <2>4. Has(NoServer, ServerFields)
    BY DEF Has, NoServer, ServerFields
  <2>5. /\ Unread.idx = 0 /\ Unread.section = "" /\ Unread.srv = NoServer
        /\ DOMAIN Unread.conf.servers = 1 .. NUMBER_OF_SERVERS
    BY DEF Unread, Initial
  <2> QED
    BY <2>1, <2>2, <2>3, <2>4, <2>5 DEF ReadSoFar
<1> DEFINE L == {i \in Nat : i <= n => ReadSoFar(main, n, i, h[i])}
<1>4. 0 \in L
  BY <1>2, <1>3
<1>5. ASSUME NEW i \in Nat, i \in L PROVE i + 1 \in L
  <2> SUFFICES ASSUME i + 1 <= n PROVE ReadSoFar(main, n, i + 1, h[i + 1])
    OBVIOUS
  <2>1. i + 1 \in 1 .. n /\ (i + 1) - 1 = i
    BY <1>1
  <2>2. ReadSoFar(main, n, (i + 1) - 1, h[(i + 1) - 1])
    BY <1>1, <1>5, <2>1
  <2>3. ReadSoFar(main, n, i + 1, ReadLine(h[(i + 1) - 1], main[i + 1]))
    BY <1>1, <2>1, <2>2, ReadStep
  <2> QED
    BY <1>2, <2>1, <2>3
<1> HIDE DEF L
<1>6. ReadSoFar(main, n, n, s)
  <2>1. n \in L
    BY <1>1, <1>4, <1>5, SetInduction
  <2> QED
    BY <1>1, <1>2, <2>1 DEF L
<1>7. /\ Reading[main].conf.servers = IF s.srv.name # "" /\ s.idx \in 1 .. NUMBER_OF_SERVERS
                                      THEN Stored(s) ELSE s.conf.servers
      /\ s.srv.name # "" => s.idx \in 1 .. NUMBER_OF_SERVERS
  <2>1. Has(s.conf, Settings)
    BY <1>6 DEF ReadSoFar, Shaped
  <2> DEFINE servers == IF s.srv.name # "" /\ s.idx \in 1 .. NUMBER_OF_SERVERS
                        THEN Stored(s) ELSE s.conf.servers
             a == [s.conf EXCEPT !.servers = servers]
             b == [a EXCEPT !.n = s.idx]
  <2>2. Reading[main].conf = b /\ (s.srv.name # "" => s.idx \in 1 .. NUMBER_OF_SERVERS)
    BY DEF Reading, ReadMain, LastStored, s
  <2> HIDE DEF servers
  <2>3. Has(a, Settings) /\ a.servers = servers
    BY <2>1, FieldSet DEF Settings
  <2> HIDE DEF a
  <2>4. b.servers = a.servers
    BY <2>3, FieldSet DEF Settings
  <2> QED
    BY <2>2, <2>3, <2>4 DEF servers
<1> DEFINE stored == Reading[main].conf.servers
<1> SUFFICES ASSUME NEW j \in Sections(main)
             PROVE  HasSaid(main, n, j, stored[ServerNumber(main, j)])
  BY DEF n
<1> HIDE DEF stored
<1>8. /\ Upto(main, n) = Sections(main)
      /\ \A k \in Sections(main) : /\ k \in 1 .. n /\ k \in Nat /\ k \in 0 .. n
                                   /\ k - 1 \in 0 .. n /\ n \in k .. n
  BY <1>1, SectionsAreLines
<1>9. ServerNumber(main, j) \in Nat \ {0}
  <2>1. ServerNumber(main, j) = ServerNumber(main, j - 1) + 1
    BY <1>1, <1>8, SectionsCounted
  <2>2. ServerNumber(main, j - 1) \in Nat
    BY <1>1, <1>8, SectionsCounted
  <2> QED
    BY <2>1, <2>2
<1>10. PICK c \in Sections(main) : \A d \in Sections(main) : d <= c
  <2>1. Sections(main) \in SUBSET (1 .. n) /\ Sections(main) # {}
    BY <1>8
  <2>2. Max(Sections(main)) \in Sections(main)
        /\ \A d \in Sections(main) : Max(Sections(main)) >= d
    BY <1>1, <2>1, MaxOf
  <2>3. Max(Sections(main)) \in Nat
    BY <1>8, <2>2
  <2>4. \A d \in Sections(main) : d <= Max(Sections(main))
    BY <1>8, <2>2, <2>3
  <2> QED
    BY <2>2, <2>4
<1>11. HasSaid(main, n, c, s.srv) /\ s.srv.name # "" /\ s.idx \in 1 .. NUMBER_OF_SERVERS
  <2>1. ~Finished(main, n, n, c, s)
    <3>1. ~ \E d \in Sections(main) : c < d
      BY <1>8, <1>10
    <3> QED
      BY <1>8, <3>1 DEF Finished
  <2>2. HasSaid(main, n, c, s.srv)
    BY <1>6, <1>8, <1>10, <2>1 DEF ReadSoFar, BeingRead
  <2>3. s.srv.name = main[c][2] /\ main[c][2] # ""
    BY <1>10, <2>2, Zenon DEF HasSaid, Orderly
  <2> QED
    BY <1>7, <2>2, <2>3
<1>12. s.idx = ServerNumber(main, c)
  <2>1. Upto(main, c) = Sections(main)
    BY <1>10, Zenon DEF Upto
  <2> QED
    BY <1>6, <1>8, <2>1 DEF ReadSoFar, ServerNumber
<1>13. stored = [s.conf.servers EXCEPT ![s.idx] = s.srv]
  BY <1>7, <1>11 DEF Stored, stored
<1>14. DOMAIN s.conf.servers = 1 .. NUMBER_OF_SERVERS
  BY <1>6 DEF ReadSoFar
<1>15. CASE j = c
  BY <1>11, <1>12, <1>13, <1>14, <1>15
<1>16. CASE j # c
  <2>1. j < c
    <3>1. j <= c /\ j \in Nat /\ c \in Nat
      BY <1>8, <1>10
    <3> QED
      BY <1>16, <3>1
  <2>2. ServerNumber(main, j) < s.idx
    BY <1>1, <1>12, <2>1, NumbersGrow
  <2>3. NUMBER_OF_SERVERS \in Nat
    BY MainConfigAssumption
  <2>4. ServerNumber(main, j) \in 1 .. NUMBER_OF_SERVERS /\ ServerNumber(main, j) # s.idx
        /\ ServerNumber(main, j) <= NUMBER_OF_SERVERS
    <3> DEFINE a == ServerNumber(main, j)
               b == s.idx
    <3>1. a \in Nat \ {0} /\ b \in 1 .. NUMBER_OF_SERVERS /\ a < b
      BY <1>9, <1>11, <2>2
    <3> HIDE DEF a, b
    <3>2. a \in 1 .. NUMBER_OF_SERVERS /\ a # b /\ a <= NUMBER_OF_SERVERS
      BY <2>3, <3>1
    <3> QED
      BY <3>2 DEF a, b
  <2>5. ~BeingRead(main, n, j, s)
    <3>1. ~(c <= j) /\ c \in Upto(main, n)
      <4>1. j \in Nat /\ c \in Nat
        BY <1>8
      <4> QED
        BY <1>8, <2>1, <4>1
    <3> QED
      BY <3>1, Zenon DEF BeingRead
  <2>6. HasSaid(main, n, j, s.conf.servers[ServerNumber(main, j)])
    BY <1>6, <1>8, <2>4, <2>5 DEF ReadSoFar, Finished
  <2>7. stored[ServerNumber(main, j)] = s.conf.servers[ServerNumber(main, j)]
    BY <1>13, <1>14, <2>4
  <2> QED
    BY <2>6, <2>7
<1> QED
  BY <1>15, <1>16

-----------------------------------------------------------------------------
(* The calls of logging.c leave the settings of the log alone, but for the two of *)
(* the rotation, which a failure switches off.                                     *)

Fixed == {"type", "level", "path", "mode"}

SameLog(l, k) == Has(l, LogFields) /\ \A x \in Fixed : l[x] = k[x]

\* A field that is none of the settings.
LEMMA OtherField ==
  ASSUME NEW l, NEW k, SameLog(l, k), NEW v
  PROVE  /\ SameLog([l EXCEPT !.fp = v], k) /\ SameLog([l EXCEPT !.current = v], k)
         /\ SameLog([l EXCEPT !.next = v], k) /\ SameLog([l EXCEPT !.age = v], k)
         /\ SameLog([l EXCEPT !.size = v], k) /\ SameLog([l EXCEPT !.broken = v], k)
<1>1. ASSUME NEW y \in LogFields \ Fixed PROVE SameLog([l EXCEPT ![y] = v], k)
  BY <1>1, FieldSet DEF SameLog, Fixed, LogFields
<1> QED
  BY <1>1 DEF Fixed, LogFields

\* pgvictoria_log_file_open, and what a rotation does.
LEMMA OpenKeeps ==
  ASSUME NEW l, NEW k, SameLog(l, k), NEW fs, NEW opens
  PROVE  SameLog(FileOpen(l, fs, now, opens).log, k) /\ SameLog(RotationDisable(l), k)
<1>1. ASSUME NEW t, SameLog(t, k) PROVE SameLog(RotationDisable(t), k)
  <2> DEFINE a == [t EXCEPT !.age = 0]
             b == [a EXCEPT !.size = 0]
             c == [b EXCEPT !.next = 0]
  <2>1. RotationDisable(t) = c
    BY DEF RotationDisable
  <2>2. SameLog(a, k)
    BY <1>1, OtherField
  <2>3. SameLog(b, k)
    BY <2>2, OtherField
  <2>4. SameLog(c, k)
    BY <2>3, OtherField
  <2> QED
    BY <2>1, <2>4
<1> DEFINE named == IF l.path = NoPath THEN [RotationDisable(l) EXCEPT !.current = Fallback]
                    ELSE [l EXCEPT !.current = PathAt[l.path, now]]
           fp == IF opens THEN named.current ELSE NoFile
           opened == [named EXCEPT !.fp = fp]
<1>2. SameLog(named, k)
  <2>1. \A c : SameLog([RotationDisable(l) EXCEPT !.current = c], k)
    BY <1>1, OtherField
  <2>2. \A c : SameLog([l EXCEPT !.current = c], k)
    BY OtherField
  <2> QED
    BY <2>1, <2>2, Zenon
<1> HIDE DEF named
<1> DEFINE gs == IF l.mode = "create" /\ l.fp = NoFile
                 THEN [fs EXCEPT ![named.current] = <<>>] ELSE fs
<1>3. FileOpen(l, fs, now, opens).log = IF opens THEN SetNextAge(opened, now) ELSE opened
  <2>1. FileOpen(l, fs, now, opens) =
          IF opens THEN Outcome(SetNextAge([named EXCEPT !.fp = named.current], now), gs)
          ELSE Outcome([named EXCEPT !.fp = NoFile], fs)
    BY Zenon DEF FileOpen, named
  <2> HIDE DEF gs
  <2> QED
    BY <2>1 DEF Outcome
<1> HIDE DEF fp
<1>4. SameLog(opened, k)
  BY <1>2, OtherField
<1> HIDE DEF opened
<1>5. SameLog(SetNextAge(opened, now), k)
  BY <1>4, OtherField DEF SetNextAge
<1> QED
  BY <1>1, <1>3, <1>4, <1>5

\* pgvictoria_start_logging, pgvictoria_stop_logging and pgvictoria_log_line.
LEMMA LogKeeps ==
  ASSUME NEW l, NEW k, SameLog(l, k), NEW fs, NEW opens, NEW who, NEW level
  PROVE  /\ SameLog(StartLogging(l, fs, now, opens).log, k)
         /\ SameLog(StopLogging(l), k)
         /\ SameLog(LogLine(l, fs, now, opens, who, level).log, k)
<1>1. SameLog(StartLogging(l, fs, now, opens).log, k)
  <2> DEFINE o == FileOpen(l, fs, now, opens)
  <2>1. SameLog(o.log, k)
    BY OpenKeeps
  <2>2. SameLog(RotationDisable(o.log), k)
    BY <2>1, OpenKeeps
  <2>3. StartLogging(l, fs, now, opens).log \in {o.log, RotationDisable(o.log), l}
    BY DEF StartLogging, Outcome
  <2> QED
    BY <2>1, <2>2, <2>3
<1>2. SameLog(StopLogging(l), k)
  <2> DEFINE a == [l EXCEPT !.fp = Closed]
             b == [a EXCEPT !.broken = l.broken \/ l.fp = Closed]
  <2>1. SameLog(a, k)
    BY OtherField
  <2>2. SameLog(b, k)
    BY <2>1, OtherField
  <2>3. StopLogging(l) = b \/ StopLogging(l) = l
    BY DEF StopLogging
  <2> QED
    BY <2>2, <2>3
<1>3. SameLog(LogLine(l, fs, now, opens, who, level).log, k)
  <2> DEFINE written == [fs EXCEPT ![l.fp] = Append(@, who)]
             a == [l EXCEPT !.fp = NoFile]
             o == FileOpen(a, written, now, opens)
  <2>1. SameLog(a, k) /\ SameLog([l EXCEPT !.broken = TRUE], k)
    BY OtherField
  <2>2. SameLog(o.log, k)
    BY <2>1, OpenKeeps
  <2>3. LogLine(l, fs, now, opens, who, level).log \in {l, [l EXCEPT !.broken = TRUE], o.log}
    BY DEF LogLine, FileRotate, Outcome
  <2> QED
    BY <2>1, <2>2, <2>3
<1> QED
  BY <1>1, <1>2, <1>3

\* What a reload does to the log: the level always, the rest with a restart of the log;
\* the type stays as it was.
LEMMA TransferKeeps ==
  ASSUME NEW l, NEW k, Has(l, LogFields), Has(k, LogFields), NEW fs, NEW opens
  PROVE  SameLog(TransferredLog(l, k, fs, now, opens).log, [k EXCEPT !.type = l.type])
<1> DEFINE w == [k EXCEPT !.type = l.type]
           level == [l EXCEPT !.level = k.level]
           stopped == StopLogging(level)
           a == [stopped EXCEPT !.path = k.path]
           b == [a EXCEPT !.mode = k.mode]
           c == [b EXCEPT !.size = k.size]
           d == [c EXCEPT !.age = k.age]
<1>1. TransferredLog(l, k, fs, now, opens).log =
        IF RestartsLog(l, k) THEN StartLogging(d, fs, now, opens).log ELSE level
  BY DEF TransferredLog, Outcome
<1>0. /\ w.type = l.type /\ w.level = k.level /\ w.path = k.path /\ w.mode = k.mode
  BY FieldSet DEF LogFields
<1> HIDE DEF w
<1>2. Has(level, LogFields) /\ level.level = k.level /\ level.type = l.type
      /\ level.path = l.path /\ level.mode = l.mode
  BY FieldSet DEF LogFields
<1> HIDE DEF level
<1>3. SameLog(stopped, level)
  <2>1. SameLog(level, level)
    BY <1>2 DEF SameLog
  <2> QED
    BY <2>1, LogKeeps
<1> HIDE DEF stopped
<1>4. Has(a, LogFields) /\ a.path = k.path /\ a.type = l.type /\ a.level = k.level
  BY <1>2, <1>3, FieldSet DEF SameLog, Fixed, LogFields
<1> HIDE DEF a
<1>5. Has(b, LogFields) /\ b.mode = k.mode /\ b.path = k.path /\ b.type = l.type /\ b.level = k.level
  BY <1>4, FieldSet DEF LogFields
<1> HIDE DEF b
<1>6. SameLog(b, w)
  BY <1>0, <1>5 DEF SameLog, Fixed
<1>7. SameLog(c, w)
  BY <1>6, OtherField
<1> HIDE DEF c
<1>8. SameLog(d, w)
  BY <1>7, OtherField
<1> HIDE DEF d
<1>9. SameLog(StartLogging(d, fs, now, opens).log, w)
  BY <1>8, LogKeeps
<1>10. ~RestartsLog(l, k) => SameLog(level, w)
  BY <1>0, <1>2 DEF RestartsLog, SameLog, Fixed
<1> QED
  BY <1>1, <1>9, <1>10 DEF w

-----------------------------------------------------------------------------
(* The program. *)

Alike(c, d) == \A x \in Settings \ {"prefix", "pidfile"} : c[x] = d[x]

\* Settings that are alike but for the prefix and the pidfile.
LEMMA KeptAlike ==
  ASSUME NEW c, NEW d, Has(c, Settings), Has(d, Settings), Alike(c, d)
  PROVE  Kept(c) = Kept(d)
<1>1. ASSUME NEW e, Has(e, Settings)
      PROVE  /\ Has(Kept(e), Settings) /\ Kept(e)["prefix"] = "" /\ Kept(e)["pidfile"] = ""
             /\ \A x \in Settings \ {"prefix", "pidfile"} : Kept(e)[x] = e[x]
  <2> DEFINE a == [e EXCEPT !.prefix = ""]
             b == [a EXCEPT !.pidfile = ""]
  <2>0. "prefix" \in Settings /\ "pidfile" \in Settings
    BY DEF Settings
  <2>1. Has(a, Settings) /\ a["prefix"] = "" /\ \A x \in Settings \ {"prefix"} : a[x] = e[x]
    <3>1. Has(a, Settings)
      BY <1>1, <2>0, FieldSet
    <3> QED
      BY <1>1, <2>0, <3>1 DEF Has
  <2> HIDE DEF a
  <2>2. /\ Has(b, Settings) /\ b["pidfile"] = "" /\ b["prefix"] = a["prefix"]
        /\ \A x \in Settings \ {"pidfile"} : b[x] = a[x]
    <3>1. Has(b, Settings)
      BY <2>0, <2>1, FieldSet
    <3> QED
      BY <2>0, <2>1, <3>1 DEF Has
  <2>3. Kept(e) = b
    BY DEF Kept, a
  <2> HIDE DEF b
  <2> QED
    BY <2>1, <2>2, <2>3
<1>2. \A x \in Settings : Kept(c)[x] = Kept(d)[x]
  BY <1>1 DEF Alike
<1>3. Has(Kept(c), Settings) /\ Has(Kept(d), Settings)
  BY <1>1
<1> DEFINE p == Kept(c)
           q == Kept(d)
<1> HIDE DEF p, q
<1>4. p = q
  BY <1>2, <1>3 DEF Has, p, q
<1> QED
  BY <1>4 DEF p, q

\* Between two readings that ask for no restart nothing is left to compare but what the
\* last one read: the settings and the log are those of the files, and were validated.
Current ==
  /\ last.main \in MainFiles
  /\ Reading[last.main].defined
  /\ Alike(config, Fresh(last.main, last.users))
  /\ SameLog(log, Reading[last.main].log)
  /\ ValidUsers(Fresh(last.main, last.users))

ReloadInv ==
  /\ Has(config, Settings)
  /\ Has(log, LogFields)
  /\ phase = "running" /\ ~last.restart => Current

\* A program that starts has what it has read, and what it has read was validated.
LEMMA StartHolds ==
  ASSUME ReloadInv, NEW main \in MainFiles, NEW users \in UsersFiles, Start(main, users)
  PROVE  ReloadInv'
<1> DEFINE fresh == Fresh(main, users)
           read == Reading[main].log
<1>1. Has(fresh, Settings) /\ Has(read, LogFields)
  BY FreshShaped, ReadingShaped
<1>2. /\ config' = fresh
      /\ \/ phase' = "failed" /\ log' = read
         \/ \E opens \in BOOLEAN : /\ log' = StartLogging(read, files, now, opens).log
                                   /\ phase' = "running" => ValidUsers(fresh)
      /\ Reading[main].defined
      /\ \E r : last' = [main |-> main, users |-> users, restart |-> r]
  BY Zenon DEF Start, Reading
<1> HIDE DEF fresh, read
<1>3. SameLog(log', read)
  <2>1. SameLog(read, read)
    BY <1>1 DEF SameLog
  <2>2. \A opens : SameLog(StartLogging(read, files, now, opens).log, read)
    BY <2>1, LogKeeps
  <2> QED
    BY <1>2, <2>1, <2>2
<1>4. phase' = "running" => Current'
  <2>1. last'.main = main /\ last'.users = users
    BY <1>2
  <2>2. Fresh(last'.main, last'.users) = fresh /\ Reading[last'.main].log = read
    BY <2>1 DEF fresh, read
  <2>3. Alike(config', fresh)
    BY <1>2 DEF Alike
  <2>4. phase' = "running" => ValidUsers(fresh)
    BY <1>2
  <2> QED
    BY <1>2, <1>3, <2>1, <2>2, <2>3, <2>4 DEF Current
<1>5. Has(config', Settings) /\ Has(log', LogFields)
  BY <1>1, <1>2, <1>3 DEF SameLog
<1> QED
  BY <1>4, <1>5 DEF ReloadInv

\* A reload takes over what it takes over, and what it does not is the same or asks for
\* a restart.
LEMMA ReloadHolds ==
  ASSUME ReloadInv, NEW main \in MainFiles, NEW users \in UsersFiles, ReloadSucceeds(main, users)
  PROVE  ReloadInv'
<1> DEFINE fresh == Fresh(main, users)
           read == Reading[main].log
<1>1. Has(fresh, Settings) /\ Has(read, LogFields) /\ Has(config, Settings) /\ Has(log, LogFields)
  BY FreshShaped, ReadingShaped DEF ReloadInv
<1>2. PICK opens \in BOOLEAN : log' = TransferredLog(log, read, files, now, opens).log
  BY DEF ReloadSucceeds
<1>3. /\ config' = Transferred(config, log, fresh, read) /\ ValidUsers(fresh)
      /\ Reading[main].defined
      /\ last'.main = main /\ last'.users = users
      /\ last'.restart = NeedsRestart(config, log, fresh, read)
  BY DEF ReloadSucceeds
<1>4. Fresh(last'.main, last'.users) = fresh /\ Reading[last'.main].log = read
  BY <1>3
<1> HIDE DEF fresh, read
<1>5. /\ Has(config', Settings) /\ config'["users"] = fresh["users"]
      /\ \A x \in Settings \ {"users", "prefix"} : config'[x] = config[x]
  <2> DEFINE a == [config EXCEPT !.users = fresh.users]
             prefix == IF RestartsLog(log, read) THEN fresh.prefix ELSE config.prefix
             b == [a EXCEPT !.prefix = prefix]
  <2>0. "users" \in Settings /\ "prefix" \in Settings
    BY DEF Settings
  <2>1. /\ Has(a, Settings) /\ a["users"] = fresh["users"]
        /\ \A x \in Settings \ {"users"} : a[x] = config[x]
    <3>1. Has(a, Settings)
      BY <1>1, <2>0, FieldSet
    <3> QED
      BY <1>1, <2>0, <3>1 DEF Has
  <2>2. config' = b
    BY <1>3 DEF Transferred
  <2> HIDE DEF a, prefix
  <2>3. Has(b, Settings) /\ \A x \in Settings \ {"prefix"} : b[x] = a[x]
    BY <2>0, <2>1, FieldSet
  <2> HIDE DEF b
  <2> QED
    BY <2>0, <2>1, <2>2, <2>3
<1>6. ~last'.restart => Alike(config', fresh) /\ log.type = read.type
  BY <1>3, <1>5 DEF NeedsRestart, Alike, Settings
<1>7. Has(log', LogFields) /\ (~last'.restart => SameLog(log', read))
  <2> DEFINE w == [read EXCEPT !.type = log.type]
  <2>1. SameLog(log', w)
    BY <1>1, <1>2, TransferKeeps
  <2>2. log.type = read.type => \A x \in Fixed : w[x] = read[x]
    BY <1>1, FieldSet DEF Fixed, LogFields
  <2> HIDE DEF w
  <2> QED
    BY <1>6, <2>1, <2>2 DEF SameLog
<1> QED
  BY <1>3, <1>4, <1>5, <1>6, <1>7 DEF ReloadInv, Current

\* A line changes the log and nothing of its settings.
LEMMA WriteHolds ==
  ASSUME ReloadInv, NEW level, Write(level)
  PROVE  ReloadInv'
<1>1. PICK opens \in BOOLEAN : log' = LogLine(log, files, now, opens, "program", level).log
  BY DEF Write
<1>2. UNCHANGED <<phase, config, last>>
  BY DEF Write
<1>3. ASSUME NEW k, SameLog(log, k) PROVE SameLog(log', k)
  BY <1>1, <1>3, LogKeeps
<1>4. SameLog(log, log)
  BY DEF SameLog, ReloadInv
<1>5. Has(log', LogFields)
  BY <1>3, <1>4 DEF SameLog
<1> QED
  BY <1>2, <1>3, <1>5 DEF ReloadInv, Current

\* The invariant holds from the start of the program on.
LEMMA ReloadCorrect == Spec => []ReloadInv
<1>1. Init => ReloadInv
  <2>1. Has(Initial, Settings)
    BY DEF Has, Initial, Settings
  <2>2. Has(Console, LogFields)
    BY DEF Has, Console, LogFields
  <2> QED
    BY <2>1, <2>2 DEF Init, ReloadInv
<1>2. ReloadInv /\ [Next]_vars => ReloadInv'
  <2> SUFFICES ASSUME ReloadInv, [Next]_vars PROVE ReloadInv'
    OBVIOUS
  <2>1. ASSUME NEW m \in MainFiles, NEW u \in UsersFiles, Start(m, u) PROVE ReloadInv'
    BY <2>1, StartHolds
  <2>2. ASSUME NEW m \in MainFiles, NEW u \in UsersFiles, ReloadFails(m, u) PROVE ReloadInv'
    <3>1. UNCHANGED <<phase, config, log>> /\ phase = "running"
      BY <2>2 DEF ReloadFails
    <3>2. last'.restart
      BY <2>2 DEF ReloadFails, ReloadInv
    <3> QED
      BY <3>1, <3>2 DEF ReloadInv
  <2>3. ASSUME NEW m \in MainFiles, NEW u \in UsersFiles, ReloadSucceeds(m, u) PROVE ReloadInv'
    BY <2>3, ReloadHolds
  <2>4. ASSUME NEW m \in MainFiles, NEW u \in UsersFiles, Misread(m, u) PROVE ReloadInv'
    BY <2>4 DEF Misread, ReloadInv
  <2>5. CASE Write(FATAL)
    BY <2>5, WriteHolds
  <2>6. CASE UNCHANGED vars
    BY <2>6 DEF vars, ReloadInv, Current
  <2> QED
    BY <2>1, <2>2, <2>3, <2>4, <2>5, <2>6 DEF Next
<1> QED
  BY <1>1, <1>2, PTL DEF Spec

\* Whatever the files were before and however often they were read: a program that was
\* not asked to restart runs with what is in the files now, but for the prefix of the
\* log and the pidfile, and its log does.
THEOREM FilesInForce == Spec => []RunsWithTheFiles
<1>1. ReloadInv => RunsWithTheFiles
  <2> SUFFICES ASSUME ReloadInv, phase = "running", ~last.restart
               PROVE  /\ Kept(config) = Kept(Fresh(last.main, last.users))
                      /\ LET want == Reading[last.main].log
                         IN <<log.type, log.level, log.path, log.mode>> =
                              <<want.type, want.level, want.path, want.mode>>
    BY DEF RunsWithTheFiles
  <2>1. Current /\ Has(config, Settings)
    BY DEF ReloadInv
  <2>2. Kept(config) = Kept(Fresh(last.main, last.users))
    BY <2>1, FreshShaped, KeptAlike DEF Current
  <2> QED
    BY <2>1, <2>2 DEF Current, SameLog, Fixed
<1> QED
  BY <1>1, ReloadCorrect, PTL

\* The user of every server the program knows has a password, until a reload asks for a
\* restart: what was validated together is in force together.
THEOREM EveryUserKnown == Spec => []UsersKnown
<1>1. ReloadInv => UsersKnown
  <2> SUFFICES ASSUME ReloadInv, phase = "running", ~last.restart, NEW i \in 1 .. config.n
               PROVE  config.servers[i].user \in UserNames(config)
    BY DEF UsersKnown
  <2> DEFINE fresh == Fresh(last.main, last.users)
  <2>1. Alike(config, fresh) /\ ValidUsers(fresh)
    BY DEF ReloadInv, Current
  <2> HIDE DEF fresh
  <2>2. config.n = fresh.n /\ config.servers = fresh.servers /\ config.users = fresh.users
    BY <2>1 DEF Alike, Settings
  <2>3. fresh.servers[i].user \in UserNames(fresh)
    BY <2>1, <2>2 DEF ValidUsers
  <2> QED
    BY <2>2, <2>3 DEF UserNames
<1> QED
  BY <1>1, ReloadCorrect, PTL

\* What a file says of a server, when it says it.
LEMMA SaysIs ==
  ASSUME NEW file, NEW n \in Nat, DOMAIN file = 1 .. n, NEW j, NEW key, NEW none
  PROVE  /\ InSection(file, n, j, key) = {} => Says(file, j, key, none) = none
         /\ InSection(file, n, j, key) # {} =>
              \E i \in InSection(file, n, j, key) : Says(file, j, key, none) = file[i][3]
<1> DEFINE at == InSection(file, n, j, key)
<1>1. {i \in DOMAIN file : file[i][1] = "key" /\ file[i][2] = key /\ SectionOf(file, i) = j} = at
  BY Zenon DEF InSection, Setting
<1>2. Says(file, j, key, none) = IF at = {} THEN none ELSE file[Max(at)][3]
  BY <1>1, Zenon DEF Says
<1>3. at # {} => Max(at) \in at
  <2>1. at \in SUBSET (1 .. n)
    BY DEF InSection
  <2> HIDE DEF at
  <2> QED
    BY <2>1, MaxOf
<1> HIDE DEF at
<1>4. at = {} => Says(file, j, key, none) = none
  BY <1>2, Zenon
<1>5. at # {} => \E i \in at : Says(file, j, key, none) = file[i][3]
  BY <1>2, <1>3, Zenon
<1> QED
  BY <1>4, <1>5 DEF at

\* Every server has what the lines of its own section say and nothing of another section,
\* for any number of servers in files of any length that are orderly.
THEOREM ServersInForce ==
  ASSUME \A file \in MainFiles : Orderly(file)
  PROVE  Spec => []ServersAsWritten
<1>1. ReloadInv => ServersAsWritten
  <2> SUFFICES ASSUME ReloadInv, phase = "running", ~last.restart, NEW j \in Sections(last.main)
               PROVE  LET server == config.servers[Cardinality({k \in Sections(last.main) : k <= j})]
                          port == AsInt(Says(last.main, j, "port", <<>>))
                      IN /\ server.name = last.main[j][2]
                         /\ server.host = Says(last.main, j, "host", "")
                         /\ server.user = Says(last.main, j, "user", "")
                         /\ server.port = IF port.ret = 0 THEN port.val ELSE 0
    BY DEF ServersAsWritten
  <2> DEFINE main == last.main
             n == Len(main)
             server == config.servers[ServerNumber(main, j)]
  <2>1. Current /\ main \in MainFiles
    BY DEF ReloadInv, Current
  <2>2. n \in Nat /\ DOMAIN main = 1 .. n
    BY <2>1, ReloadAssumption
  <2>3. config.servers = Reading[main].conf.servers
    <3>1. config["servers"] = Fresh(main, last.users)["servers"]
      BY <2>1 DEF Current, Alike, Settings
    <3>2. Has(Reading[main].conf, Settings) /\ "servers" \in Settings /\ "users" \in Settings
      BY <2>1, ReadingShaped DEF Settings
    <3>3. Fresh(main, last.users)["servers"] = Reading[main].conf["servers"]
      BY <3>2, FieldSet DEF Fresh
    <3> QED
      BY <3>1, <3>3
  <2>4. HasSaid(main, n, j, server)
    <3>1. Orderly(main) /\ Reading[main].defined
      BY <2>1 DEF Current
    <3> QED
      BY <2>1, <2>3, <3>1, ServersRead
  <2>5. server = config.servers[Cardinality({k \in Sections(last.main) : k <= j})]
    BY DEF ServerNumber, Upto
  <2> HIDE DEF n, server
  <2>10. \A key, none :
           /\ InSection(main, n, j, key) = {} => Says(main, j, key, none) = none
           /\ InSection(main, n, j, key) # {} =>
                \E i \in InSection(main, n, j, key) : Says(main, j, key, none) = main[i][3]
    <3> TAKE key, none
    <3> HIDE DEF main
    <3> QED
      BY <2>2, SaysIs
  <2>6. server.name = main[j][2]
    BY <2>4 DEF HasSaid
  <2>7. server.host = Says(main, j, "host", "")
    <3>1. CASE InSection(main, n, j, "host") = {}
      BY <2>4, <2>10, <3>1 DEF HasSaid
    <3>2. CASE InSection(main, n, j, "host") # {}
      <4>1. PICK i \in InSection(main, n, j, "host") : Says(main, j, "host", "") = main[i][3]
        BY <2>10, <3>2, Zenon
      <4> QED
        BY <2>4, <4>1, Zenon DEF HasSaid
    <3> QED
      BY <3>1, <3>2
  <2>8. server.user = Says(main, j, "user", "")
    <3>1. CASE InSection(main, n, j, "user") = {}
      BY <2>4, <2>10, <3>1 DEF HasSaid
    <3>2. CASE InSection(main, n, j, "user") # {}
      <4>1. PICK i \in InSection(main, n, j, "user") : Says(main, j, "user", "") = main[i][3]
        BY <2>10, <3>2, Zenon
      <4> QED
        BY <2>4, <4>1, Zenon DEF HasSaid
    <3> QED
      BY <3>1, <3>2
  <2>9. server.port = IF AsInt(Says(main, j, "port", <<>>)).ret = 0
                      THEN AsInt(Says(main, j, "port", <<>>)).val ELSE 0
    <3>1. CASE InSection(main, n, j, "port") = {}
      <4>1. Says(main, j, "port", <<>>) = <<>> /\ server.port = 0
        BY <2>4, <2>10, <3>1 DEF HasSaid
      <4>2. AsInt(<<>>).ret # 0
        BY DEF AsInt, Failed
      <4> QED
        BY <4>1, <4>2
    <3>2. CASE InSection(main, n, j, "port") # {}
      <4>1. PICK i \in InSection(main, n, j, "port") : Says(main, j, "port", <<>>) = main[i][3]
        BY <2>10, <3>2, Zenon
      <4> QED
        BY <2>4, <4>1, Zenon DEF HasSaid
    <3> QED
      BY <3>1, <3>2
  <2> QED
    BY <2>5, <2>6, <2>7, <2>8, <2>9
<1> QED
  BY <1>1, ReloadCorrect, PTL
=============================================================================
