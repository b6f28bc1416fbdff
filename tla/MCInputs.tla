------------------------------ MODULE MCInputs ------------------------------
(* Values, Report and Cli on every input up to a length: numbers with a unit,  *)
(* paths, lines, files of settings and command lines, put together from pieces *)
(* whose meaning is known.  A state is an input.                               *)
EXTENDS Cli, TLC

CONSTANTS MaxValue, MaxPath, MaxFile, MaxCommand   \* the longest input of each kind

VARIABLES kind, parts   \* what is read, and the pieces it is made of

vars == <<kind, parts>>

MCEnv == (<<"a">> :> <<"v">>) @@ (<<"v">> :> <<"/", "a">>)

ValueChars == {"1", "0", "s", "m", "w", "k", "g", "b", "x", "-"}

\* Segments of a path and what each stands for; the meaning Failed is a failure.
Segments == {<<<<"a">>, <<"a">>>>, <<<<"/">>, <<"/">>>>, <<<<"$", "a">>, <<"v">>>>,
             <<<<"$", "_">>, <<"fails">>>>, <<<<"$", "/">>, <<"fails">>>>,
             <<<<"\"", "$", "v", "\"">>, <<"/", "a">>>>, <<<<"'", "$", "a", "'">>, <<"$", "a">>>>,
             <<<<"\"", "'", "\"">>, <<"'">>>>, <<<<"\\", "$">>, <<"$">>>>, <<<<"\\", "'">>, <<"'">>>>}

LinePieces == << {<<>>, <<" ">>}, {<<"k">>}, {<<>>, <<" ">>}, {<<"=">>}, {<<>>, <<" ">>},
                 {<<>>, <<"'">>, <<"\"">>}, {<<"a">>, <<"a", "/">>, <<"#", "a">>, <<"a", "#">>},
                 {<<>>, <<" ">>, <<" ", "#", "=">>, <<"#", "k">>} >>

\* Baselines: one compiled in, one replaced by a file of a directory, and one that a
\* directory names although it cannot be read.
MCCompiled == (15 :> ((<<"k">> :> [type |-> "string", val |-> <<"a">>]) @@
                      (<<"l">> :> [type |-> "string", val |-> <<"a", "-", "a">>]) @@
                      (<<"D">> :> [type |-> "string", val |-> <<"v">>]) @@
                      (<<"e">> :> [type |-> "string", val |-> <<>>])))
              @@ (16 :> (<<"k">> :> [type |-> "string", val |-> <<"x">>]))
Elsewhere(v, state, base) == [version |-> v, state |-> state, baseline |-> base]
MCDirs == << <<Elsewhere(15, "malformed", <<>>), Elsewhere(16, "unreadable", <<>>)>>,
             <<Elsewhere(17, "unreadable", <<>>),
               Elsewhere(16, "good", (<<"k">> :> [type |-> "string", val |-> <<"v">>]) @@
                                     (<<"n">> :> [type |-> "integer", val |-> <<"1">>]))>> >>
MCLocale == {<<"l">>}

\* Lines of a file, the version a comment names, and the status of the setting with the
\* baseline of 15 and with that of 16; none is a line without a setting.
Shape(text, pg, in15, in16) == [text |-> text, pg |-> pg, in15 |-> in15, in16 |-> in16]
Lines == {
  Shape(<<"#", "k", "=">>, 0, None, None), Shape(<<"#">>, 15, None, None),
  Shape(<<"#">>, 14, None, None), Shape(<<" ", "#">>, 16, None, None),
  Shape(<<"k", "=", "a">>, 0, "Default", "Modified"),
  Shape(<<"K", "=", "'", " ", "A", "'", "#">>, 16, "Default", "Modified"),
  Shape(<<"k", " ", "v">>, 0, "Modified", "Default"),
  Shape(<<"l", "=", "A", "A">>, 0, "Default", "Custom"),
  Shape(<<"n", "=", "1", " ", "#">>, 0, "Custom", "Default"),
  Shape(<<"n", "=", "'", "1", " ", "'">>, 0, "Custom", "Modified"),
  Shape(<<"e", "=", "v">>, 0, "Modified", "Custom"),
  Shape(<<"e", "=", "'", "'">>, 0, None, None),
  Shape(<<"D", "=", "V">>, 0, "Default", "Custom"), Shape(<<"d", "=", "v">>, 0, "Custom", "Custom"),
  Shape(<<"k", "=", "'", "a">>, 0, None, None), Shape(<<"=", "a">>, 0, None, None) }

MCNumberOf == ("1" :> 1) @@ ("0" :> 0) @@ ("15" :> 15)
MCExtension == ("r.md" :> "md")
MCTooLong == {"long"}
MCServerFiles == ("pgvictoria.conf" :> [host |-> "h1", port |-> 5432, user |-> "u1"])
                 @@ ("mine" :> [host |-> "h2", port |-> 2, user |-> "u2"])
MCUserFiles == "theirs" :> <<[user |-> "u1", password |-> "p1"], [user |-> "u2", password |-> "p2"]>>

Opt(o) == [kind |-> "option", text |-> o]
Txt(a) == [kind |-> "text", text |-> a]
Pieces == { <<Txt("report")>>, <<Txt("f")>>, <<Opt("o"), Txt("r.md")>>, <<Opt("c"), Txt("mine")>>,
            <<Opt("u"), Txt("theirs")>>, <<Opt("U"), Txt("u1")>>, <<Opt("U"), Txt("u2")>>,
            <<Opt("H"), Txt("h")>>, <<Opt("P"), Txt("1")>>, <<Opt("W"), Txt("p")>>,
            <<Opt("t"), Txt("full")>>, <<Opt("V")>>, <<Opt("x")>>, <<Opt("W")>>,
            <<[kind |-> "joined", text |-> "H"]>>, <<Opt("P"), Txt("0")>>, <<Opt("o"), Txt("long")>>,
            <<Opt("pg"), Txt("15")>>, <<Opt("f"), Txt("markdown")>> }
\* Pieces that end the program.
Fatal == {<<Opt("V")>>, <<Opt("x")>>, <<Opt("W")>>, <<[kind |-> "joined", text |-> "H"]>>,
          <<Opt("P"), Txt("0")>>, <<Opt("o"), Txt("long")>>}

\* A file begins with the version that is asked for, a command line with the environment.
Overrides == {0, 15, 17}
Environments == {[root |-> FALSE, pgpass |-> None], [root |-> FALSE, pgpass |-> "p0"]}

Init == \/ kind \in {"value", "path", "line"} /\ parts = <<>>
        \/ kind = "file" /\ parts \in {<<v>> : v \in Overrides}
        \/ kind = "command" /\ parts \in {<<e>> : e \in Environments}

GrowValue == /\ kind = "value" /\ Len(parts) < MaxValue
             /\ \E c \in ValueChars : parts' = Append(parts, c)
GrowPath  == /\ kind = "path" /\ Len(parts) < MaxPath
             /\ \E s \in Segments : parts' = Append(parts, s)
GrowLine  == /\ kind = "line" /\ Len(parts) < Len(LinePieces)
             /\ \E x \in LinePieces[Len(parts) + 1] : parts' = Append(parts, x)
GrowFile  == /\ kind = "file" /\ Len(parts) <= MaxFile
             /\ \E l \in Lines : parts' = Append(parts, l)
\* No piece stands there twice; in the longest lines a fatal piece is one of the last two.
GrowCommand == /\ kind = "command" /\ Len(parts) <= MaxCommand
               /\ Len(parts) = MaxCommand => Range(SubSeq(parts, 2, MaxCommand - 1)) \cap Fatal = {}
               /\ \E p \in Pieces \ Range(Tail(parts)) : parts' = Append(parts, p)

Next == (GrowValue \/ GrowPath \/ GrowLine \/ GrowFile \/ GrowCommand) /\ UNCHANGED kind

Spec == Init /\ [][Next]_vars

-----------------------------------------------------------------------------
(* Properties. *)

SecondsSuffix == (<<>> :> 1) @@ (<<"s">> :> 1) @@ (<<"m">> :> 60) @@ (<<"w">> :> 604800)
BytesSuffix == (<<>> :> 1) @@ (<<"b">> :> 1) @@ (<<"k">> :> 1024) @@ (<<"k", "b">> :> 1024)
               @@ (<<"m">> :> 1048576) @@ (<<"m", "b">> :> 1048576)
               @@ (<<"g">> :> 1073741824) @@ (<<"g", "b">> :> 1073741824)

\* A number and a suffix of the manual is that number of units, unless it is no int; a
\* text without a digit, with a sign, or with a letter behind its unit that is not the B of
\* a size (pairs) is refused; and any other text that is taken, 'x1' and 's1' among them,
\* stands for its digits and a unit of the manual.
ReadsUnits(t, got, suffix, pairs) ==
  /\ \A n \in 1..Len(t) :
       Range(SubSeq(t, 1, n)) \subseteq Digits /\ From(t, n + 1) \in DOMAIN suffix =>
         LET number == Number(SubSeq(t, 1, n))
             unit == suffix[From(t, n + 1)]
         IN got = IF number <= MAXINT \div unit THEN Read(number * unit) ELSE Overflown
  /\ \/ t # <<>> /\ Range(t) \cap Digits = {}
     \/ "-" \in Range(t)
     \/ \E i, j \in DOMAIN t : /\ i < j
                               /\ <<t[i]>> \in DOMAIN suffix /\ t[j] \in Letters
                               /\ <<t[i], t[j]>> \notin pairs
                               /\ \A k \in 1..(i - 1) : <<t[k]>> \notin DOMAIN suffix
     => got = Failed
  /\ t # <<>> /\ got.ret = 0 =>
       LET number == Number(SelectSeq(t, LAMBDA c : c \in Digits))
       IN \E unit \in Range(suffix) :
            got = IF number <= MAXINT \div unit THEN Read(number * unit) ELSE Overflown

\* Every spelling of log_rotation_age and log_rotation_size that the manual has is read as
\* the manual says, and two letters are one unit only where it has them (as_seconds,
\* as_bytes).  The manual has no letter that is no unit and no unit before the digits: the
\* code passes over the one and takes the other, and that is not refused here.
UnitsAsDocumented ==
  kind = "value" => /\ ReadsUnits(parts, AsSeconds(parts), SecondsSuffix, {})
                    /\ ReadsUnits(parts, AsBytes(parts), BytesSuffix, {"k", "m", "g"} \X {"b"})

\* A path is the sequence of what its segments stand for, whatever stands beside them
\* (pgvictoria_resolve_path); a variable without quotes must end before the path does.
Bare(i) == parts[i][1][1] = "$"
EndsInside == \A i \in DOMAIN parts : Bare(i) => i < Len(parts) /\ parts[i + 1][1][1] \notin EnvChar
PathsExpanded ==
  kind = "path" /\ EndsInside =>
    LET text == FlattenSeq([i \in DOMAIN parts |-> parts[i][1]])
        meaning == FlattenSeq([i \in DOMAIN parts |-> parts[i][2]])
    IN IF "fails" \in Range(meaning) THEN ResolvePath(text).ret = 1
       ELSE ResolvePath(text) = Read(IF parts = <<>> THEN NULL ELSE meaning)


\* A report on a file has one row for each line with a setting, in their order, and calls it
\* default, modified or custom whatever its case, spacing, quotes and comment, by the version
\* that was asked for or else named by the first comment; a report of the changes is the
\* full one without the defaults (pgvictoria_report_file, report_add_diff_item, check_guc).
SettingsClassified ==
  kind = "file" =>
    LET lines == Tail(parts)
        file == [kind |-> "text",
                 lines |-> [i \in DOMAIN lines |->
                              [text |-> lines[i].text, pg |-> lines[i].pg, ver |-> 0]]]
        named == {i \in DOMAIN lines : lines[i].text[1] = "#" /\ lines[i].pg \in {15, 16}}
        version == IF Head(parts) # 0 THEN Head(parts)
                   ELSE IF named # {} THEN lines[Min(named)].pg ELSE PgConfig
        status == SelectSeq([i \in DOMAIN lines |-> IF version = 15 THEN lines[i].in15 ELSE lines[i].in16],
                            LAMBDA s : s # None)
        full == ReportFile(file, Head(parts), FALSE)
    IN IF version = 17 THEN full = NoReport
       ELSE /\ full.ret = 0 /\ full.version = version
            /\ [i \in DOMAIN full.rows |-> full.rows[i].status] = status
            /\ ReportFile(file, Head(parts), TRUE).rows
                 = SelectSeq(full.rows, LAMBDA r : r.status # "Default")

\* Options mean the same before, between and behind the command: the last of each is taken,
\* what the line says comes before what files and the environment say, a password of the
\* line or the environment is the one that is used, and a line with an option that is
\* unknown, lacks its argument or has a wrong one asks for nothing (cmd_parse, main).
LineObeyed ==
  kind = "command" =>
    LET pieces == Tail(parts)
        pgpass == Head(parts).pgpass
        got == Main(FlattenSeq(pieces), Head(parts).root, pgpass)
        At(o) == {i \in DOMAIN pieces : pieces[i][1] = Opt(o) /\ Len(pieces[i]) = 2}
        Says(o, default) == IF At(o) = {} THEN default ELSE pieces[Max(At(o))][2].text
        fatal == Range(pieces) \cap Fatal # {}
        texts == SelectSeq(pieces, LAMBDA p : Len(p) = 1 /\ p[1].kind = "text")
        \* Without an argument, or an option behind it, -W takes the first text there is.
        takes == \E i \in DOMAIN pieces : /\ pieces[i] = <<Opt("W")>>
                                          /\ i < Len(pieces) => Len(pieces[i + 1]) = 1
        file == ServerFiles[Says("c", "pgvictoria.conf")]
        fresh == At("H") # {} \/ At("U") # {} \/ At("P") # {}
        server == [host |-> Says("H", IF fresh THEN "127.0.0.1" ELSE file.host),
                   port |-> IF At("P") # {} THEN 1 ELSE IF fresh THEN 5432 ELSE file.port,
                   user |-> Says("U", IF fresh THEN "postgres" ELSE file.user)]
    IN IF fatal THEN takes \/ got.asks = "nothing"
       ELSE IF At("o") = {} \/ texts \notin {<< <<Txt("report")>> >>, << <<Txt("report")>>, <<Txt("f")>> >>}
       THEN got.asks = "nothing"
       ELSE /\ got.exit = 0 /\ got.output = "r.md"
            /\ got.format = "md" /\ got.type = Says("t", "changed")
            /\ IF Len(texts) = 2
               THEN got.asks = "file" /\ got.version = (IF At("pg") = {} THEN 0 ELSE 15)
               ELSE /\ got.asks = "server" /\ got.server = server
                    /\ At("W") # {} => got.password = "p"
                    /\ At("W") = {} /\ pgpass # None => got.password = pgpass
                    /\ At("W") = {} /\ pgpass = None /\ At("u") # {} /\ ~fresh =>
                         \E u \in Range(UserFiles["theirs"]) : u.user = server.user /\ u.password = got.password
=============================================================================
