------------------------------- MODULE Report -------------------------------
(***************************************************************************)
(* The report on a postgresql.conf file: the version it is compared with,  *)
(* the baseline of that version, and the row of each setting.              *)
(* A line is its text with the numbers that follow "PostgreSQL " and       *)
(* "version " in it, 0 where there is none.  How rows are laid out as      *)
(* text, HTML or Markdown is left out.                                     *)
(***************************************************************************)
EXTENDS Values

CONSTANTS
  Dirs,       \* the directories with baselines: sequences of [version, state, baseline]
  Compiled,   \* the baselines of the program itself, by version
  PgConfig,   \* the version pg_config prints, 0 for none
  Locale      \* the settings that name a locale: lc_messages and its three siblings

-----------------------------------------------------------------------------
(* postgresql.c: versions and their baselines. *)

InDirectory(dir, v) == \E i \in DOMAIN dir : dir[i].version = v
Supported(v) == v \in DOMAIN Compiled \/ \E i \in DOMAIN Dirs : InDirectory(Dirs[i], v)
MaxSupported == Max(DOMAIN Compiled \cup
                    UNION {{Dirs[i][j].version : j \in DOMAIN Dirs[i]} : i \in DOMAIN Dirs})

\* The first file of the version that can be read, directory by directory.
Found(v) == SelectSeq(FlattenSeq(Dirs), LAMBDA f : f.version = v /\ f.state # "unreadable")

\* The baseline of a version, in a set, which is empty when there is none.
Baseline(v) ==
  LET external == {Found(v)[i] : i \in {j \in DOMAIN Found(v) : j = 1 /\ Found(v)[j].state = "good"}}
  IN IF external # {} THEN {f.baseline : f \in external}
     ELSE {Compiled[w] : w \in DOMAIN Compiled \cap {v}}

\* Only comments are looked at; the first that names a supported version decides.
NamedBy(line) == IF Supported(line.pg) THEN line.pg
                 ELSE IF Supported(line.ver) THEN line.ver ELSE 0
FileVersion(lines) ==
  LET named == SelectSeq(lines, LAMBDA l : l.text # <<>> /\ l.text[1] = "#" /\ NamedBy(l) # 0)
  IN IF named = <<>> THEN 0 ELSE NamedBy(Head(named))
InstalledVersion == IF Supported(PgConfig) THEN PgConfig ELSE MaxSupported

Version(lines, override) ==
  IF Supported(override) THEN override
  ELSE IF FileVersion(lines) # 0 THEN FileVersion(lines) ELSE InstalledVersion

-----------------------------------------------------------------------------
(* guc.c: whether a value is the default. *)

LowerOf == [A |-> "a", D |-> "d", K |-> "k", L |-> "l", V |-> "v"]
Fold(c) == IF c \in DOMAIN LowerOf THEN LowerOf[c] ELSE c
Folded(t) == [i \in DOMAIN t |-> Fold(t[i])]
Normal(t, strip) == Folded(SelectSeq(StripEnd(Skip(t, Blank), Blank), LAMBDA c : c \notin strip))

\* Mutant of Equal: the hyphens of a locale are compared.
EqualHyphens(key, type, a, b) ==
  IF Folded(key) \in Locale \/ type = "string" THEN Normal(a, {}) = Normal(b, {}) ELSE a = b

Equal(key, type, a, b) ==
  IF Folded(key) \in Locale THEN Normal(a, {"-"}) = Normal(b, {"-"})
  ELSE IF type = "string" THEN Normal(a, {}) = Normal(b, {})
  ELSE a = b

-----------------------------------------------------------------------------
(* report.c: the row of a setting, and the report. *)

\* A value that is empty is not told from one that is absent: such a key is not found here.
\* A key that is found by its lower case is shown as it was written.
Lookup(base, key) ==
  LET Has(k) == k \in DOMAIN base /\ base[k].val # <<>>
  IN IF Has(key) THEN base[key]
     ELSE IF Has(Folded(key)) THEN base[Folded(key)]
     ELSE [type |-> "none", val |-> <<>>]

Row(base, key, val) ==
  LET default == Lookup(base, key)
      status == IF default.type # "none"
                THEN IF Equal(key, default.type, default.val, val) THEN "Default" ELSE "Modified"
                ELSE IF key \in DOMAIN base
                THEN IF val = <<>> THEN "Default" ELSE "Modified"
                ELSE "Custom"
  IN [key |-> key, default |-> default.val, val |-> val, status |-> status]

\* Mutant of AddRow: a setting that is in no baseline is taken for a default.
AddRowKnown(rows, row, changed) ==
  IF changed /\ row.status # "Modified" THEN rows ELSE Append(rows, row)

AddRow(rows, row, changed) ==
  IF changed /\ row.status = "Default" THEN rows ELSE Append(rows, row)

NoReport == [ret |-> 1, version |-> 0, rows |-> <<>>]

\* A line without a setting is passed over, with a warning or without.
ReportFile(file, override, changed) ==
  LET v == Version(file.lines, override)
      Add(rows, line) == LET s == ExtractSetting(line.text)
                         IN IF s.status # 0 THEN rows
                            ELSE AddRow(rows, Row(CHOOSE b \in Baseline(v) : TRUE, s.key, s.val), changed)
  IN IF file.kind # "text" \/ Baseline(v) = {} THEN NoReport
     ELSE [ret |-> 0, version |-> v, rows |-> FoldLeft(Add, <<>>, file.lines)]
=============================================================================
