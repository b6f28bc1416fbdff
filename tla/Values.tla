------------------------------- MODULE Values -------------------------------
(***************************************************************************)
(* The readers of text: numbers with units, lines of the configuration     *)
(* files and paths with variables, as functions of a sequence of           *)
(* characters, and what their comments and the manual say they compute.    *)
(* A key and a value are one character each, in lower case.                *)
(***************************************************************************)
EXTENDS Integers, Sequences, SequencesExt, FiniteSetsExt

CONSTANT Env   \* the variables that are set: from a name to a sequence of characters

MAXINT == 2147483647
Failed == [ret |-> 1, val |-> 0]
Read(v) == [ret |-> 0, val |-> v]

Digits == {"0", "1"}
Letters == {"s", "m", "h", "d", "w", "b", "k", "g", "x"}
Blank == {" "}
Quotes == {"'", "\""}

-----------------------------------------------------------------------------
(* Sequences of characters. *)

First(t, S) == Min({i \in DOMAIN t : t[i] \in S} \cup {Len(t) + 1})
TakeUntil(t, S) == SubSeq(t, 1, First(t, S) - 1)
From(t, i) == SubSeq(t, i, Len(t))
Skip(t, S) == From(t, Min({i \in DOMAIN t : t[i] \notin S} \cup {Len(t) + 1}))
StripEnd(t, S) == SubSeq(t, 1, Max({i \in DOMAIN t : t[i] \notin S} \cup {0}))

\* The pointer to no text at all, which is not the empty text.
NULL == <<"NULL">>
Plus(s, t) == IF s = NULL THEN t ELSE s \o t

Number(ds) == FoldLeft(LAMBDA n, d : 10 * n + (IF d = "1" THEN 1 ELSE 0), 0, ds)

-----------------------------------------------------------------------------
(* as_int, as_seconds, as_bytes. *)

\* strtol of the whole text, which may have a sign.
AsInt(t) ==
  LET ds == IF t # <<>> /\ t[1] = "-" THEN Tail(t) ELSE t
  IN IF ds = <<>> \/ Range(ds) \ Digits # {} THEN Failed
     ELSE Read(IF ds = t THEN Number(ds) ELSE 0 - Number(ds))

\* One character of a number with a unit: units are looked for anywhere in the text and
\* letters that are no unit are passed over; after a unit only the letters in after are.
UnitStep(s, c, unit, after) ==
  CASE s.bad -> s
    [] c \in Digits -> [s EXCEPT !.digits = Append(@, c)]
    [] c \in Letters /\ s.set -> [s EXCEPT !.bad = s.mult = 1 \/ c \notin after]
    [] c \in DOMAIN unit /\ ~s.set -> [s EXCEPT !.mult = unit[c], !.set = TRUE]
    [] c \in Letters -> s
    [] OTHER -> [s EXCEPT !.bad = TRUE]

\* The product is of ints: where it overflows it is undefined, which Overflown stands for.
Overflown == [ret |-> 0, val |-> -1]
Scaled(t, unit, after) ==
  LET s == FoldLeft(LAMBDA acc, c : UnitStep(acc, c, unit, after),
                    [digits |-> <<>>, mult |-> 1, set |-> FALSE, bad |-> FALSE], t)
      n == AsInt(s.digits)
  IN IF t = <<>> THEN Read(0)
     ELSE IF s.bad \/ n.ret = 1 THEN Failed
     ELSE IF n.val > MAXINT \div s.mult THEN Overflown
     ELSE Read(n.val * s.mult)

SecondsUnit == [c \in {"s", "m", "h", "d", "w"} |->
                  CASE c = "s" -> 1 [] c = "m" -> 60 [] c = "h" -> 3600
                    [] c = "d" -> 24 * 3600 [] c = "w" -> 24 * 3600 * 7]
BytesUnit == [c \in {"b", "k", "m", "g"} |->
                CASE c = "b" -> 1 [] c = "k" -> 1024 [] c = "m" -> 1024 * 1024
                  [] c = "g" -> 1024 * 1024 * 1024]

\* Mutant of AsSeconds: the B of a size is let through after a unit of time.
AsSecondsB(t) == Scaled(t, SecondsUnit, {"b"})
AsSeconds(t) == Scaled(t, SecondsUnit, {})
AsBytes(t) == Scaled(t, BytesUnit, {"b"})

-----------------------------------------------------------------------------
(* pgvictoria_resolve_path: variables, quotes and backslashes. *)

EnvChar == {"a", "v", "_"}

PathStart == [res |-> NULL, env |-> <<>>, inEnv |-> FALSE, escaped |-> FALSE,
              single |-> FALSE, double |-> FALSE, bad |-> FALSE]

\* A name ends at the first character that cannot be in one: its value is appended.
EndEnv(s, c) ==
  IF ~s.inEnv \/ c \in EnvChar THEN s
  ELSE IF s.env \in DOMAIN Env
       THEN [s EXCEPT !.inEnv = FALSE, !.env = <<>>, !.res = Plus(@, Env[s.env])]
       ELSE [s EXCEPT !.bad = TRUE]

\* Mutant of PathChar: single quotes do not protect the dollar sign.
PathCharUnquoted(s, c) ==
  CASE c = "\"" /\ ~s.single -> [s EXCEPT !.double = ~@]
    [] c = "'" /\ ~s.double -> [s EXCEPT !.single = ~@]
    [] c = "\\" -> [s EXCEPT !.escaped = TRUE]
    [] c = "$" -> [s EXCEPT !.inEnv = TRUE]
    [] s.inEnv -> [s EXCEPT !.env = Append(@, c)]
    [] OTHER -> [s EXCEPT !.res = Plus(@, <<c>>)]

PathChar(s, c) ==
  CASE c = "\"" /\ ~s.single -> [s EXCEPT !.double = ~@]
    [] c = "'" /\ ~s.double -> [s EXCEPT !.single = ~@]
    [] c = "\\" -> [s EXCEPT !.escaped = TRUE]
    [] c = "$" /\ ~s.single -> [s EXCEPT !.inEnv = TRUE]
    [] s.inEnv -> [s EXCEPT !.env = Append(@, c)]
    [] OTHER -> [s EXCEPT !.res = Plus(@, <<c>>)]

PathStep(s, c) ==
  IF s.bad THEN s
  ELSE IF s.escaped THEN [s EXCEPT !.escaped = FALSE, !.res = Plus(@, <<c>>)]
  ELSE LET e == EndEnv(s, c) IN IF e.bad THEN e ELSE PathChar(e, c)

\* A name that ends the text is dropped with it; where nothing was appended there is no text.
ResolvePath(t) ==
  LET s == FoldLeft(PathStep, PathStart, t)
  IN IF s.bad \/ s.escaped THEN [ret |-> 1, val |-> NULL] ELSE Read(s.res)

-----------------------------------------------------------------------------
(* Lines: of pgvictoria.conf (configuration.c) and of postgresql.conf (report.c). *)

Line(k, v) == [key |-> k, val |-> v]
NoLine == Line(NULL, NULL)

\* remove_leading_whitespace_and_comments
Trimmed(t) == StripEnd(TakeUntil(Skip(t, Blank), {";", "#"}), Blank)


\* extract_key_value: quotes and blanks around the key and the value go.
ExtractKeyValue(t) ==
  IF "=" \notin Range(t) THEN NoLine
  ELSE Line(StripEnd(Skip(TakeUntil(t, {"="}), Blank \cup Quotes), Blank \cup Quotes),
            StripEnd(TakeUntil(Skip(From(t, First(t, {"="})), Blank \cup Quotes \cup {"="}), {"#"}),
                     Blank \cup Quotes))

\* extract_syskey_value: the key has no blank in front and the value is resolved; the value
\* may be empty, and it may be NULL, with which the line is passed over.
ExtractSyskeyValue(t) ==
  LET key == TakeUntil(t, Blank \cup {"="})
      val == StripEnd(Skip(From(t, Len(key) + 1), Blank \cup {"="}), Blank)
      path == ResolvePath(val)
  IN IF Len(key) = Len(t) THEN NoLine
     ELSE IF val = <<>> THEN Line(key, val)
     ELSE IF path.ret = 1 THEN NoLine
     ELSE Line(key, path.val)

\* trim_and_extract_key_value: -3 without a key, -1 without a value, -2 for a quote that
\* is not closed, 1 for a line to skip; what follows the value is not looked at.
ExtractSetting(t) ==
  LET s == Skip(t, Blank)
      key == TakeUntil(s, Blank \cup {"=", "#"})
      rest == Skip(From(s, Len(key) + 1), Blank \cup {"="})
      quoted == rest # <<>> /\ rest[1] \in Quotes
      val == IF quoted THEN TakeUntil(Tail(rest), {rest[1]})
             ELSE TakeUntil(rest, Blank \cup {"#"})
      status == CASE s = <<>> \/ s[1] = "#" -> 1
                  [] key = <<>> -> -3
                  [] rest = <<>> \/ rest[1] = "#" -> -1
                  [] quoted /\ Len(val) = Len(rest) - 1 -> -2
                  [] val = <<>> -> -1
                  [] OTHER -> 0
  IN [status |-> status, key |-> key, val |-> val]
=============================================================================
