----------------------------- MODULE ConfigLines -----------------------------
(***************************************************************************)
(* Configuration files as config.c reads and edits them: sequences of      *)
(* lines, of which the last may lack its newline.  The files are shorter   *)
(* than MAX_LINES and their lines than MAX_LINE_LENGTH, and the values     *)
(* have no comment character in them.                                      *)
(***************************************************************************)
EXTENDS Integers, Sequences, FiniteSets, FiniteSetsExt, SequencesExt

CONSTANTS Sections, ConfKeys, Values, NoValue,
          Garbled     \* the value of a line that runs into the next one

Line ==
  [is : {"header"}, name : Sections, val : {NoValue}, nl : BOOLEAN]
    \union [is : {"key"}, name : ConfKeys, val : Values \union {Garbled}, nl : BOOLEAN]
    \union [is : {"comment", "blank"}, name : {""}, val : {NoValue}, nl : BOOLEAN]

TextLine(kind) == [is |-> kind, name |-> "", val |-> NoValue, nl |-> TRUE]
Header(s) == [is |-> "header", name |-> s, val |-> NoValue, nl |-> TRUE]
KeyLine(k, v) == [is |-> "key", name |-> k, val |-> v, nl |-> TRUE]

Headers(f) == {i \in DOMAIN f : f[i].is = "header"}
HeadersOf(f, s) == {i \in Headers(f) : f[i].name = s}

\* The header a line stands under, or 0.
Under(f, i) == Max({j \in Headers(f) : j <= i} \union {0})
Within(f, i, s) == Under(f, i) \in HeadersOf(f, s)

KeysOf(f, s, k) == {i \in DOMAIN f : f[i].is = "key" /\ f[i].name = k /\ Within(f, i, s)}

\* config_get: from the first header of the section to the first other header.
Get(f, s, k) ==
  LET seen == {i \in KeysOf(f, s, k) :
                 \A j \in Min(HeadersOf(f, s)) .. i : Within(f, j, s)}
  IN  IF seen = {} THEN NoValue ELSE f[Min(seen)].val

\* The end of the section that header h begins.
EndOf(f, h) == Min({j \in Headers(f) : j > h} \union {Len(f) + 1})

\* What a line and the one written behind it read as when there is no newline
\* between them: a header ends at its bracket and a comment never.
Glue(a, b) ==
  CASE a.is = "blank" -> b
    [] a.is = "key" -> [a EXCEPT !.val = Garbled, !.nl = b.nl]
    [] OTHER -> [a EXCEPT !.nl = b.nl]

\* The lines of the file into which f and then g are written.
Written(f, g) ==
  IF f = <<>> \/ g = <<>> \/ Last(f).nl THEN f \o g
  ELSE Front(f) \o <<Glue(Last(f), Head(g))>> \o Tail(g)

\* Mutant of Added: the lines behind are not moved.
AddedOver(f, s, k, v) ==
  LET h == Max(HeadersOf(f, s))
      text == {i \in h + 1 .. EndOf(f, h) - 1 : f[i].is # "blank"}
      at == IF text = {} THEN EndOf(f, h) - 1 ELSE Max(text)
  IN  Written(Written(SubSeq(f, 1, at), <<KeyLine(k, v)>>), SubSeq(f, at + 2, Len(f)))

\* A key that the last section of that name does not have: behind its last line
\* that is not blank, or else at its end.
Added(f, s, k, v) ==
  LET h == Max(HeadersOf(f, s))
      text == {i \in h + 1 .. EndOf(f, h) - 1 : f[i].is # "blank"}
      at == IF text = {} THEN EndOf(f, h) - 1 ELSE Max(text)
  IN  Written(Written(SubSeq(f, 1, at), <<KeyLine(k, v)>>), SubSeq(f, at + 1, Len(f)))

\* A new section, behind a blank line unless the file ends with one or in a line
\* without a newline.
WithSection(f, s, k, v) ==
  LET gap == IF f # <<>> /\ Last(f).nl /\ Last(f).is # "blank"
             THEN <<TextLine("blank")>> ELSE <<>>
  IN  Written(f, gap \o <<Header(s), KeyLine(k, v)>>)

\* Mutant of SetLines: the key is looked for in the whole file.
SetLinesAnywhere(f, s, k, v) ==
  LET here == {i \in DOMAIN f : f[i].is = "key" /\ f[i].name = k}
  IN  IF here # {} THEN [f EXCEPT ![Min(here)] = KeyLine(k, v)]
      ELSE IF HeadersOf(f, s) # {} THEN Added(f, s, k, v)
      ELSE WithSection(f, s, k, v)

\* Mutant of SetLines: a key that is not there gets a section of its own.
SetLinesAtEnd(f, s, k, v) ==
  IF KeysOf(f, s, k) # {} THEN [f EXCEPT ![Min(KeysOf(f, s, k))] = KeyLine(k, v)]
  ELSE WithSection(f, s, k, v)

\* config_set
SetLines(f, s, k, v) ==
  IF KeysOf(f, s, k) # {} THEN [f EXCEPT ![Min(KeysOf(f, s, k))] = KeyLine(k, v)]
  ELSE IF HeadersOf(f, s) # {} THEN Added(f, s, k, v)
  ELSE WithSection(f, s, k, v)

\* config_del writes the lines before m, and those from n on.
Without(f, m, n) == SubSeq(f, 1, m - 1) \o SubSeq(f, n, Len(f))

\* config_del of a key
DelKeyLines(f, s, k) == LET m == Min(KeysOf(f, s, k)) IN Without(f, m, m + 1)

\* config_del of a section: the last one of that name.
DelSectionLines(f, s) == LET h == Max(HeadersOf(f, s)) IN Without(f, h, EndOf(f, h))
=============================================================================
