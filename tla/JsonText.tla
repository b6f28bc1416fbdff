------------------------------ MODULE JsonText ------------------------------
(***************************************************************************)
(* JSON values and their text: value.c and the renderings of art.c and     *)
(* deque.c, the parser of json.c, and the calls of json.h on one object.   *)
(*                                                                         *)
(* A value is <<kind, ...>>: <<"string", characters>>, <<"null">>,         *)
(* <<"bool", b>>, <<"int", type, data>>, <<"double", text>>, or an object: *)
(* <<"Unknown">>, <<"Item", members>> with members <<key, value>> in the   *)
(* order of the tree, or <<"Array", values>>.  A text is a sequence of     *)
(* characters; "nl" is the newline.                                        *)
(***************************************************************************)
EXTENDS Integers, Sequences, SequencesExt

CONSTANT KeyOrder   \* every key there can be, in the order of the tree

Digits == {"0", "1", "2", "3", "4", "5", "6", "7", "8", "9"}
Lower == {"a", "b", "n", "u", "l", "t", "r", "e", "f", "s", "x"}
Space == {" ", "nl"}

Unknown == <<"Unknown">>
Objects == {"Unknown", "Item", "Array"}
Allowed(v) == v[1] # "char"

-----------------------------------------------------------------------------
(* The calls of json.h. *)

Rank(k) == CHOOSE i \in DOMAIN KeyOrder : KeyOrder[i] = k
MembersOf(o) == IF o[1] = "Unknown" THEN <<>> ELSE o[2]

\* A refused put has made an item of an object that was unknown.
JsonPut(o, k, v) ==
  LET ms == MembersOf(o)
      before == SelectSeq(ms, LAMBDA m : Rank(m[1]) < Rank(k))
      behind == SelectSeq(ms, LAMBDA m : Rank(m[1]) > Rank(k))
  IN IF o[1] = "Array" THEN o
     ELSE IF k = <<>> \/ ~Allowed(v) THEN <<"Item", ms>>
     ELSE <<"Item", before \o <<<<k, v>>>> \o behind>>

JsonAppend(o, v) ==
  IF o[1] = "Item" THEN o
  ELSE IF ~Allowed(v) THEN <<"Array", MembersOf(o)>>
  ELSE <<"Array", Append(MembersOf(o), v)>>

\* The last member takes the kind with it: the object may become an array.
JsonRemove(o, k) ==
  IF o[1] # "Item" \/ k = <<>> \/ o[2] = <<>> THEN o
  ELSE LET rest == SelectSeq(o[2], LAMBDA m : m[1] # k)
       IN IF rest = <<>> THEN Unknown ELSE <<"Item", rest>>

\* The kind stays.
JsonClear(o) == IF o[1] = "Unknown" THEN o ELSE <<o[1], <<>>>>

-----------------------------------------------------------------------------
(* to_string. *)

Escaped(s) ==
  FlattenSeq([i \in DOMAIN s |-> CASE s[i] \in {"\"", "\\"} -> <<"\\", s[i]>>
                                   [] s[i] = "nl" -> <<"\\", "n">>
                                   [] OTHER -> <<s[i]>>])
Quoted(s) == <<"\"">> \o Escaped(s) \o <<"\"">>

\* The data is printed with the width and the sign of its type.
Shown(type, n) ==
  CASE type = "int8" -> ((n + 128) % 256) - 128
    [] type = "uint8" -> n % 256
    [] OTHER -> n

Digit == <<"0", "1", "2", "3", "4", "5", "6", "7", "8", "9">>
Decimal[n \in Nat] == IF n < 10 THEN <<Digit[n + 1]>>
                      ELSE Append(Decimal[n \div 10], Digit[(n % 10) + 1])
Number(n) == IF n < 0 THEN <<"-">> \o Decimal[0 - n] ELSE Decimal[n]

Blanks(n) == [i \in 1..n |-> " "]
INDENT == 2

Scalar(v) ==
  CASE v[1] = "string" -> Quoted(v[2])
    [] v[1] = "null" -> <<"n", "u", "l", "l">>
    [] v[1] = "bool" -> IF v[2] THEN <<"t", "r", "u", "e">> ELSE <<"f", "a", "l", "s", "e">>
    [] v[1] = "int" -> Number(Shown(v[2], v[3]))
    [] v[1] = "double" -> v[2]

\* A list between its brackets: one entry on each line, or all on one.
Listed(open, texts, close, compact, indent) ==
  LET comma == IF compact THEN <<",">> ELSE <<",", "nl">>
      last == IF compact THEN <<>> ELSE <<"nl">>
      entries == FlattenSeq([i \in DOMAIN texts |->
                               texts[i] \o IF i < Len(texts) THEN comma ELSE last])
  IN IF texts = <<>> THEN <<open, close>>
     ELSE <<open>> \o last \o entries \o (IF compact THEN <<>> ELSE Blanks(indent)) \o <<close>>

RECURSIVE Text(_, _, _, _)
Text(v, compact, tag, indent) ==
  LET deeper == IF compact THEN indent ELSE indent + INDENT
      colon == IF compact THEN <<":">> ELSE <<":", " ">>
      head == Blanks(indent) \o tag
  IN head \o CASE v[1] = "Unknown" -> <<"{", "}">>
              [] v[1] = "Item" ->
                   Listed("{", [i \in DOMAIN v[2] |->
                                  Text(v[2][i][2], compact, Quoted(v[2][i][1]) \o colon, deeper)],
                          "}", compact, indent)
              [] v[1] = "Array" ->
                   Listed("[", [i \in DOMAIN v[2] |-> Text(v[2][i], compact, <<>>, deeper)],
                          "]", compact, indent)
              [] OTHER -> Scalar(v)

Rendered(o, compact) == Text(o, compact, <<>>, 0)

-----------------------------------------------------------------------------
(* parse_string and fill_value.  Each returns whether it succeeds, where it *)
(* stopped, and what it has read.                                           *)

Parsed(at, val) == [ok |-> TRUE, at |-> at, val |-> val]
Refused == [ok |-> FALSE, at |-> 0, val |-> Unknown]

RECURSIVE Pass(_, _, _), Find(_, _, _)
Pass(t, i, S) == IF i > Len(t) \/ t[i] \notin S THEN i ELSE Pass(t, i + 1, S)
Find(t, i, S) == IF i > Len(t) \/ t[i] \in S THEN i ELSE Find(t, i + 1, S)

\* Mutant of Unescape: the letter n is taken for itself.
UnescapeLetter(c) == IF c \in {"\"", "\\", "n"} THEN <<c>> ELSE <<>>

Unescape(c) ==
  CASE c \in {"\"", "\\"} -> <<c>>
    [] c = "n" -> <<"nl">>
    [] OTHER -> <<>>

\* The characters up to the next quote, which at is the place of.
RECURSIVE Chars(_, _, _)
Chars(t, i, s) ==
  IF i > Len(t) THEN Refused
  ELSE IF t[i] = "\"" THEN Parsed(i, s)
  ELSE IF t[i] # "\\" THEN Chars(t, i + 1, Append(s, t[i]))
  ELSE IF i = Len(t) \/ Unescape(t[i + 1]) = <<>> THEN Refused
  ELSE Chars(t, i + 2, s \o Unescape(t[i + 1]))

ValueStart == Digits \cup {"-", "+", "[", "{", "\"", "n", "t", "f"}
NumberChars == Digits \cup {".", "-", "+"}

\* sscanf of a number: it stops at the first character that cannot belong to it.
Scanned(s) ==
  LET ds == IF s[1] \in {"-", "+"} THEN Tail(s) ELSE s
      run == SubSeq(ds, 1, Pass(ds, 1, Digits) - 1)
      n == FoldLeft(LAMBDA acc, c : 10 * acc + (CHOOSE d \in 0..9 : Digit[d + 1] = c), 0, run)
  IN IF run = <<>> THEN <<>> ELSE <<IF s[1] = "-" THEN 0 - n ELSE n>>

FillNumber(t, i) ==
  LET end == Pass(t, i, NumberChars)
      s == SubSeq(t, i, end - 1)
  IN IF "." \in Range(s) THEN Parsed(end, <<"double", s>>)
     ELSE IF Scanned(s) = <<>> THEN Refused
     ELSE Parsed(end, <<"int", "int64", Scanned(s)[1]>>)

FillWord(t, i) ==
  LET end == Pass(t, i, Lower)
      w == SubSeq(t, i, end - 1)
  IN CASE w = <<"n", "u", "l", "l">> -> Parsed(end, <<"null">>)
       [] w = <<"t", "r", "u", "e">> -> Parsed(end, <<"bool", TRUE>>)
       [] w = <<"f", "a", "l", "s", "e">> -> Parsed(end, <<"bool", FALSE>>)
       [] OTHER -> Refused

FillString(t, i) ==
  LET cs == Chars(t, i + 1, <<>>)
  IN IF cs.ok THEN Parsed(cs.at + 1, <<"string", cs.val>>) ELSE Refused

RECURSIVE ParseItem(_, _, _), ParseArray(_, _, _)

FillValue(t, i) ==
  CASE t[i] = "\"" -> FillString(t, i)
    [] t[i] \in Digits \cup {"-", "+"} -> FillNumber(t, i)
    [] t[i] = "{" -> ParseItem(t, i + 1, Unknown)
    [] t[i] = "[" -> ParseArray(t, i + 1, Unknown)
    [] t[i] \in {"n", "t", "f"} -> FillWord(t, i)
    [] OTHER -> Refused

\* Where the entry begins: behind a comma, or at once when it is the first.
EntryAt(t, i, o, S) ==
  LET j == IF t[i] = "," THEN i + 1 ELSE i
  IN IF t[i] = "," \/ (t[i] \in S /\ o = Unknown) THEN Find(t, j, S) ELSE Len(t) + 1

\* A text that ends right behind a member needs no closing brace.
ParseItem(t, i, o) ==
  LET p == Pass(t, i, Space)
      q == IF p > Len(t) THEN p ELSE EntryAt(t, p, o, {"\""})
      key == Chars(t, q + 1, <<>>)
      colon == Pass(t, key.at, Space \cup {"\""})
      v == Pass(t, colon, Space \cup {":"})
      val == FillValue(t, v)
  IN IF i > Len(t) THEN Parsed(i, o)
     ELSE IF p > Len(t) THEN Refused
     ELSE IF t[p] = "}" THEN Parsed(p + 1, o)
     ELSE IF q > Len(t) \/ ~key.ok \/ key.val = <<>> THEN Refused
     ELSE IF colon > Len(t) \/ t[colon] # ":" \/ v > Len(t) THEN Refused
     ELSE IF ~val.ok THEN Refused
     ELSE ParseItem(t, val.at, JsonPut(o, key.val, val.val))

ParseArray(t, i, o) ==
  LET p == Pass(t, i, Space)
      v == IF p > Len(t) THEN p ELSE EntryAt(t, p, o, ValueStart)
      val == FillValue(t, v)
  IN IF i > Len(t) THEN Parsed(i, o)
     ELSE IF p > Len(t) THEN Refused
     ELSE IF t[p] = "]" THEN Parsed(p + 1, o)
     ELSE IF v > Len(t) THEN Refused
     ELSE IF ~val.ok THEN Refused
     ELSE ParseArray(t, val.at, JsonAppend(o, val.val))

\* pgvictoria_json_parse_string; what follows the object is not looked at.
Parse(t) ==
  IF Len(t) < 2 \/ t[1] \notin {"{", "["} THEN Refused
  ELSE IF t[1] = "{" THEN ParseItem(t, 2, Unknown) ELSE ParseArray(t, 2, Unknown)
=============================================================================
