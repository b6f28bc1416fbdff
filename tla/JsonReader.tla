----------------------------- MODULE JsonReader -----------------------------
(***************************************************************************)
(* The reader of json.c, which goes through a file character by character  *)
(* and keeps a state and no stack: it finds the object at a path of keys   *)
(* and hands out the items of an array one by one.  A refill of its buffer *)
(* cannot be told from the next character and is left out.                 *)
(***************************************************************************)
EXTENDS JsonText

\* pgvictoria_json_reader: at is the number of characters that were taken.
Reader(at, state) == [at |-> at, state |-> state]
Invalid == Reader(0, "Invalid")

\* advance_to_first_array_element
ToFirst(t, at) ==
  LET i == Find(t, at + 1, {"{", "\"", "[", "]"} \cup Digits)
  IN IF i > Len(t) THEN Invalid
     ELSE IF t[i] = "]" THEN Reader(i, "ArrayEnd") ELSE Reader(i - 1, "ArrayStart")

\* pgvictoria_json_reader_init
Opened(t) ==
  LET i == Find(t, 1, {"{", "["})
  IN IF i > Len(t) THEN Invalid
     ELSE IF t[i] = "{" THEN Reader(i, "ItemStart") ELSE ToFirst(t, i)

\* Mutant of Balanced: the first closing bracket is taken for the last.
BalancedFirst(t, i, open, close, count) == Find(t, i, {close}) + 1

\* The place behind the closing bracket: one character more is taken, when there is one.
RECURSIVE Balanced(_, _, _, _, _)
Balanced(t, i, open, close, count) ==
  IF count = 0 THEN i
  ELSE IF i > Len(t) THEN 0
  ELSE Balanced(t, i + 1, open, close,
                CASE t[i] = open -> count + 1 [] t[i] = close -> count - 1 [] OTHER -> count)

\* json_fast_forward_value from a character at c that has been taken: the place of the
\* last one it takes, or 0.  A quote that ends the file is taken for a string.
FastForward(t, c) ==
  LET i == Find(t, c, {"{", "[", "\""} \cup Digits)
      q == Find(t, i + 1, {"\""})
      d == Pass(t, i + 1, Digits \cup {"."})
  IN IF i > Len(t) THEN 0
     ELSE CASE t[i] = "\"" /\ i = Len(t) -> i
            [] t[i] = "{" -> Balanced(t, i + 1, "{", "}", 1)
            [] t[i] = "[" -> Balanced(t, i + 1, "[", "]", 1)
            [] t[i] = "\"" -> IF q > Len(t) THEN 0 ELSE q
            [] OTHER -> IF d > Len(t) THEN 0 ELSE d

\* A character that the loops of locate and of the item's parser look at in a state.
Looked(c, state) ==
  \/ c \in {"\"", ":", "{", "}"}
  \/ state = "ValueStart" /\ c \in Digits \cup {"["}

\* Locate at the character i for what is left of the path, with the key read so far.
RECURSIVE Walk(_, _, _, _, _)
Walk(t, i, state, key, path) ==
  IF i > Len(t) THEN Invalid
  ELSE LET c == t[i] IN
    CASE ~Looked(c, state) ->
           Walk(t, i + 1, state, IF state = "KeyStart" THEN Append(key, c) ELSE key, path)
      [] state = "ItemStart" /\ c = "\"" -> Walk(t, i + 1, "KeyStart", key, path)
      [] state = "ItemStart" /\ c = "}" -> Walk(t, i + 1, "ItemEnd", key, path)
      [] state = "KeyStart" /\ c = "\"" -> Walk(t, i + 1, "KeyEnd", key, path)
      [] state = "KeyEnd" /\ c = ":" -> Walk(t, i + 1, "ValueStart", key, path)
      [] state = "ValueEnd" /\ c = "\"" -> Walk(t, i + 1, "KeyStart", key, path)
      [] state = "ValueStart" /\ key = path[1] /\ Len(path) = 1 ->
           CASE c = "{" -> Reader(i, "ItemStart")
             [] c = "[" -> ToFirst(t, i)
             [] OTHER -> Invalid
      [] state = "ValueStart" /\ key = path[1] /\ Len(path) > 1 ->
           IF c = "{" /\ i < Len(t) THEN Walk(t, i + 1, "ItemStart", <<>>, Tail(path)) ELSE Invalid
      [] state = "ValueStart" /\ key # path[1] ->
           LET f == FastForward(t, i)
           IN IF key = <<>> \/ f = 0 THEN Invalid ELSE Walk(t, f + 1, "ValueEnd", <<>>, path)
      [] OTHER -> Invalid

\* pgvictoria_json_locate
Locate(t, r, path) ==
  CASE r.state = "Invalid" -> Invalid
    [] path = <<>> -> r
    [] r.state \in {"ArrayStart", "ArrayEnd"} -> Invalid
    [] OTHER -> Walk(t, r.at + 1, r.state, <<>>, path)

\* A decimal is put as what its integer part is when its bits are taken for a float.
FloatBits(s) == <<"float", Scanned(s)[1]>>

\* json_stream_parse_item: the item's strings and numbers; objects in it are passed over.
RECURSIVE Stream(_, _, _, _, _)
Stream(t, i, state, key, item) ==
  IF i > Len(t) THEN Parsed(i - 1, item)
  ELSE LET c == t[i] IN
    CASE ~Looked(c, state) ->
           Stream(t, i + 1, state, IF state = "KeyStart" THEN Append(key, c) ELSE key, item)
      [] state = "ItemStart" /\ c = "\"" -> Stream(t, i + 1, "KeyStart", key, item)
      [] state = "KeyStart" /\ c = "\"" -> Stream(t, i + 1, "KeyEnd", key, item)
      [] state = "KeyEnd" /\ c = ":" -> Stream(t, i + 1, "ValueStart", key, item)
      [] state = "ValueStart" /\ key # <<>> /\ c \in {"{", "["} ->
           LET f == FastForward(t, i)
           IN IF f = 0 THEN Refused ELSE Stream(t, f + 1, "ValueEnd", <<>>, item)
      [] state = "ValueStart" /\ key # <<>> /\ c = "\"" ->
           LET q == Find(t, i + 1, {"\""})
               s == SubSeq(t, i + 1, q - 1)
           IN IF q > Len(t) /\ i < Len(t) THEN Refused
              ELSE Stream(t, q + 1, "ValueEnd", <<>>,
                          JsonPut(item, key, IF s = <<>> THEN <<"null">> ELSE <<"string", s>>))
      [] state = "ValueStart" /\ key # <<>> /\ c \in Digits ->
           LET d == Pass(t, i, Digits \cup {"."})
               s == SubSeq(t, i, d - 1)
           IN IF d > Len(t) \/ Cardinality({j \in DOMAIN s : s[j] = "."}) > 1 THEN Refused
              ELSE Stream(t, d, "ValueEnd", <<>>,
                          JsonPut(item, key, IF "." \in Range(s) THEN FloatBits(s)
                                         ELSE <<"int", "int64", Scanned(s)[1]>>))
      [] state = "ValueEnd" /\ c = "\"" -> Stream(t, i + 1, "KeyStart", key, item)
      [] state = "ValueEnd" /\ c = "}" -> Parsed(i, item)
      [] state = "ValueEnd" /\ c \in {":", "{"} -> Stream(t, i + 1, state, key, item)
      [] OTHER -> Refused

\* pgvictoria_json_next_array_item: the item, and the reader before the next one.  At
\* the end of a file whose array is not closed there is always one item more.
NextItem(t, r) ==
  LET none == [found |-> FALSE, item |-> Unknown, reader |-> Invalid]
      start == IF r.at = Len(t) THEN r.at + 1 ELSE r.at + 2
      item == Stream(t, start, "ItemStart", <<>>, Unknown)
      next == Find(t, item.at + 1, {"{", "]"})
  IN IF r.state # "ArrayStart" \/ (r.at < Len(t) /\ t[r.at + 1] # "{") \/ ~item.ok THEN none
     ELSE [found |-> TRUE, item |-> item.val,
           reader |-> IF next > Len(t) THEN Reader(Len(t), "ArrayStart")
                      ELSE IF t[next] = "]" THEN Reader(next, "ArrayEnd")
                      ELSE Reader(next - 1, "ArrayStart")]

\* The first n items.
RECURSIVE Items(_, _, _)
Items(t, r, n) ==
  LET got == NextItem(t, r)
  IN IF n = 0 \/ ~got.found THEN <<>> ELSE <<got.item>> \o Items(t, got.reader, n - 1)
=============================================================================
