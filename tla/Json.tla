-------------------------------- MODULE Json --------------------------------
(***************************************************************************)
(* Objects built by the calls of json.h, written to a file, read back and  *)
(* cloned.  The members of an object are owned by it: an object that is    *)
(* put into another one is the caller's no more.                           *)
(***************************************************************************)
EXTENDS JsonReader

CONSTANTS
  Handles,   \* the objects a caller holds
  Keys,      \* the keys it uses, <<>> for the empty string
  Scalars,   \* the values it puts
  MaxSize    \* bound on the values in all objects

VARIABLE obj   \* the object of each handle

vars == obj

RECURSIVE Size(_), Sizes(_)
Size(v) == CASE v[1] = "Item" -> 1 + Sizes([i \in DOMAIN v[2] |-> v[2][i][2]])
             [] v[1] = "Array" -> 1 + Sizes(v[2])
             [] OTHER -> 1
Sizes(s) == IF s = <<>> THEN 0 ELSE Size(Head(s)) + Sizes(Tail(s))

RECURSIVE Total(_, _)
Total(objs, hs) == IF hs = {} THEN 0
                   ELSE LET h == CHOOSE g \in hs : TRUE IN Size(objs[h]) + Total(objs, hs \ {h})
Init == obj = [h \in Handles |-> Unknown]

Become(objs) == Total(objs, Handles) <= MaxSize /\ obj' = objs
Becomes(h, v) == Become([obj EXCEPT ![h] = v])

PutScalar(h, k, v) == Becomes(h, JsonPut(obj[h], k, v))
AppendScalar(h, v) == Becomes(h, JsonAppend(obj[h], v))

\* An object goes into another one; a caller that is refused keeps it.
Given(h, g, v) == h # g /\ Become([obj EXCEPT ![h] = v, ![g] = Unknown])
PutObject(h, g, k) == k # <<>> /\ obj[h][1] # "Array" /\ Given(h, g, JsonPut(obj[h], k, obj[g]))
AppendObject(h, g) == obj[h][1] # "Item" /\ Given(h, g, JsonAppend(obj[h], obj[g]))

RemoveKey(h, k) == Becomes(h, JsonRemove(obj[h], k))
ClearObject(h) == Becomes(h, JsonClear(obj[h]))
Destroy(h) == Becomes(h, Unknown)

\* pgvictoria_json_clone goes by way of the text, as an object does that is written to a
\* file and read from it: one action stands for both.
WriteFile(o) == Rendered(o, FALSE)
ReadFile(t) == Parse(t)
Clone(h, g) ==
  /\ h # g
  /\ \E copy \in {ReadFile(WriteFile(obj[h]))} : copy.ok /\ Becomes(g, copy.val)

Next ==
  \E h \in Handles :
    \/ \E k \in Keys, v \in Scalars : PutScalar(h, k, v)
    \/ \E v \in Scalars : AppendScalar(h, v)
    \/ \E g \in Handles, k \in Keys : PutObject(h, g, k)
    \/ \E g \in Handles : AppendObject(h, g) \/ Clone(h, g)
    \/ \E k \in Keys : RemoveKey(h, k)
    \/ ClearObject(h) \/ Destroy(h)

Spec == Init /\ [][Next]_vars

-----------------------------------------------------------------------------
(* Properties. *)

\* What a text can keep of a value: a number's value and not its type, and of an object
\* without members not whether it was an item or an array.
RECURSIVE Kept(_)
Kept(v) ==
  CASE v[1] = "int" -> <<"int", "int64", Shown(v[2], v[3])>>
    [] v[1] \in {"Item", "Array"} /\ v[2] = <<>> -> Unknown
    [] v[1] = "Item" -> <<"Item", [i \in DOMAIN v[2] |-> <<v[2][i][1], Kept(v[2][i][2])>>]>>
    [] v[1] = "Array" -> <<"Array", [i \in DOMAIN v[2] |-> Kept(v[2][i])]>>
    [] OTHER -> v

\* Whatever was put into an object, its text, with or without line breaks, is read back
\* as the object: quotes, backslashes and newlines in keys and strings come back, and a
\* member ends where the next one begins (to_string against parse_string).
RoundTrip ==
  \A h \in Handles, compact \in BOOLEAN :
    LET read == Parse(Rendered(obj[h], compact))
    IN read.ok /\ read.val = Kept(obj[h])

\* What the reader is made for: strings without characters of JSON in them, numbers
\* without a sign, and objects.
Unsigned(s) == s[1] \in Digits
Plain(s) == Range(s) \cap {"\"", "\\", "nl", "{", "}", "[", "]"} = {}
RECURSIVE Readable(_)
Readable(v) ==
  CASE v[1] = "string" -> Plain(v[2])
    [] v[1] = "int" -> Shown(v[2], v[3]) >= 0
    [] v[1] = "double" -> Unsigned(v[2])
    [] v[1] = "Item" -> \A i \in DOMAIN v[2] : Plain(v[2][i][1]) /\ Readable(v[2][i][2])
    [] v[1] = "Array" -> \A i \in DOMAIN v[2] : Readable(v[2][i])
    [] OTHER -> v = Unknown

\* The value at a path of keys, as pgvictoria_json_get finds it, or nothing.
RECURSIVE At(_, _)
At(v, path) ==
  IF path = <<>> THEN <<v>>
  ELSE LET ms == IF v[1] = "Item" THEN SelectSeq(v[2], LAMBDA m : m[1] = path[1]) ELSE <<>>
       IN IF ms = <<>> THEN <<>> ELSE At(ms[1][2], Tail(path))

\* What the reader hands out of an item: its numbers and strings, "" as null and of a
\* decimal the integer part as the bits of a float, which is not the number.
Streamed(v) ==
  LET ms == SelectSeq(v[2], LAMBDA m : m[2][1] \notin Objects)
      Val(x) == CASE x = <<"string", <<>>>> -> <<"null">>
                  [] x[1] = "double" -> FloatBits(x[2])
                  [] OTHER -> Kept(x)
  IN IF ms = <<>> THEN Unknown
     ELSE <<"Item", [i \in DOMAIN ms |-> <<ms[i][1], Val(ms[i][2])>>]>>

\* On a file that was written with line breaks, and holds what the reader is made for,
\* the reader finds an object exactly where there is one, however deep and behind
\* whatever values, and hands out every item of an array of items once and in order.
Paths == {<<>>} \cup {<<k>> : k \in Keys \ {<<>>}}
         \cup {<<k, l>> : k \in Keys \ {<<>>}, l \in Keys \ {<<>>}}
ReaderFinds ==
  \A h \in Handles : obj[h] # Unknown /\ Readable(obj[h]) =>
    LET t == Rendered(obj[h], FALSE)
    IN \A path \in Paths :
         LET there == At(obj[h], path)
             found == Locate(t, Opened(t), path)
         IN /\ found.state # "Invalid" <=> there # <<>> /\ there[1][1] \in Objects
            /\ there # <<>> /\ there[1][1] = "Array"
               /\ (\A i \in DOMAIN there[1][2] : there[1][2][i][1] = "Item" /\ there[1][2][i][2] # <<>>)
               => Items(t, found, MaxSize) = [i \in DOMAIN there[1][2] |-> Streamed(there[1][2][i])]
=============================================================================
