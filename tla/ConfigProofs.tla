----------------------------- MODULE ConfigProofs -----------------------------
(***************************************************************************)
(* Proofs about ConfigFile: for any sections, keys and values, any files   *)
(* to begin with and any number of commands, each of which may be killed.  *)
(***************************************************************************)
EXTENDS ConfigFile, SequenceFacts, FiniteSetTheorems, TLAPS

-----------------------------------------------------------------------------
(* The first and the last of some lines. *)

\* A set of line numbers has a greatest and a least one.
LEMMA MaxMin ==
  ASSUME NEW n \in Nat, NEW S, S \subseteq 0 .. n, S # {}
  PROVE  /\ Max(S) \in S /\ \A y \in S : y <= Max(S)
         /\ Min(S) \in S /\ \A y \in S : Min(S) <= y
<1>1. \E x \in S : \A y \in S : x >= y
  <2> DEFINE T == {n - x : x \in S}
  <2>1. T \subseteq Nat /\ T # {}
    <3>1. \A x \in S : n - x \in Nat /\ n - x \in T
      OBVIOUS
    <3> QED
      BY <3>1
  <2>2. PICK m \in T : \A y \in T : m <= y
    BY <2>1, LeastNatural
  <2>3. PICK x \in S : m = n - x
    OBVIOUS
  <2>4. \A y \in S : n - x <= n - y
    BY <2>2, <2>3
  <2> QED
    BY <2>3, <2>4
<1>2. \E x \in S : \A y \in S : x =< y
  <2>1. S \subseteq Nat
    OBVIOUS
  <2> QED
    BY <2>1, LeastNatural
<1>3. Max(S) \in S /\ \A y \in S : Max(S) >= y
  BY <1>1 DEF Max
<1>4. Min(S) \in S /\ \A y \in S : Min(S) =< y
  BY <1>2 DEF Min
<1> QED
  BY <1>3, <1>4

-----------------------------------------------------------------------------
(* Files without sets of line numbers.                                     *)

\* Line h is the header of the section that line i is in.
InSec(f, h, i) ==
  /\ h \in DOMAIN f /\ f[h].is = "header" /\ h <= i
  /\ \A j \in DOMAIN f : h < j /\ j <= i => f[j].is # "header"

KeyAt(f, i, s, k) ==
  /\ f[i].is = "key" /\ f[i].name = k
  /\ \E h \in DOMAIN f : f[h].name = s /\ InSec(f, h, i)

HasSec(f, s) == \E h \in DOMAIN f : f[h].is = "header" /\ f[h].name = s

Holds(f, s, k, v) == \E i \in DOMAIN f : KeyAt(f, i, s, k) /\ f[i].val = v

\* What a line of a file is.
LEMMA LineFacts ==
  ASSUME NEW f \in Seq(Line), NEW i \in DOMAIN f
  PROVE  /\ f[i] \in Line /\ i \in 1 .. Len(f) /\ Len(f) \in Nat
         /\ f[i].is = "header" => f[i].name \in Sections
         /\ f[i].is = "key" => f[i].name \in ConfKeys /\ f[i].val \in Values \union {Garbled}
         /\ f[i].nl \in BOOLEAN
<1>1. f[i] \in Line /\ i \in 1 .. Len(f) /\ Len(f) \in Nat
  OBVIOUS
<1>2. \A x \in Line :
        /\ x.is = "header" => x.name \in Sections
        /\ x.is = "key" => x.name \in ConfKeys /\ x.val \in Values \union {Garbled}
        /\ x.nl \in BOOLEAN
  BY DEF Line
<1> QED
  BY <1>1, <1>2, Zenon

\* A file that Proper allows: no section twice, no key twice under a header, every key
\* under one, every newline there.
OneHeader(f) ==
  \A i, j \in DOMAIN f :
    f[i].is = "header" /\ f[j].is = "header" /\ f[i].name = f[j].name => i = j

OneKey(f) ==
  \A i, j, h \in DOMAIN f :
    /\ f[i].is = "key" /\ f[j].is = "key" /\ f[i].name = f[j].name
    /\ InSec(f, h, i) /\ InSec(f, h, j)
    => i = j

Housed(f) == \A i \in DOMAIN f : f[i].is = "key" => \E h \in DOMAIN f : InSec(f, h, i)

Neat(f) ==
  f \in Seq(Line) /\ OneHeader(f) /\ OneKey(f) /\ Housed(f) /\ \A i \in DOMAIN f : f[i].nl

\* No line is under two headers.
LEMMA OneSection ==
  ASSUME NEW f \in Seq(Line), NEW g \in DOMAIN f, NEW h \in DOMAIN f, NEW i \in DOMAIN f,
         InSec(f, g, i), InSec(f, h, i)
  PROVE  g = h
<1>1. g \in Nat /\ h \in Nat /\ i \in Nat
  BY LineFacts
<1>2. ~(g < h) /\ ~(h < g)
  BY <1>1 DEF InSec
<1> QED
  BY <1>1, <1>2

\* The header that Under finds is the one whose section the line is in.
LEMMA UnderIs ==
  ASSUME NEW f \in Seq(Line), NEW i \in DOMAIN f
  PROVE  /\ Under(f, i) # 0 => Under(f, i) \in DOMAIN f /\ InSec(f, Under(f, i), i)
         /\ Under(f, i) = 0 => \A h \in DOMAIN f : ~InSec(f, h, i)
         /\ 0 \notin DOMAIN f
<1> DEFINE S == {j \in Headers(f) : j <= i} \union {0}
           u == Max(S)
<1>0. Len(f) \in Nat /\ DOMAIN f = 1 .. Len(f)
  BY LineFacts
<1>1. S \subseteq 0 .. Len(f) /\ S # {}
  BY <1>0 DEF Headers
<1>2. u \in S /\ \A y \in S : y <= u
  <2> HIDE DEF S
  <2> QED
    BY <1>0, <1>1, MaxMin
<1>3. Under(f, i) = u
  BY DEF Under
<1>4. \A h \in DOMAIN f : f[h].is = "header" /\ h <= i => h <= u
  BY <1>2 DEF Headers
<1>5. u # 0 => u \in DOMAIN f /\ f[u].is = "header" /\ u <= i
  BY <1>2 DEF Headers
<1> HIDE DEF u
<1>6. u \in 0 .. Len(f)
  BY <1>1, <1>2 DEF u
<1> QED
  BY <1>0, <1>3, <1>4, <1>5, <1>6 DEF InSec

\* What KeysOf collects.
LEMMA KeysAre ==
  ASSUME NEW f \in Seq(Line), NEW s \in Sections, NEW k \in ConfKeys
  PROVE  KeysOf(f, s, k) = {i \in DOMAIN f : KeyAt(f, i, s, k)}
<1> SUFFICES ASSUME NEW i \in DOMAIN f, f[i].is = "key", f[i].name = k
             PROVE  Within(f, i, s) <=> \E h \in DOMAIN f : f[h].name = s /\ InSec(f, h, i)
  BY DEF KeysOf, KeyAt
<1>1. Under(f, i) # 0 => Under(f, i) \in DOMAIN f /\ InSec(f, Under(f, i), i)
  BY UnderIs
<1>2. Under(f, i) = 0 => \A h \in DOMAIN f : ~InSec(f, h, i)
  BY UnderIs
<1>3. 0 \notin DOMAIN f
  BY UnderIs
<1>4. Within(f, i, s) <=> /\ Under(f, i) \in DOMAIN f /\ f[Under(f, i)].is = "header"
                          /\ f[Under(f, i)].name = s
  BY DEF Within, HeadersOf, Headers
<1>5. \A h \in DOMAIN f : InSec(f, h, i) /\ Under(f, i) # 0 => h = Under(f, i)
  BY <1>1, OneSection
<1>6. \A h \in DOMAIN f : InSec(f, h, i) => f[h].is = "header"
  BY DEF InSec
<1> QED
  BY <1>1, <1>2, <1>3, <1>4, <1>5, <1>6

\* A set of line numbers with at most one element.
LEMMA AtMostOneLine ==
  ASSUME NEW f \in Seq(Line), NEW S, S \subseteq DOMAIN f
  PROVE  Cardinality(S) <= 1 <=> \A i, j \in S : i = j
<1>0. IsFiniteSet(S) /\ Cardinality(S) \in Nat
  <2>1. IsFiniteSet(DOMAIN f)
    BY LineFacts, FS_Interval
  <2> QED
    BY <2>1, FS_Subset, FS_CardinalityType
<1>1. ASSUME Cardinality(S) <= 1, NEW i \in S, NEW j \in S PROVE i = j
  <2>1. CASE Cardinality(S) = 0
    BY <1>0, <2>1, FS_EmptySet
  <2>2. CASE Cardinality(S) = 1
    <3>1. \E x : S = {x}
      BY <1>0, <2>2, FS_Singleton
    <3> QED
      BY <3>1
  <2> QED
    BY <1>0, <1>1, <2>1, <2>2
<1>2. ASSUME \A i, j \in S : i = j PROVE Cardinality(S) <= 1
  <2>1. CASE S = {}
    BY <2>1, FS_EmptySet
  <2>2. CASE S # {}
    <3>1. PICK x : S = {x}
      BY <1>2, <2>2
    <3>2. Cardinality({x}) = 1
      BY FS_Singleton, Zenon
    <3> QED
      BY <3>1, <3>2
  <2> QED
    BY <2>1, <2>2
<1> QED
  BY <1>1, <1>2

\* Proper says the same with sets of line numbers.
LEMMA ProperIsNeat ==
  ASSUME NEW f \in Seq(Line)
  PROVE  Proper(f) <=> Neat(f)
<1>1. (\A s \in Sections : Cardinality(HeadersOf(f, s)) <= 1) <=> OneHeader(f)
  <2>1. \A s \in Sections :
          Cardinality(HeadersOf(f, s)) <= 1 <=> \A i, j \in HeadersOf(f, s) : i = j
    BY AtMostOneLine DEF HeadersOf, Headers
  <2>2. (\A s \in Sections : \A i, j \in HeadersOf(f, s) : i = j) <=> OneHeader(f)
    BY LineFacts DEF HeadersOf, Headers, OneHeader
  <2> QED
    BY <2>1, <2>2
<1>2. (\A s \in Sections, k \in ConfKeys : Cardinality(KeysOf(f, s, k)) <= 1) <=>
        \A s \in Sections, k \in ConfKeys : \A i, j \in DOMAIN f :
          KeyAt(f, i, s, k) /\ KeyAt(f, j, s, k) => i = j
  <2> SUFFICES ASSUME NEW s \in Sections, NEW k \in ConfKeys
               PROVE  Cardinality(KeysOf(f, s, k)) <= 1 <=>
                        \A i, j \in DOMAIN f : KeyAt(f, i, s, k) /\ KeyAt(f, j, s, k) => i = j
    OBVIOUS
  <2>1. Cardinality(KeysOf(f, s, k)) <= 1 <=> \A i, j \in KeysOf(f, s, k) : i = j
    BY AtMostOneLine DEF KeysOf
  <2> QED
    BY <2>1, KeysAre
<1>3. ASSUME OneHeader(f)
      PROVE  OneKey(f) <=> \A s \in Sections, k \in ConfKeys : \A i, j \in DOMAIN f :
                             KeyAt(f, i, s, k) /\ KeyAt(f, j, s, k) => i = j
  <2>1. ASSUME OneKey(f), NEW s \in Sections, NEW k \in ConfKeys,
               NEW i \in DOMAIN f, NEW j \in DOMAIN f, KeyAt(f, i, s, k), KeyAt(f, j, s, k)
        PROVE  i = j
    <3>1. PICK h \in DOMAIN f : f[h].name = s /\ InSec(f, h, i)
      BY <2>1 DEF KeyAt
    <3>2. PICK g \in DOMAIN f : f[g].name = s /\ InSec(f, g, j)
      BY <2>1 DEF KeyAt
    <3>3. g = h
      BY <1>3, <3>1, <3>2 DEF OneHeader, InSec
    <3> QED
      BY <2>1, <3>1, <3>2, <3>3 DEF OneKey, KeyAt
  <2>2. ASSUME \A s \in Sections, k \in ConfKeys : \A i, j \in DOMAIN f :
                 KeyAt(f, i, s, k) /\ KeyAt(f, j, s, k) => i = j,
               NEW i \in DOMAIN f, NEW j \in DOMAIN f, NEW h \in DOMAIN f,
               f[i].is = "key", f[j].is = "key", f[i].name = f[j].name,
               InSec(f, h, i), InSec(f, h, j)
        PROVE  i = j
    <3>1. f[h].name \in Sections /\ f[i].name \in ConfKeys
      BY <2>2, LineFacts DEF InSec
    <3>2. KeyAt(f, i, f[h].name, f[i].name) /\ KeyAt(f, j, f[h].name, f[i].name)
      BY <2>2 DEF KeyAt
    <3> QED
      BY <2>2, <3>1, <3>2
  <2> QED
    BY <2>1, <2>2 DEF OneKey
<1>4. (\A i \in DOMAIN f : f[i].is = "key" => Under(f, i) # 0) <=> Housed(f)
  BY UnderIs, Zenon DEF Housed
<1> QED
  BY <1>1, <1>2, <1>3, <1>4 DEF Proper, Neat

-----------------------------------------------------------------------------
(* Files that change.                                                      *)
(*                                                                         *)
(* In every edit some of the lines of f, D, go to lines of g, in order.    *)
(* A new header comes behind them all, and where a header goes the lines   *)
(* of its section go too.                                                  *)

Moves(f, g, D, e) ==
  /\ f \in Seq(Line) /\ g \in Seq(Line)
  /\ D \subseteq DOMAIN f /\ e \in [D -> DOMAIN g]
  /\ \A i, j \in D : i < j => e[i] < e[j]
  /\ \A i \in D : g[e[i]].is = f[i].is /\ g[e[i]].name = f[i].name
  /\ \A n \in DOMAIN g : g[n].is = "header" => (\E h \in D : n = e[h]) \/ \A i \in D : e[i] < n
  /\ \A h \in DOMAIN f \ D, i \in D : f[h].is = "header" /\ h < i =>
       \E j \in D : f[j].is = "header" /\ h < j /\ j <= i

\* The lines that move stay in the sections they were in.
LEMMA Carry ==
  ASSUME NEW f, NEW g, NEW D, NEW e, Moves(f, g, D, e), NEW i \in D
  PROVE  /\ \A h \in DOMAIN f : InSec(f, h, i) => h \in D /\ InSec(g, e[h], e[i])
         /\ \A n \in DOMAIN g : InSec(g, n, e[i]) => \E h \in D : n = e[h] /\ InSec(f, h, i)
<1>0. /\ f \in Seq(Line) /\ g \in Seq(Line) /\ Len(f) \in Nat /\ Len(g) \in Nat
      /\ DOMAIN f = 1 .. Len(f) /\ DOMAIN g = 1 .. Len(g)
      /\ D \subseteq DOMAIN f /\ \A j \in D : e[j] \in DOMAIN g
  BY DEF Moves
<1>1. \A j, k \in D : j < k <=> e[j] < e[k]
  BY <1>0 DEF Moves
<1>2. ASSUME NEW h \in DOMAIN f, InSec(f, h, i) PROVE h \in D
  <2> SUFFICES ASSUME h \notin D PROVE FALSE
    OBVIOUS
  <2>1. f[h].is = "header" /\ h <= i /\ h # i
    BY <1>2 DEF InSec
  <2>2. h < i
    BY <1>0, <2>1
  <2>3. PICK j \in D : f[j].is = "header" /\ h < j /\ j <= i
    BY <2>1, <2>2 DEF Moves
  <2> QED
    BY <1>0, <1>2, <2>3 DEF InSec
<1>3. ASSUME NEW h \in D, InSec(f, h, i) PROVE InSec(g, e[h], e[i])
  <2>1. f[h].is = "header" /\ h <= i /\ \A j \in DOMAIN f : h < j /\ j <= i => f[j].is # "header"
    BY <1>3 DEF InSec
  <2>2. g[e[h]].is = "header" /\ e[h] <= e[i] /\ e[h] \in DOMAIN g
    BY <1>0, <1>1, <2>1 DEF Moves
  <2>3. ASSUME NEW n \in DOMAIN g, e[h] < n, n <= e[i], g[n].is = "header" PROVE FALSE
    <3>1. PICK j \in D : n = e[j]
      BY <1>0, <2>3 DEF Moves
    <3>2. h < j /\ j <= i
      BY <1>0, <1>1, <2>3, <3>1
    <3>3. f[j].is = "header"
      BY <2>3, <3>1 DEF Moves
    <3> QED
      BY <1>0, <2>1, <3>2, <3>3
  <2> QED
    BY <2>2, <2>3 DEF InSec
<1>4. ASSUME NEW n \in DOMAIN g, InSec(g, n, e[i])
      PROVE  \E h \in D : n = e[h] /\ InSec(f, h, i)
  <2>1. g[n].is = "header" /\ n <= e[i] /\ \A j \in DOMAIN g : n < j /\ j <= e[i] => g[j].is # "header"
    BY <1>4 DEF InSec
  <2>2. PICK h \in D : n = e[h]
    <3>1. e[i] \in Int /\ n \in Int
      BY <1>0
    <3>2. ~(e[i] < n)
      BY <2>1, <3>1
    <3> QED
      BY <2>1, <3>2 DEF Moves
  <2>3. h <= i /\ f[h].is = "header"
    BY <1>0, <1>1, <2>1, <2>2 DEF Moves
  <2>4. ASSUME NEW j \in D, h < j, j <= i, f[j].is = "header" PROVE FALSE
    <3>1. n < e[j] /\ e[j] <= e[i] /\ e[j] \in DOMAIN g
      BY <1>0, <1>1, <2>2, <2>4
    <3>2. g[e[j]].is = "header"
      BY <2>4 DEF Moves
    <3> QED
      BY <2>1, <3>1, <3>2
  <2>5. ASSUME NEW j \in DOMAIN f, h < j, j <= i, f[j].is = "header" PROVE FALSE
    <3>1. j \notin D
      BY <2>4, <2>5
    <3>2. j < i
      BY <1>0, <2>5, <3>1
    <3>3. PICK k \in D : f[k].is = "header" /\ j < k /\ k <= i
      BY <2>5, <3>1, <3>2 DEF Moves
    <3>4. h < k
      BY <1>0, <2>5, <3>3
    <3> QED
      BY <2>4, <3>3, <3>4
  <2>6. h \in DOMAIN f
    BY <1>0
  <2> QED
    BY <2>2, <2>3, <2>5, <2>6 DEF InSec
<1> QED
  BY <1>2, <1>3, <1>4

\* So a key that moves is one of the same section.
LEMMA CarryKey ==
  ASSUME NEW f, NEW g, NEW D, NEW e, Moves(f, g, D, e), NEW i \in D, NEW s, NEW k
  PROVE  KeyAt(g, e[i], s, k) <=> KeyAt(f, i, s, k)
<1>1. g[e[i]].is = f[i].is /\ g[e[i]].name = f[i].name /\ i \in DOMAIN f /\ D \subseteq DOMAIN f
  BY DEF Moves
<1>2. \A h \in D : g[e[h]].name = f[h].name /\ e[h] \in DOMAIN g
  BY DEF Moves
<1>3. \A h \in DOMAIN f : InSec(f, h, i) => h \in D /\ InSec(g, e[h], e[i])
  BY Carry
<1>4. \A n \in DOMAIN g : InSec(g, n, e[i]) => \E h \in D : n = e[h] /\ InSec(f, h, i)
  BY Carry
<1> QED
  BY <1>1, <1>2, <1>3, <1>4 DEF KeyAt

\* A new line that repeats no section and no key, and is under a header if it is a key.
NewFits(g, n) ==
  /\ g[n].is = "header" =>
       \A j \in DOMAIN g : g[j].is = "header" /\ g[j].name = g[n].name => j = n
  /\ g[n].is = "key" =>
       /\ \E h \in DOMAIN g : InSec(g, h, n)
       /\ \A j, h \in DOMAIN g :
            /\ g[j].is = "key" /\ g[j].name = g[n].name
            /\ InSec(g, h, j) /\ InSec(g, h, n)
            => j = n

\* A neat file stays neat when its lines move and the new ones fit in.
LEMMA NeatMoved ==
  ASSUME NEW f, NEW g, NEW D, NEW e, Moves(f, g, D, e), Neat(f),
         \A n \in DOMAIN g : (\E i \in D : n = e[i]) \/ NewFits(g, n),
         \A n \in DOMAIN g : g[n].nl
  PROVE  Neat(g)
<1>0. /\ f \in Seq(Line) /\ g \in Seq(Line) /\ D \subseteq DOMAIN f
      /\ \A j \in D : /\ e[j] \in DOMAIN g
                      /\ g[e[j]].is = f[j].is /\ g[e[j]].name = f[j].name
  BY DEF Moves
<1>1. OneHeader(g)
  <2> SUFFICES ASSUME NEW m \in DOMAIN g, NEW n \in DOMAIN g, g[m].is = "header",
                      g[n].is = "header", g[m].name = g[n].name
               PROVE  m = n
    BY DEF OneHeader
  <2>1. CASE NewFits(g, m) \/ NewFits(g, n)
    BY <2>1 DEF NewFits
  <2>2. ASSUME NEW i \in D, m = e[i], NEW j \in D, n = e[j] PROVE m = n
    BY <1>0, <2>2 DEF Neat, OneHeader
  <2> QED
    BY <2>1, <2>2
<1>2. OneKey(g)
  <2> SUFFICES ASSUME NEW m \in DOMAIN g, NEW n \in DOMAIN g, NEW h \in DOMAIN g,
                      g[m].is = "key", g[n].is = "key", g[m].name = g[n].name,
                      InSec(g, h, m), InSec(g, h, n)
               PROVE  m = n
    BY DEF OneKey
  <2>1. CASE NewFits(g, m) \/ NewFits(g, n)
    BY <2>1 DEF NewFits
  <2>2. ASSUME NEW i \in D, m = e[i], NEW j \in D, n = e[j] PROVE m = n
    <3>1. PICK a \in D : h = e[a] /\ InSec(f, a, i)
      BY <2>2, Carry
    <3>2. PICK b \in D : h = e[b] /\ InSec(f, b, j)
      BY <2>2, Carry
    <3>3. a = b
      <4>1. a \in Int /\ b \in Int
        BY <1>0
      <4>2. ~(a < b) /\ ~(b < a)
        <5>1. e[a] \in Int /\ e[b] \in Int /\ e[a] = e[b]
          BY <1>0, <3>1, <3>2
        <5> QED
          BY <5>1 DEF Moves
      <4> QED
        BY <4>1, <4>2
    <3>4. f[i].is = "key" /\ f[j].is = "key" /\ f[i].name = f[j].name
      BY <1>0, <2>2
    <3>5. i = j
      BY <1>0, <3>1, <3>2, <3>3, <3>4 DEF Neat, OneKey
    <3> QED
      BY <2>2, <3>5
  <2> QED
    BY <2>1, <2>2
<1>3. Housed(g)
  <2> SUFFICES ASSUME NEW n \in DOMAIN g, g[n].is = "key"
               PROVE  \E h \in DOMAIN g : InSec(g, h, n)
    BY DEF Housed
  <2>1. CASE NewFits(g, n)
    BY <2>1 DEF NewFits
  <2>2. ASSUME NEW i \in D, n = e[i] PROVE \E h \in DOMAIN g : InSec(g, h, n)
    <3>1. f[i].is = "key" /\ i \in DOMAIN f
      BY <1>0, <2>2
    <3>2. PICK h \in DOMAIN f : InSec(f, h, i)
      BY <3>1 DEF Neat, Housed
    <3>3. h \in D /\ InSec(g, e[h], e[i])
      BY <3>2, Carry
    <3> QED
      BY <1>0, <2>2, <3>3
  <2> QED
    BY <2>1, <2>2
<1> QED
  BY <1>0, <1>1, <1>2, <1>3 DEF Neat

\* No key is in two places of a neat file, and none in two sections.
LEMMA NeatKey ==
  ASSUME NEW f, Neat(f), NEW i \in DOMAIN f, NEW s, NEW k, KeyAt(f, i, s, k)
  PROVE  /\ \A j \in DOMAIN f : KeyAt(f, j, s, k) => i = j
         /\ \A t, l : KeyAt(f, i, t, l) => t = s /\ l = k
<1>0. f \in Seq(Line)
  BY DEF Neat
<1>1. PICK h \in DOMAIN f : f[h].name = s /\ InSec(f, h, i)
  BY DEF KeyAt
<1>2. ASSUME NEW j \in DOMAIN f, KeyAt(f, j, s, k) PROVE i = j
  <2>1. PICK g \in DOMAIN f : f[g].name = s /\ InSec(f, g, j)
    BY <1>2 DEF KeyAt
  <2>2. g = h
    BY <1>1, <2>1 DEF Neat, OneHeader, InSec
  <2> QED
    BY <1>1, <1>2, <2>1, <2>2 DEF Neat, OneKey, KeyAt
<1>3. ASSUME NEW t, NEW l, KeyAt(f, i, t, l) PROVE t = s /\ l = k
  <2>1. PICK g \in DOMAIN f : f[g].name = t /\ InSec(f, g, i)
    BY <1>3 DEF KeyAt
  <2>2. g = h
    BY <1>0, <1>1, <2>1, OneSection
  <2> QED
    BY <1>1, <1>3, <2>1, <2>2 DEF KeyAt
<1> QED
  BY <1>2, <1>3

-----------------------------------------------------------------------------
(* Lines: the picked lines of a file. *)

Picks(f, S) == [i \in DOMAIN f |-> IF i \in S THEN <<f[i]>> ELSE <<>>]

Longer(f, x, S) ==
  /\ Len(f) + 1 \in S /\ f = <<>> => Lines(Append(f, x), S) = <<x>>
  /\ Len(f) + 1 \in S /\ f # <<>> =>
       Lines(Append(f, x), S) = Lines(f, S \ {Len(f) + 1}) \o <<x>>
  /\ Len(f) + 1 \notin S /\ f = <<>> => Lines(Append(f, x), S) = <<>>
  /\ Len(f) + 1 \notin S /\ f # <<>> => Lines(Append(f, x), S) = Lines(f, S) \o <<>>

\* Of a file with a line more, what is picked is what was and that line, if it is picked.
LEMMA LinesLonger == \A f \in Seq(Line), x \in Line : \A S : Longer(f, x, S)
<1> SUFFICES ASSUME NEW f \in Seq(Line), NEW x \in Line, NEW S PROVE Longer(f, x, S)
  OBVIOUS
<1> DEFINE n == Len(f)
           g == Append(f, x)
           T == S \ {n + 1}
           ss == Picks(f, T)
           ts == Picks(g, S)
<1>1. /\ n \in Nat /\ DOMAIN f = 1 .. n /\ DOMAIN g = 1 .. n + 1
      /\ \A i \in 1 .. n : g[i] = f[i] /\ i # n + 1
      /\ g[n + 1] = x /\ (n = 0 <=> f = <<>>)
  OBVIOUS
<1> HIDE DEF n, g
<1>2. Len(ss) = n /\ Len(ts) = n + 1
  BY <1>1 DEF Picks
<1>3. \A i \in 1 .. n : ts[i] = ss[i]
  BY <1>1 DEF Picks
<1>4. ts[n + 1] = IF n + 1 \in S THEN <<x>> ELSE <<>>
  BY <1>1 DEF Picks
<1>5. FlattenSeq(ss) = Lines(f, T) /\ FlattenSeq(ts) = Lines(g, S)
  BY DEF Picks, Lines
<1> HIDE DEF ss, ts
<1>6. FlattenSeq(ts) = IF n = 0 THEN ts[n + 1] ELSE FlattenSeq(ss) \o ts[n + 1]
  BY <1>1, <1>2, <1>3, FlattenLonger
<1>7. n + 1 \notin S => T = S
  OBVIOUS
<1> HIDE DEF T
<1>8. CASE n + 1 \in S
  BY <1>1, <1>4, <1>5, <1>6, <1>8 DEF n, g, T, Longer
<1>9. CASE n + 1 \notin S
  BY <1>1, <1>4, <1>5, <1>6, <1>7, <1>9 DEF n, g, Longer
<1> QED
  BY <1>8, <1>9

\* Of nothing, nothing is picked.
LEMMA LinesNone == \A S : Lines(<<>>, S) = <<>>
<1> TAKE S
<1>1. [i \in DOMAIN <<>> |-> IF i \in S THEN << <<>>[i] >> ELSE <<>>] = <<>>
  OBVIOUS
<1> QED
  BY <1>1, FlattenEmpty DEF Lines

\* What is picked are lines of the same kind.
LEMMA LinesType ==
  \A f \in Seq(Line) : \A S : Lines(f, S) \in Seq(Line)
<1> DEFINE L == {f \in Seq(Line) : \A S : Lines(f, S) \in Seq(Line)}
<1>1. <<>> \in L
  <2>1. <<>> \in Seq(Line)
    OBVIOUS
  <2>2. \A S : Lines(<<>>, S) \in Seq(Line)
    BY <2>1, LinesNone, Zenon
  <2> QED
    BY <2>1, <2>2
<1>2. ASSUME NEW f \in Seq(Line), NEW x \in Line, f \in L PROVE Append(f, x) \in L
  <2> SUFFICES ASSUME NEW S PROVE Lines(Append(f, x), S) \in Seq(Line)
    OBVIOUS
  <2>1. \A T : Lines(f, T) \in Seq(Line)
    BY <1>2
  <2>2. \/ Lines(Append(f, x), S) = <<x>>
        \/ Lines(Append(f, x), S) = Lines(f, S \ {Len(f) + 1}) \o <<x>>
        \/ Lines(Append(f, x), S) = <<>>
        \/ Lines(Append(f, x), S) = Lines(f, S) \o <<>>
    <3>1. Longer(f, x, S)
      BY LinesLonger
    <3> QED
      BY <3>1 DEF Longer
  <2>3. \A r \in Seq(Line) : r \o <<x>> \in Seq(Line) /\ r \o <<>> \in Seq(Line)
    OBVIOUS
  <2>4. <<x>> \in Seq(Line) /\ <<>> \in Seq(Line)
    OBVIOUS
  <2> QED
    BY <2>1, <2>2, <2>3, <2>4, Zenon
<1>3. Seq(Line) \subseteq L
  <2> HIDE DEF L
  <2> QED
    BY <1>1, <1>2, SeqInduction
<1> QED
  BY <1>3

Shorter(f, n, S) ==
  /\ SubSeq(f, 1, n) \in Seq(Line) /\ Len(SubSeq(f, 1, n)) = n
  /\ \A i \in 1 .. n : SubSeq(f, 1, n)[i] = f[i]
  /\ n + 1 \notin S => Lines(f, S) = Lines(SubSeq(f, 1, n), S)
  /\ n + 1 \in S => Lines(f, S) = Lines(SubSeq(f, 1, n), S \ {n + 1}) \o <<f[n + 1]>>

\* The same, with the end of a file.
LEMMA LinesFront ==
  \A f \in Seq(Line), n \in Nat : \A S : Len(f) = n + 1 => Shorter(f, n, S)
<1> SUFFICES ASSUME NEW f \in Seq(Line), NEW n \in Nat, NEW S, Len(f) = n + 1
             PROVE  Shorter(f, n, S)
  OBVIOUS
<1> DEFINE d == SubSeq(f, 1, n)
           x == f[n + 1]
<1>1. /\ d \in Seq(Line) /\ Len(d) = n /\ x \in Line /\ \A i \in 1 .. n : d[i] = f[i]
      /\ d = <<>> => n = 0
  OBVIOUS
<1>2. f = Append(d, x)
  OBVIOUS
<1> HIDE DEF d, x
<1>3. Longer(d, x, S)
  BY <1>1, LinesLonger
<1>4. \A T : Lines(d, T) \in Seq(Line) /\ (d = <<>> => Lines(d, T) = <<>>)
  BY <1>1, LinesType, LinesNone
<1>5. /\ \A r \in Seq(Line) : r \o <<>> = r
      /\ <<>> \o <<x>> = <<x>>
  BY <1>1
<1>6. n + 1 \notin S => Lines(f, S) = Lines(d, S)
  BY <1>1, <1>2, <1>3, <1>4, <1>5, Zenon DEF Longer
<1>7. n + 1 \in S => Lines(f, S) = Lines(d, S \ {n + 1}) \o <<x>>
  BY <1>1, <1>2, <1>3, <1>4, <1>5, Zenon DEF Longer
<1> QED
  BY <1>1, <1>6, <1>7 DEF d, x, Shorter

\* What is picked of f goes, in order and as it is, to what is picked of g.
Matched(f, S, g, T, e) ==
  /\ S \subseteq DOMAIN f /\ T \subseteq DOMAIN g
  /\ \A i \in S : e[i] \in T /\ g[e[i]] = f[i]
  /\ \A j \in T : \E i \in S : j = e[i]
  /\ \A i, j \in S : i < j => e[i] < e[j]

SameLines(f, S, g, T, e) == Matched(f, S, g, T, e) => Lines(f, S) = Lines(g, T)

\* Then the same lines are picked.
LEMMA LinesMatched ==
  \A f, g \in Seq(Line) : \A S, T, e : SameLines(f, S, g, T, e)
<1> DEFINE L == {n \in Nat : \A f, g \in Seq(Line) : \A S, T, e :
                   Len(f) + Len(g) <= n => SameLines(f, S, g, T, e)}
<1>1. 0 \in L
  <2> SUFFICES ASSUME NEW f \in Seq(Line), NEW g \in Seq(Line), NEW S, NEW T, Len(f) + Len(g) <= 0
               PROVE  Lines(f, S) = Lines(g, T)
    BY DEF SameLines
  <2>1. f = <<>> /\ g = <<>>
    OBVIOUS
  <2> QED
    BY <2>1, LinesNone
<1>2. ASSUME NEW n \in Nat, n \in L PROVE n + 1 \in L
  <2> SUFFICES ASSUME NEW f \in Seq(Line), NEW g \in Seq(Line), NEW S, NEW T, NEW e,
                      Len(f) + Len(g) <= n + 1, Matched(f, S, g, T, e)
               PROVE  Lines(f, S) = Lines(g, T)
    BY DEF SameLines
  <2>0. \A p, q \in Seq(Line) : \A U, V, h :
          Len(p) + Len(q) <= n => SameLines(p, U, q, V, h)
    BY <1>2
  <2>1. /\ Len(f) \in Nat /\ Len(g) \in Nat /\ DOMAIN f = 1 .. Len(f) /\ DOMAIN g = 1 .. Len(g)
        /\ S \subseteq 1 .. Len(f) /\ T \subseteq 1 .. Len(g)
    BY DEF Matched
  <2> HIDE DEF L
  <2>2. ASSUME NEW a \in Nat, Len(f) = a + 1, a + 1 \notin S PROVE Lines(f, S) = Lines(g, T)
    <3> DEFINE d == SubSeq(f, 1, a)
    <3>1. d \in Seq(Line) /\ Len(d) = a /\ (\A i \in 1 .. a : d[i] = f[i]) /\ Lines(f, S) = Lines(d, S)
      <4>1. Shorter(f, a, S)
        BY <2>2, LinesFront
      <4> QED
        BY <2>2, <4>1 DEF Shorter
    <3> HIDE DEF d
    <3>2. S \subseteq 1 .. a
      BY <2>1, <2>2
    <3>3. Matched(d, S, g, T, e)
      BY <3>1, <3>2 DEF Matched
    <3>4. Len(d) + Len(g) <= n
      BY <2>1, <2>2, <3>1
    <3> QED
      BY <2>0, <3>1, <3>3, <3>4 DEF SameLines
  <2>3. ASSUME NEW b \in Nat, Len(g) = b + 1, b + 1 \notin T PROVE Lines(f, S) = Lines(g, T)
    <3> DEFINE d == SubSeq(g, 1, b)
    <3>1. d \in Seq(Line) /\ Len(d) = b /\ (\A i \in 1 .. b : d[i] = g[i]) /\ Lines(g, T) = Lines(d, T)
      <4>1. Shorter(g, b, T)
        BY <2>3, LinesFront
      <4> QED
        BY <2>3, <4>1 DEF Shorter
    <3> HIDE DEF d
    <3>2. T \subseteq 1 .. b
      BY <2>1, <2>3
    <3>3. Matched(f, S, d, T, e)
      BY <3>1, <3>2 DEF Matched
    <3>4. Len(f) + Len(d) <= n
      BY <2>1, <2>3, <3>1
    <3> QED
      BY <2>0, <3>1, <3>3, <3>4 DEF SameLines
  <2>4. ASSUME NEW a \in Nat, Len(f) = a + 1, a + 1 \in S,
               NEW b \in Nat, Len(g) = b + 1, b + 1 \in T
        PROVE  Lines(f, S) = Lines(g, T)
    <3> DEFINE c == SubSeq(f, 1, a)
               d == SubSeq(g, 1, b)
               U == S \ {a + 1}
               V == T \ {b + 1}
    <3>1. /\ c \in Seq(Line) /\ Len(c) = a /\ (\A i \in 1 .. a : c[i] = f[i])
          /\ Lines(f, S) = Lines(c, U) \o <<f[a + 1]>>
      <4>1. Shorter(f, a, S)
        BY <2>4, LinesFront
      <4> QED
        BY <2>4, <4>1 DEF Shorter
    <3>2. /\ d \in Seq(Line) /\ Len(d) = b /\ (\A i \in 1 .. b : d[i] = g[i])
          /\ Lines(g, T) = Lines(d, V) \o <<g[b + 1]>>
      <4>1. Shorter(g, b, T)
        BY <2>4, LinesFront
      <4> QED
        BY <2>4, <4>1 DEF Shorter
    <3> HIDE DEF c, d
    <3>3. U \subseteq 1 .. a /\ V \subseteq 1 .. b
      BY <2>1, <2>4
    <3>4. \A i \in S : e[i] \in 1 .. b + 1 /\ e[i] \in T
      BY <2>1, <2>4 DEF Matched
    <3>5. e[a + 1] = b + 1
      <4>1. PICK i \in S : b + 1 = e[i]
        BY <2>4 DEF Matched
      <4>2. i # a + 1 => e[i] < e[a + 1]
        <5>1. i # a + 1 => i < a + 1
          BY <2>1, <2>4
        <5> QED
          BY <2>4, <5>1 DEF Matched
      <4> QED
        BY <2>4, <3>4, <4>1, <4>2
    <3>6. \A i \in U : e[i] \in V
      <4> TAKE i \in U
      <4>1. i < a + 1 /\ i \in S
        BY <3>3
      <4>2. e[i] < e[a + 1]
        BY <2>4, <4>1 DEF Matched
      <4> QED
        BY <3>4, <3>5, <4>1, <4>2
    <3>7. f[a + 1] = g[b + 1]
      BY <2>4, <3>5 DEF Matched
    <3>8. Matched(c, U, d, V, e)
      <4>1. \A i \in U : e[i] \in V /\ d[e[i]] = c[i]
        BY <3>1, <3>2, <3>3, <3>6 DEF Matched
      <4>2. \A j \in V : \E i \in U : j = e[i]
        BY <3>5 DEF Matched
      <4>3. \A i, j \in U : i < j => e[i] < e[j]
        BY DEF Matched
      <4>4. DOMAIN c = 1 .. a /\ DOMAIN d = 1 .. b
        BY <3>1, <3>2
      <4> HIDE DEF U, V
      <4> QED
        BY <3>3, <4>1, <4>2, <4>3, <4>4 DEF Matched
    <3>9. Len(c) + Len(d) <= n
      BY <2>1, <2>4, <3>1, <3>2
    <3>10. Lines(c, U) = Lines(d, V)
      <4>1. c \in Seq(Line) /\ d \in Seq(Line)
        BY <3>1, <3>2
      <4> HIDE DEF U, V
      <4>2. SameLines(c, U, d, V, e)
        BY <2>0, <3>9, <4>1
      <4> QED
        BY <3>8, <4>2 DEF SameLines
    <3> QED
      BY <3>1, <3>2, <3>7, <3>10, Zenon
  <2>5. CASE Len(f) = 0
    <3>1. S = {} /\ T = {}
      BY <2>1, <2>5 DEF Matched
    <3>2. CASE Len(g) = 0
      <4>1. f = <<>> /\ g = <<>>
        BY <2>5, <3>2
      <4> QED
        BY <4>1, LinesNone
    <3>3. CASE Len(g) # 0
      <4>1. Len(g) - 1 \in Nat /\ Len(g) = (Len(g) - 1) + 1
        BY <2>1, <3>3
      <4> QED
        BY <2>3, <3>1, <4>1
    <3> QED
      BY <3>2, <3>3
  <2>6. CASE Len(g) = 0 /\ Len(f) # 0
    <3>1. S = {}
      BY <2>1, <2>6 DEF Matched
    <3>2. Len(f) - 1 \in Nat /\ Len(f) = (Len(f) - 1) + 1
      BY <2>1, <2>6
    <3> QED
      BY <2>2, <3>1, <3>2
  <2>7. CASE Len(f) # 0 /\ Len(g) # 0
    <3>1. Len(f) - 1 \in Nat /\ Len(f) = (Len(f) - 1) + 1
      BY <2>1, <2>7
    <3>2. Len(g) - 1 \in Nat /\ Len(g) = (Len(g) - 1) + 1
      BY <2>1, <2>7
    <3> QED
      BY <2>2, <2>3, <2>4, <3>1, <3>2
  <2> QED
    BY <2>5, <2>6, <2>7
<1>3. Nat \subseteq L
  <2> HIDE DEF L
  <2> QED
    BY <1>1, <1>2, SetInduction
<1> SUFFICES ASSUME NEW f \in Seq(Line), NEW g \in Seq(Line), NEW S, NEW T, NEW e,
                    Matched(f, S, g, T, e)
             PROVE  Lines(f, S) = Lines(g, T)
  BY DEF SameLines
<1>4. Len(f) + Len(g) \in Nat /\ Len(f) + Len(g) <= Len(f) + Len(g)
  OBVIOUS
<1> QED
  BY <1>3, <1>4 DEF SameLines

\* The lines of f are in g, but for the value of a key; what is new in g is the key,
\* its section or a blank line.
Rewritten(f, g, e, s, k) ==
  /\ Moves(f, g, DOMAIN f, e)
  /\ \A i \in DOMAIN f : g[e[i]] = f[i] \/ KeyAt(f, i, s, k)
  /\ \A n \in DOMAIN g : \/ \E i \in DOMAIN f : n = e[i]
                         \/ KeyAt(g, n, s, k) \/ g[n].is = "blank"
                         \/ g[n].is = "header" /\ g[n].name = s

\* Which lines are no business of set.
LEMMA OthersAre ==
  ASSUME NEW f \in Seq(Line), NEW s \in Sections, NEW k \in ConfKeys
  PROVE  Others(f, s, k) =
           {i \in DOMAIN f : /\ f[i].is # "blank" /\ ~KeyAt(f, i, s, k)
                             /\ ~(f[i].is = "header" /\ f[i].name = s)}
<1>1. KeysOf(f, s, k) = {i \in DOMAIN f : KeyAt(f, i, s, k)}
  BY KeysAre
<1> QED
  BY <1>1 DEF Others, HeadersOf, Headers

\* All of them are kept.
LEMMA OthersKeptBy ==
  ASSUME NEW f, NEW g, NEW e, NEW s \in Sections, NEW k \in ConfKeys, Rewritten(f, g, e, s, k)
  PROVE  Lines(f, Others(f, s, k)) = Lines(g, Others(g, s, k))
<1> DEFINE S == Others(f, s, k)
           T == Others(g, s, k)
<1>0. Moves(f, g, DOMAIN f, e) /\ f \in Seq(Line) /\ g \in Seq(Line)
  BY DEF Rewritten, Moves
<1>1. \A i \in DOMAIN f : i \in S <=> /\ f[i].is # "blank" /\ ~KeyAt(f, i, s, k)
                                      /\ ~(f[i].is = "header" /\ f[i].name = s)
  BY <1>0, OthersAre
<1>2. \A i \in DOMAIN g : i \in T <=> /\ g[i].is # "blank" /\ ~KeyAt(g, i, s, k)
                                      /\ ~(g[i].is = "header" /\ g[i].name = s)
  BY <1>0, OthersAre
<1>3. S \subseteq DOMAIN f /\ T \subseteq DOMAIN g
  BY DEF Others
<1> HIDE DEF S, T
<1>4. \A i \in DOMAIN f : /\ e[i] \in DOMAIN g /\ g[e[i]].is = f[i].is /\ g[e[i]].name = f[i].name
                          /\ KeyAt(g, e[i], s, k) <=> KeyAt(f, i, s, k)
  BY <1>0, CarryKey DEF Moves
<1>5. \A i \in DOMAIN f : e[i] \in T <=> i \in S
  BY <1>1, <1>2, <1>4
<1>6. \A i \in S : e[i] \in T /\ g[e[i]] = f[i]
  <2>1. \A i \in S : ~KeyAt(f, i, s, k) /\ i \in DOMAIN f
    BY <1>1, <1>3
  <2> QED
    BY <1>5, <2>1 DEF Rewritten
<1>7. \A j \in T : \E i \in S : j = e[i]
  <2>1. \A j \in T : \E i \in DOMAIN f : j = e[i]
    BY <1>2, <1>3 DEF Rewritten
  <2> QED
    BY <1>5, <2>1
<1>8. \A i, j \in S : i < j => e[i] < e[j]
  BY <1>0, <1>3 DEF Moves
<1>9. Matched(f, S, g, T, e)
  BY <1>3, <1>6, <1>7, <1>8 DEF Matched
<1>10. SameLines(f, S, g, T, e)
  BY <1>0, LinesMatched
<1> QED
  BY <1>9, <1>10 DEF SameLines, S, T

\* And when no blank line is new, set has kept what it has to.
LEMMA KeptBy ==
  ASSUME NEW f, NEW g, NEW e, NEW s \in Sections, NEW k \in ConfKeys, Rewritten(f, g, e, s, k),
         \A n \in DOMAIN g : (\E i \in DOMAIN f : n = e[i]) \/ g[n].is # "blank"
  PROVE  Kept(f, g, s, k)
<1> DEFINE S == Blanks(f)
           T == Blanks(g)
<1>0. Moves(f, g, DOMAIN f, e) /\ f \in Seq(Line) /\ g \in Seq(Line)
  BY DEF Rewritten, Moves
<1>1. /\ S \subseteq DOMAIN f /\ \A i \in DOMAIN f : i \in S <=> f[i].is = "blank"
      /\ T \subseteq DOMAIN g /\ \A i \in DOMAIN g : i \in T <=> g[i].is = "blank"
  BY DEF Blanks
<1> HIDE DEF S, T
<1>2. \A i \in DOMAIN f : e[i] \in DOMAIN g /\ g[e[i]].is = f[i].is
  BY <1>0 DEF Moves
<1>3. \A i \in S : e[i] \in T /\ g[e[i]] = f[i]
  BY <1>1, <1>2 DEF Rewritten, KeyAt
<1>4. \A j \in T : \E i \in S : j = e[i]
  BY <1>1, <1>2
<1>5. \A i, j \in S : i < j => e[i] < e[j]
  BY <1>0, <1>1 DEF Moves
<1>6. Matched(f, S, g, T, e)
  BY <1>1, <1>3, <1>4, <1>5 DEF Matched
<1>7. SameLines(f, S, g, T, e)
  BY <1>0, LinesMatched
<1>8. Lines(f, S) = Lines(g, T)
  BY <1>6, <1>7 DEF SameLines
<1>9. Len(Lines(f, S)) \in Nat
  BY <1>0, LinesType
<1>10. Len(Lines(g, T)) - Len(Lines(f, S)) = 0
  BY <1>8, <1>9
<1>11. Lines(f, Others(f, s, k)) = Lines(g, Others(g, s, k))
  BY OthersKeptBy
<1> QED
  BY <1>10, <1>11 DEF Kept, S, T

-----------------------------------------------------------------------------
(* The edits. *)

\* What set leaves of a neat file: one more section and key, or another value.
SetDone(f, g, s, k, v) ==
  /\ Neat(g)
  /\ \A t \in Sections : HasSec(g, t) <=> t = s \/ HasSec(f, t)
  /\ \A t \in Sections, l \in ConfKeys : \A w :
       Holds(g, t, l, w) <=> IF t = s /\ l = k THEN w = v ELSE Holds(f, t, l, w)

\* The lines config writes.
LEMMA NewLines ==
  ASSUME NEW s \in Sections, NEW k \in ConfKeys, NEW v \in Values
  PROVE  /\ Header(s) \in Line /\ KeyLine(k, v) \in Line
         /\ \A c \in {"comment", "blank"} : TextLine(c) \in Line
BY DEF Header, KeyLine, TextLine, Line

\* A file without a line that lacks its newline is written as it is.
LEMMA WrittenIs ==
  ASSUME NEW f \in Seq(Line), NEW g \in Seq(Line), \A i \in DOMAIN f : f[i].nl
  PROVE  Written(f, g) = f \o g
<1>1. CASE f = <<>> \/ g = <<>>
  BY <1>1 DEF Written
<1>2. CASE f # <<>>
  <2>1. Len(f) \in DOMAIN f
    BY <1>2
  <2> QED
    BY <2>1 DEF Written, Last
<1> QED
  BY <1>1, <1>2

\* Set gives a key that is there another value.
LEMMA ReplaceDone ==
  ASSUME NEW f, Neat(f), NEW s \in Sections, NEW k \in ConfKeys, NEW v \in Values,
         NEW m \in KeysOf(f, s, k)
  PROVE  /\ SetDone(f, [f EXCEPT ![m] = KeyLine(k, v)], s, k, v)
         /\ Kept(f, [f EXCEPT ![m] = KeyLine(k, v)], s, k)
<1> DEFINE g == [f EXCEPT ![m] = KeyLine(k, v)]
           D == DOMAIN f
           e == [i \in D |-> i]
<1>0. f \in Seq(Line) /\ Len(f) \in Nat /\ DOMAIN f = 1 .. Len(f)
  BY DEF Neat
<1>1. m \in DOMAIN f /\ KeyAt(f, m, s, k)
  BY <1>0, KeysAre
<1>2. g \in Seq(Line) /\ DOMAIN g = DOMAIN f
  BY <1>0, <1>1, NewLines
<1>3. /\ \A i \in DOMAIN f : i # m => g[i] = f[i]
      /\ g[m] = KeyLine(k, v)
  BY <1>0, <1>1
<1>4. \A i \in DOMAIN f : e[i] = i /\ g[i].is = f[i].is /\ g[i].name = f[i].name
  BY <1>1, <1>3 DEF KeyLine, KeyAt
<1>5. D \subseteq DOMAIN f /\ e \in [D -> DOMAIN g]
  BY <1>2
<1> HIDE DEF g, e
<1>6. Moves(f, g, D, e)
  BY <1>0, <1>2, <1>4, <1>5 DEF Moves
<1>7. \A i \in DOMAIN g : g[i].nl
  BY <1>2, <1>3 DEF Neat, KeyLine
<1>8. Neat(g)
  <2>1. \A n \in DOMAIN g : \E i \in D : n = e[i]
    BY <1>2, <1>4
  <2> HIDE DEF D
  <2> QED
    BY <1>6, <1>7, <2>1, NeatMoved
<1>9. ASSUME NEW t \in Sections PROVE HasSec(g, t) <=> t = s \/ HasSec(f, t)
  <2>1. HasSec(f, s)
    BY <1>1 DEF KeyAt, HasSec, InSec
  <2>2. HasSec(g, t) <=> HasSec(f, t)
    BY <1>2, <1>4 DEF HasSec
  <2> QED
    BY <2>1, <2>2
<1>10. ASSUME NEW t \in Sections, NEW l \in ConfKeys, NEW w
       PROVE  Holds(g, t, l, w) <=> IF t = s /\ l = k THEN w = v ELSE Holds(f, t, l, w)
  <2>1. \A i \in DOMAIN f : KeyAt(g, i, t, l) <=> KeyAt(f, i, t, l)
    BY <1>4, <1>6, CarryKey
  <2>2. \A i \in DOMAIN f : KeyAt(f, i, s, k) => i = m
    BY <1>0, <1>1, NeatKey
  <2>3. g[m].val = v
    BY <1>3 DEF KeyLine
  <2>4. CASE t = s /\ l = k
    BY <1>1, <1>2, <2>1, <2>2, <2>3, <2>4 DEF Holds
  <2>5. CASE ~(t = s /\ l = k)
    <3>1. ~KeyAt(f, m, t, l)
      BY <1>1, <2>5, NeatKey
    <3> QED
      BY <1>2, <1>3, <2>1, <2>5, <3>1 DEF Holds
  <2> QED
    BY <2>4, <2>5
<1>11. Kept(f, g, s, k)
  <2>1. \A n \in DOMAIN g : \E i \in DOMAIN f : n = e[i]
    BY <1>2, <1>4
  <2>2. Rewritten(f, g, e, s, k)
    BY <1>1, <1>3, <1>4, <1>6, <2>1 DEF Rewritten
  <2> QED
    BY <2>1, <2>2, KeptBy
<1> QED
  BY <1>8, <1>9, <1>10, <1>11 DEF SetDone, g

\* Where a section ends: at the next header, or behind the last line.
LEMMA EndIs ==
  ASSUME NEW f \in Seq(Line), NEW h \in Headers(f)
  PROVE  /\ EndOf(f, h) \in h + 1 .. Len(f) + 1
         /\ \A j \in DOMAIN f : h < j /\ j < EndOf(f, h) => f[j].is # "header"
         /\ EndOf(f, h) <= Len(f) => f[EndOf(f, h)].is = "header"
<1> DEFINE S == {j \in Headers(f) : j > h} \union {Len(f) + 1}
           n == Len(f) + 1
           m == Min(S)
<1>0. Len(f) \in Nat /\ DOMAIN f = 1 .. Len(f) /\ h \in DOMAIN f
  BY DEF Headers
<1>1. S \subseteq 0 .. n /\ S # {} /\ n \in Nat
  BY <1>0 DEF Headers
<1>2. m \in S /\ \A y \in S : m <= y
  <2> HIDE DEF S, n
  <2> QED
    BY <1>1, MaxMin
<1>3. EndOf(f, h) = m
  BY DEF EndOf
<1> HIDE DEF m
<1>4. m \in h + 1 .. Len(f) + 1 /\ (m <= Len(f) => f[m].is = "header")
  BY <1>0, <1>2 DEF Headers
<1>5. \A j \in DOMAIN f : h < j /\ f[j].is = "header" => m <= j
  BY <1>2 DEF Headers
<1> QED
  BY <1>0, <1>3, <1>4, <1>5

Inserted(f, n, x) == SubSeq(f, 1, n) \o <<x>> \o SubSeq(f, n + 1, Len(f))

\* The lines of a file with one more behind line n.
LEMMA InsertedLines ==
  ASSUME NEW f \in Seq(Line), NEW n \in 0 .. Len(f), NEW x \in Line
  PROVE  /\ Inserted(f, n, x) \in Seq(Line)
         /\ Len(Inserted(f, n, x)) = Len(f) + 1
         /\ \A i \in 1 .. n : Inserted(f, n, x)[i] = f[i]
         /\ Inserted(f, n, x)[n + 1] = x
         /\ \A i \in n + 1 .. Len(f) : Inserted(f, n, x)[i + 1] = f[i]
<1> DEFINE a == SubSeq(f, 1, n)
           b == <<x>>
           c == SubSeq(f, n + 1, Len(f))
<1>1. /\ a \in Seq(Line) /\ Len(a) = n /\ \A i \in 1 .. n : a[i] = f[i]
      /\ b \in Seq(Line) /\ Len(b) = 1 /\ b[1] = x
      /\ c \in Seq(Line) /\ Len(c) = Len(f) - n /\ \A i \in 1 .. Len(f) - n : c[i] = f[n + i]
  OBVIOUS
<1> HIDE DEF a, b, c
<1> DEFINE d == a \o b
<1>2. d \in Seq(Line) /\ Len(d) = n + 1 /\ d[n + 1] = x /\ \A i \in 1 .. n : d[i] = f[i]
  <2>1. /\ d \in Seq(Line) /\ Len(d) = Len(a) + Len(b)
        /\ \A i \in 1 .. Len(a) + Len(b) : d[i] = IF i <= Len(a) THEN a[i] ELSE b[i - Len(a)]
    BY <1>1, ConcatProperties, ZenonT(30)
  <2> HIDE DEF d
  <2>2. n + 1 \in 1 .. n + 1 /\ (n + 1) - n = 1 /\ \A i \in 1 .. n : i \in 1 .. n + 1 /\ i <= n
    OBVIOUS
  <2> QED
    BY <1>1, <2>1, <2>2
<1> HIDE DEF d
<1> DEFINE r == d \o c
<1>3. /\ r \in Seq(Line) /\ Len(r) = Len(f) + 1
      /\ \A i \in 1 .. n + 1 : r[i] = d[i]
      /\ \A i \in n + 2 .. Len(f) + 1 : r[i] = c[i - (n + 1)]
  <2>1. /\ r \in Seq(Line) /\ Len(r) = Len(d) + Len(c)
        /\ \A i \in 1 .. Len(d) + Len(c) : r[i] = IF i <= Len(d) THEN d[i] ELSE c[i - Len(d)]
    <3>1. d \in Seq(Line) /\ c \in Seq(Line)
      BY <1>1, <1>2
    <3> QED
      BY <3>1, ConcatProperties, Zenon
  <2> HIDE DEF r
  <2>2. Len(d) = n + 1 /\ Len(c) = Len(f) - n /\ Len(d) + Len(c) = Len(f) + 1
    BY <1>1, <1>2
  <2>3. \A i \in 1 .. Len(f) + 1 : r[i] = IF i <= n + 1 THEN d[i] ELSE c[i - (n + 1)]
    BY <2>1, <2>2
  <2>4. \A i \in 1 .. n + 1 : i \in 1 .. Len(f) + 1 /\ i <= n + 1
    OBVIOUS
  <2>5. \A i \in n + 2 .. Len(f) + 1 : i \in 1 .. Len(f) + 1 /\ ~(i <= n + 1)
    OBVIOUS
  <2> QED
    BY <2>1, <2>2, <2>3, <2>4, <2>5
<1>4. Inserted(f, n, x) = r
  BY DEF Inserted, a, b, c, d
<1> HIDE DEF r
<1>5. \A i \in n + 1 .. Len(f) : r[i + 1] = f[i]
  <2> TAKE i \in n + 1 .. Len(f)
  <2>1. i + 1 \in n + 2 .. Len(f) + 1 /\ (i + 1) - (n + 1) = i - n /\ i - n \in 1 .. Len(f) - n
    OBVIOUS
  <2>2. r[i + 1] = c[i - n] /\ c[i - n] = f[n + (i - n)]
    BY <1>1, <1>3, <2>1
  <2> QED
    BY <2>2
<1> QED
  BY <1>2, <1>3, <1>4, <1>5

\* Where set puts a key that its section does not have: under the header.
LEMMA AddedAt ==
  ASSUME NEW f, Neat(f), NEW s \in Sections, NEW k \in ConfKeys, NEW v \in Values,
         HeadersOf(f, s) # {}
  PROVE  \E h \in DOMAIN f, n \in 0 .. Len(f) :
           /\ f[h].is = "header" /\ f[h].name = s /\ h <= n
           /\ \A j \in DOMAIN f : h < j /\ j <= n => f[j].is # "header"
           /\ Added(f, s, k, v) = Inserted(f, n, KeyLine(k, v))
<1> DEFINE H == HeadersOf(f, s)
           h == Max(H)
           end == EndOf(f, h)
           text == {i \in h + 1 .. end - 1 : f[i].is # "blank"}
           n == IF text = {} THEN end - 1 ELSE Max(text)
<1>0. f \in Seq(Line) /\ Len(f) \in Nat /\ DOMAIN f = 1 .. Len(f) /\ \A i \in DOMAIN f : f[i].nl
  BY DEF Neat
<1>1. h \in H
  <2>1. H \subseteq 0 .. Len(f) /\ H # {}
    BY <1>0 DEF HeadersOf, Headers
  <2> HIDE DEF H
  <2> QED
    BY <1>0, <2>1, MaxMin
<1>2. h \in Headers(f) /\ h \in DOMAIN f /\ f[h].is = "header" /\ f[h].name = s
  BY <1>1 DEF HeadersOf, Headers
<1>3. Added(f, s, k, v) =
        Written(Written(SubSeq(f, 1, n), <<KeyLine(k, v)>>), SubSeq(f, n + 1, Len(f)))
  BY DEF Added
<1> HIDE DEF h
<1>4. /\ end \in h + 1 .. Len(f) + 1
      /\ \A j \in DOMAIN f : h < j /\ j < end => f[j].is # "header"
  BY <1>0, <1>2, EndIs
<1> HIDE DEF end
<1>5. n \in h .. end - 1
  <2>1. CASE text = {}
    BY <1>0, <1>2, <1>4, <2>1
  <2>2. CASE text # {}
    <3>1. text \subseteq 0 .. Len(f) /\ text \subseteq h + 1 .. end - 1
      BY <1>0, <1>2, <1>4
    <3> HIDE DEF text
    <3>2. Max(text) \in text
      BY <1>0, <2>2, <3>1, MaxMin
    <3>3. h \in Int /\ end \in Int
      BY <1>0, <1>2, <1>4
    <3>4. Max(text) \in h + 1 .. end - 1
      BY <3>1, <3>2
    <3>5. \A x \in h + 1 .. end - 1 : x \in h .. end - 1
      BY <3>3
    <3> QED
      BY <2>2, <3>4, <3>5
  <2> QED
    BY <2>1, <2>2
<1> HIDE DEF n
<1>6. n \in 0 .. Len(f) /\ h <= n /\ n < end
  BY <1>0, <1>2, <1>4, <1>5
<1>7. Added(f, s, k, v) = Inserted(f, n, KeyLine(k, v))
  <2> DEFINE a == SubSeq(f, 1, n)
             b == <<KeyLine(k, v)>>
             c == SubSeq(f, n + 1, Len(f))
  <2>1. /\ a \in Seq(Line) /\ Len(a) = n /\ \A i \in 1 .. n : a[i] = f[i]
        /\ c \in Seq(Line)
    BY <1>0, <1>6
  <2>2. b \in Seq(Line) /\ Len(b) = 1 /\ b[1].nl
    BY NewLines DEF KeyLine
  <2> HIDE DEF a, b, c
  <2>3. \A i \in DOMAIN a : a[i].nl
    BY <1>0, <1>6, <2>1
  <2>4. Written(a, b) = a \o b
    BY <2>1, <2>2, <2>3, WrittenIs
  <2>5. a \o b \in Seq(Line) /\ \A i \in DOMAIN (a \o b) : (a \o b)[i].nl
    BY <2>1, <2>2, <2>3, ConcatProperties
  <2>6. Written(a \o b, c) = (a \o b) \o c
    BY <2>1, <2>5, WrittenIs
  <2> QED
    BY <1>3, <2>4, <2>6 DEF Inserted, a, b, c
<1>8. \A j \in DOMAIN f : h < j /\ j <= n => f[j].is # "header"
  BY <1>0, <1>2, <1>4, <1>6
<1> QED
  BY <1>2, <1>6, <1>7, <1>8

\* Set adds a key to a section that is there.
LEMMA InsertDone ==
  ASSUME NEW f, Neat(f), NEW s \in Sections, NEW k \in ConfKeys, NEW v \in Values,
         KeysOf(f, s, k) = {}, NEW h \in DOMAIN f, NEW n \in 0 .. Len(f),
         f[h].is = "header", f[h].name = s, h <= n,
         \A j \in DOMAIN f : h < j /\ j <= n => f[j].is # "header"
  PROVE  /\ SetDone(f, Inserted(f, n, KeyLine(k, v)), s, k, v)
         /\ Kept(f, Inserted(f, n, KeyLine(k, v)), s, k)
<1> DEFINE g == Inserted(f, n, KeyLine(k, v))
           D == DOMAIN f
           e == [i \in D |-> IF i <= n THEN i ELSE i + 1]
<1>0. f \in Seq(Line) /\ Len(f) \in Nat /\ DOMAIN f = 1 .. Len(f) /\ n \in Nat /\ n <= Len(f)
  BY DEF Neat
<1>1. \A i \in DOMAIN f : ~KeyAt(f, i, s, k)
  BY <1>0, KeysAre
<1>2. /\ g \in Seq(Line) /\ Len(g) = Len(f) + 1 /\ g[n + 1] = KeyLine(k, v)
      /\ \A i \in 1 .. n : g[i] = f[i]
      /\ \A i \in n + 1 .. Len(f) : g[i + 1] = f[i]
  <2> DEFINE x == KeyLine(k, v)
             r == Inserted(f, n, x)
  <2>1. x \in Line /\ f \in Seq(Line)
    BY <1>0, NewLines
  <2> HIDE DEF x
  <2>2. /\ r \in Seq(Line) /\ Len(r) = Len(f) + 1 /\ r[n + 1] = x
        /\ \A i \in 1 .. n : r[i] = f[i]
        /\ \A i \in n + 1 .. Len(f) : r[i + 1] = f[i]
    BY <2>1, InsertedLines
  <2> HIDE DEF r
  <2> QED
    BY <2>2 DEF x, r
<1> HIDE DEF g
<1>3. DOMAIN g = 1 .. Len(f) + 1 /\ n + 1 \in DOMAIN g
  BY <1>0, <1>2
<1>4. \A i \in D : e[i] = (IF i <= n THEN i ELSE i + 1) /\ g[e[i]] = f[i] /\ e[i] # n + 1
  BY <1>0, <1>2
<1>5. D \subseteq DOMAIN f /\ e \in [D -> DOMAIN g] /\ \A i, j \in D : i < j => e[i] < e[j]
  BY <1>0, <1>3
<1>6. \A j \in DOMAIN g : j = n + 1 \/ \E i \in D : j = e[i]
  <2> SUFFICES ASSUME NEW j \in DOMAIN g, j # n + 1 PROVE \E i \in D : j = e[i]
    OBVIOUS
  <2>1. CASE j <= n
    BY <1>0, <1>3, <2>1
  <2>2. CASE j > n
    <3>1. j - 1 \in D /\ j - 1 > n
      BY <1>0, <1>3, <2>2
    <3>2. e[j - 1] = j
      BY <1>0, <1>4, <3>1
    <3> QED
      BY <3>1, <3>2
  <2> QED
    BY <1>0, <1>3, <2>1, <2>2
<1> HIDE DEF e
<1>7. Moves(f, g, D, e)
  <2>1. ASSUME NEW j \in DOMAIN g, g[j].is = "header" PROVE \E i \in D : j = e[i]
    BY <1>2, <1>6, <2>1 DEF KeyLine
  <2> QED
    BY <1>0, <1>2, <1>4, <1>5, <2>1 DEF Moves
<1>8. InSec(g, h, n + 1)
  <2>1. h \in DOMAIN g /\ g[h].is = "header" /\ h <= n + 1
    BY <1>0, <1>2, <1>3
  <2>2. \A j \in DOMAIN g : h < j /\ j <= n + 1 => g[j].is # "header"
    BY <1>0, <1>2, <1>3 DEF KeyLine
  <2> QED
    BY <2>1, <2>2 DEF InSec
<1>9. g[h] = f[h] /\ h \in DOMAIN g
  BY <1>0, <1>2, <1>3
<1>10. KeyAt(g, n + 1, s, k)
  BY <1>2, <1>8, <1>9 DEF KeyAt, KeyLine
<1>11. \A i \in D : \A t, l : KeyAt(g, e[i], t, l) <=> KeyAt(f, i, t, l)
  BY <1>7, CarryKey
<1>12. Neat(g)
  <2>1. NewFits(g, n + 1)
    <3>1. ASSUME NEW j \in DOMAIN g, NEW a \in DOMAIN g, g[j].is = "key",
                 g[j].name = g[n + 1].name, InSec(g, a, j), InSec(g, a, n + 1), j # n + 1
          PROVE  FALSE
      <4>1. a = h
        BY <1>2, <1>3, <1>8, <1>9, <3>1, OneSection
      <4>2. KeyAt(g, j, s, k)
        BY <1>2, <1>9, <3>1, <4>1 DEF KeyAt, KeyLine
      <4>3. PICK i \in D : j = e[i]
        BY <1>6, <3>1
      <4> QED
        BY <1>1, <1>11, <4>2, <4>3
    <3> QED
      BY <1>2, <1>8, <1>9, <3>1 DEF NewFits, KeyLine
  <2>2. \A j \in DOMAIN g : (\E i \in D : j = e[i]) \/ NewFits(g, j)
    BY <1>6, <2>1
  <2>3. \A j \in DOMAIN g : g[j].nl
    <3>1. g[n + 1].nl
      BY <1>2 DEF KeyLine
    <3>2. \A i \in D : g[e[i]].nl
      BY <1>4 DEF Neat
    <3> QED
      BY <1>6, <3>1, <3>2
  <2> HIDE DEF D
  <2> QED
    BY <1>7, <2>2, <2>3, NeatMoved
<1>13. ASSUME NEW t \in Sections PROVE HasSec(g, t) <=> t = s \/ HasSec(f, t)
  <2>1. g[n + 1].is # "header"
    BY <1>2 DEF KeyLine
  <2>2. \A i \in D : e[i] \in DOMAIN g /\ g[e[i]] = f[i]
    BY <1>4, <1>5
  <2>3. HasSec(g, t) <=> HasSec(f, t)
    BY <1>6, <2>1, <2>2 DEF HasSec
  <2> QED
    BY <2>3 DEF HasSec
<1>14. ASSUME NEW t \in Sections, NEW l \in ConfKeys, NEW w
       PROVE  Holds(g, t, l, w) <=> IF t = s /\ l = k THEN w = v ELSE Holds(f, t, l, w)
  <2>1. \A i \in D : e[i] \in DOMAIN g /\ g[e[i]].val = f[i].val
    BY <1>4, <1>5
  <2>2. g[n + 1].val = v
    BY <1>2 DEF KeyLine
  <2>3. CASE t = s /\ l = k
    BY <1>1, <1>3, <1>6, <1>10, <1>11, <2>2, <2>3 DEF Holds
  <2>4. CASE ~(t = s /\ l = k)
    <3>1. ~KeyAt(g, n + 1, t, l)
      <4>1. \A i \in DOMAIN g : KeyAt(g, i, s, k) /\ KeyAt(g, i, t, l) => t = s /\ l = k
        BY <1>12, NeatKey
      <4> QED
        BY <1>3, <1>10, <2>4, <4>1
    <3> QED
      BY <1>6, <1>11, <2>1, <2>4, <3>1 DEF Holds
  <2> QED
    BY <2>3, <2>4
<1>15. Kept(f, g, s, k)
  <2>1. \A j \in DOMAIN g : (\E i \in DOMAIN f : j = e[i]) \/ KeyAt(g, j, s, k)
    BY <1>6, <1>10
  <2>2. Rewritten(f, g, e, s, k)
    BY <1>4, <1>7, <2>1 DEF Rewritten
  <2>3. \A j \in DOMAIN g : KeyAt(g, j, s, k) => g[j].is # "blank"
    BY DEF KeyAt
  <2> QED
    BY <2>1, <2>2, <2>3, KeptBy
<1> QED
  BY <1>12, <1>13, <1>14, <1>15 DEF SetDone, g

\* A section with one key behind everything else, and nothing else but blank lines.
LEMMA AppendDone ==
  ASSUME NEW f, Neat(f), NEW s \in Sections, NEW k \in ConfKeys, NEW v \in Values, ~HasSec(f, s),
         NEW g \in Seq(Line), NEW p \in Nat, Len(f) < p, p + 1 \in DOMAIN g,
         \A i \in DOMAIN f : g[i] = f[i],
         g[p] = Header(s), g[p + 1] = KeyLine(k, v),
         \A j \in DOMAIN g : Len(f) < j /\ j # p /\ j # p + 1 => g[j].is = "blank" /\ g[j].nl
  PROVE  /\ SetDone(f, g, s, k, v)
         /\ Lines(f, Others(f, s, k)) = Lines(g, Others(g, s, k))
<1> DEFINE D == DOMAIN f
           e == [i \in D |-> i]
           q == p + 1
<1>0. /\ f \in Seq(Line) /\ Len(f) \in Nat /\ DOMAIN f = 1 .. Len(f)
      /\ Len(g) \in Nat /\ DOMAIN g = 1 .. Len(g)
  BY DEF Neat
<1>1. /\ p \in DOMAIN g /\ q \in DOMAIN g /\ q \in Nat /\ p < q /\ \A j \in Nat : p < j /\ j <= q => j = q
      /\ D \subseteq DOMAIN g
  BY <1>0
<1>2. \A i \in D : e[i] = i /\ g[e[i]] = f[i] /\ i < p
  BY <1>0
<1>3. D \subseteq DOMAIN f /\ e \in [D -> DOMAIN g] /\ \A i, j \in D : i < j => e[i] < e[j]
  BY <1>0, <1>1
<1>4. /\ g[p] = Header(s) /\ g[q] = KeyLine(k, v)
      /\ \A j \in DOMAIN g : j \notin D /\ j # p /\ j # q => g[j].is = "blank" /\ g[j].nl
  BY <1>0
<1>5. /\ g[p].is = "header" /\ g[p].name = s /\ g[p].nl
      /\ g[q].is = "key" /\ g[q].name = k /\ g[q].val = v /\ g[q].nl
  BY <1>4 DEF Header, KeyLine
<1> HIDE DEF q, e, D
<1>6. Moves(f, g, D, e)
  <2>1. ASSUME NEW n \in DOMAIN g, g[n].is = "header"
        PROVE  (\E i \in D : n = e[i]) \/ \A i \in D : e[i] < n
    <3>1. n \in D \/ n = p
      BY <1>4, <1>5, <2>1
    <3> QED
      BY <1>2, <3>1
  <2>2. \A h \in DOMAIN f \ D : FALSE
    BY DEF D
  <2> QED
    BY <1>0, <1>2, <1>3, <2>1, <2>2 DEF Moves
<1>7. InSec(g, p, q)
  BY <1>0, <1>1, <1>5 DEF InSec
<1>8. KeyAt(g, q, s, k)
  BY <1>1, <1>5, <1>7 DEF KeyAt
<1>9. \A j \in DOMAIN g : \/ \E i \in D : j = e[i]
                          \/ j = p \/ j = q \/ (g[j].is = "blank" /\ g[j].nl)
  BY <1>2, <1>4
<1>10. ~HasSec(g, s) \/ \A j \in DOMAIN g : g[j].is = "header" /\ g[j].name = s => j = p
  <2>1. ASSUME NEW j \in DOMAIN g, g[j].is = "header", g[j].name = s, j # p PROVE FALSE
    <3>1. PICK i \in D : j = e[i]
      BY <1>5, <1>9, <2>1
    <3>2. f[i].is = "header" /\ f[i].name = s /\ i \in DOMAIN f
      BY <1>2, <1>3, <2>1, <3>1
    <3> QED
      BY <3>2 DEF HasSec
  <2> QED
    BY <2>1
<1>11. Neat(g)
  <2>1. NewFits(g, p)
    BY <1>1, <1>5, <1>10 DEF NewFits, HasSec
  <2>2. NewFits(g, q)
    <3>1. ASSUME NEW j \in DOMAIN g, NEW a \in DOMAIN g, g[j].is = "key", InSec(g, a, j),
                 InSec(g, a, q), j # q
          PROVE  FALSE
      <4>1. a = p
        BY <1>1, <1>7, <3>1, OneSection
      <4>2. PICK i \in D : j = e[i]
        BY <1>5, <1>9, <3>1
      <4>3. j < p /\ p <= j
        BY <1>2, <3>1, <4>1, <4>2 DEF InSec
      <4> QED
        BY <1>0, <4>3
    <3> QED
      BY <1>1, <1>5, <1>7, <3>1 DEF NewFits
  <2>3. \A j \in DOMAIN g : (\E i \in D : j = e[i]) \/ NewFits(g, j)
    <3>1. \A j \in DOMAIN g : g[j].is = "blank" => NewFits(g, j)
      BY DEF NewFits
    <3> QED
      BY <1>9, <2>1, <2>2, <3>1
  <2>4. \A j \in DOMAIN g : g[j].nl
    <3>1. \A i \in D : g[e[i]].nl
      BY <1>2, <1>3 DEF Neat
    <3> QED
      BY <1>5, <1>9, <3>1
  <2> QED
    BY <1>6, <2>3, <2>4, NeatMoved
<1>12. ASSUME NEW t \in Sections PROVE HasSec(g, t) <=> t = s \/ HasSec(f, t)
  <2>1. ASSUME HasSec(f, t) PROVE HasSec(g, t)
    <3>1. PICK i \in D : f[i].is = "header" /\ f[i].name = t
      BY <2>1 DEF HasSec, D
    <3>2. g[e[i]].is = "header" /\ g[e[i]].name = t /\ e[i] \in DOMAIN g
      BY <1>2, <1>3, <3>1
    <3> QED
      BY <3>2 DEF HasSec
  <2>2. ASSUME HasSec(g, t), t # s PROVE HasSec(f, t)
    <3>1. PICK j \in DOMAIN g : g[j].is = "header" /\ g[j].name = t
      BY <2>2 DEF HasSec
    <3>2. PICK i \in D : j = e[i]
      BY <1>5, <1>9, <2>2, <3>1
    <3>3. f[i].is = "header" /\ f[i].name = t /\ i \in DOMAIN f
      BY <1>2, <1>3, <3>1, <3>2
    <3> QED
      BY <3>3 DEF HasSec
  <2>3. HasSec(g, s)
    BY <1>1, <1>5 DEF HasSec
  <2> QED
    BY <2>1, <2>2, <2>3
<1>13. ASSUME NEW t \in Sections, NEW l \in ConfKeys, NEW w
       PROVE  Holds(g, t, l, w) <=> IF t = s /\ l = k THEN w = v ELSE Holds(f, t, l, w)
  <2>0. \A i \in D : /\ KeyAt(g, e[i], t, l) <=> KeyAt(f, i, t, l)
                     /\ e[i] \in DOMAIN g /\ g[e[i]].val = f[i].val /\ i \in DOMAIN f
    BY <1>2, <1>3, <1>6, CarryKey
  <2>1. CASE t = s /\ l = k
    <3>1. \A j \in DOMAIN g : KeyAt(g, j, s, k) => q = j
      BY <1>1, <1>8, <1>11, NeatKey
    <3> QED
      BY <1>1, <1>5, <1>8, <2>1, <3>1 DEF Holds
  <2>2. CASE ~(t = s /\ l = k)
    <3>1. ASSUME NEW j \in DOMAIN g, KeyAt(g, j, t, l) PROVE \E i \in D : j = e[i]
      <4>1. j # q
        BY <1>1, <1>8, <1>11, <2>2, <3>1, NeatKey
      <4> QED
        BY <1>5, <1>9, <3>1, <4>1 DEF KeyAt
    <3>2. D = DOMAIN f
      BY DEF D
    <3> QED
      BY <2>0, <2>2, <3>1, <3>2, SMTT(30) DEF Holds
  <2> QED
    BY <2>1, <2>2
<1>14. Lines(f, Others(f, s, k)) = Lines(g, Others(g, s, k))
  <2>1. \A j \in DOMAIN g : \/ \E i \in DOMAIN f : j = e[i]
                            \/ KeyAt(g, j, s, k) \/ g[j].is = "blank"
                            \/ g[j].is = "header" /\ g[j].name = s
    BY <1>5, <1>8, <1>9 DEF D
  <2>2. Rewritten(f, g, e, s, k)
    BY <1>2, <1>6, <2>1 DEF Rewritten, D
  <2> QED
    BY <2>2, OthersKeptBy
<1> QED
  BY <1>11, <1>12, <1>13, <1>14 DEF SetDone

\* A file with at most one blank line more.
LEMMA BlanksAppended ==
  ASSUME NEW f \in Seq(Line), NEW g \in Seq(Line), NEW c \in {0, 1}, Len(g) = Len(f) + c + 2,
         \A i \in DOMAIN f : g[i] = f[i],
         c = 1 => g[Len(f) + 1].is = "blank",
         g[Len(f) + c + 1].is # "blank", g[Len(f) + c + 2].is # "blank"
  PROVE  Len(Lines(g, Blanks(g))) - Len(Lines(f, Blanks(f))) \in 0 .. 1
<1> DEFINE T == Blanks(g)
           e == [i \in DOMAIN g |-> i]
<1>0. Len(f) \in Nat /\ DOMAIN f = 1 .. Len(f) /\ DOMAIN g = 1 .. Len(f) + c + 2
  BY LineFacts
<1>1. \A i \in DOMAIN g : i \in T <=> g[i].is = "blank"
  BY DEF Blanks
<1>2. T \subseteq 1 .. Len(f) + c
  <2>1. \A i \in T : i # Len(f) + c + 1 /\ i # Len(f) + c + 2 /\ i \in 1 .. Len(f) + c + 2
    BY <1>0, <1>1 DEF Blanks
  <2> QED
    BY <1>0, <2>1
<1>3. ASSUME NEW d \in Seq(Line), Len(d) = Len(f) + c, \A i \in DOMAIN d : d[i] = g[i]
      PROVE  Lines(d, Blanks(d)) = Lines(g, T)
  <2>1. DOMAIN d = 1 .. Len(f) + c /\ DOMAIN d \subseteq DOMAIN g
    BY <1>0, <1>3
  <2>2. Blanks(d) = T
    <3>1. T \subseteq DOMAIN d
      BY <1>2, <2>1
    <3> QED
      BY <1>1, <1>3, <2>1, <3>1 DEF Blanks
  <2>3. \A i \in T : e[i] = i /\ i \in DOMAIN d
    BY <1>2, <2>1
  <2> HIDE DEF T, e
  <2>4. Matched(d, T, g, T, e)
    BY <1>3, <2>1, <2>3 DEF Matched
  <2>5. SameLines(d, T, g, T, e)
    BY <1>3, LinesMatched
  <2> QED
    BY <2>2, <2>4, <2>5 DEF SameLines
<1>4. \A S : Len(Lines(f, S)) \in Nat
  BY LinesType
<1> HIDE DEF T, e
<1>5. CASE c = 0
  <2>1. Lines(f, Blanks(f)) = Lines(g, T)
    BY <1>0, <1>3, <1>5
  <2> QED
    BY <1>4, <2>1 DEF T
<1>6. CASE c = 1
  <2> DEFINE n == Len(f) + 1
             x == g[n]
             d == Append(f, x)
  <2>1. n \in DOMAIN g /\ x \in Line /\ x.is = "blank"
    BY <1>0, <1>6
  <2>2. d \in Seq(Line) /\ Len(d) = n /\ d[n] = x /\ \A i \in DOMAIN f : d[i] = f[i]
    BY <1>0, <2>1
  <2> HIDE DEF x
  <2>3. Longer(f, x, Blanks(d))
    BY <2>1, LinesLonger
  <2>4. n \in Blanks(d) /\ Blanks(d) \ {n} = Blanks(f)
    <3>1. DOMAIN d = 1 .. n /\ DOMAIN f = 1 .. n - 1 /\ n \in Nat /\ n >= 1
      BY <1>0, <2>2
    <3> HIDE DEF d, n
    <3>2. \A i \in DOMAIN d : i # n <=> i \in DOMAIN f
      BY <3>1
    <3> QED
      BY <2>1, <2>2, <3>1, <3>2 DEF Blanks
  <2>5. Lines(d, Blanks(d)) = Lines(g, T)
    <3>1. \A i \in DOMAIN d : d[i] = g[i]
      BY <1>0, <1>6, <2>2 DEF x
    <3> HIDE DEF d
    <3> QED
      BY <1>3, <1>6, <2>2, <3>1
  <2> HIDE DEF n
  <2>6. Len(Lines(d, Blanks(d))) - Len(Lines(f, Blanks(f))) = 1
    <3>1. \A r \in Seq(Line) : Len(r \o <<x>>) = Len(r) + 1
      BY <2>1
    <3>2. Lines(f, Blanks(f)) \in Seq(Line)
      BY LinesType
    <3>3. CASE f = <<>>
      <4>1. Lines(d, Blanks(d)) = <<x>>
        BY <2>3, <2>4, <3>3 DEF Longer, n
      <4>2. Lines(f, Blanks(f)) = <<>>
        BY <3>3, LinesNone
      <4>3. Len(<<x>>) = 1 /\ Len(<<>>) = 0
        OBVIOUS
      <4> QED
        BY <4>1, <4>2, <4>3
    <3>4. CASE f # <<>>
      <4>1. Lines(d, Blanks(d)) = Lines(f, Blanks(f)) \o <<x>>
        BY <2>3, <2>4, <3>4 DEF Longer, n
      <4>2. Len(Lines(d, Blanks(d))) = Len(Lines(f, Blanks(f))) + 1
        BY <3>1, <3>2, <4>1
      <4> QED
        BY <1>4, <4>2
    <3> QED
      BY <3>3, <3>4
  <2> QED
    BY <2>5, <2>6 DEF T
<1> QED
  BY <1>5, <1>6

\* Set in a section that is not there.
LEMMA WithSectionDone ==
  ASSUME NEW f, Neat(f), NEW s \in Sections, NEW k \in ConfKeys, NEW v \in Values, ~HasSec(f, s)
  PROVE  /\ SetDone(f, WithSection(f, s, k, v), s, k, v)
         /\ Kept(f, WithSection(f, s, k, v), s, k)
<1> DEFINE b == TextLine("blank")
           h == Header(s)
           x == KeyLine(k, v)
<1>0. /\ f \in Seq(Line) /\ Len(f) \in Nat /\ DOMAIN f = 1 .. Len(f)
      /\ \A i \in DOMAIN f : f[i].nl
  BY DEF Neat
<1>1. b \in Line /\ h \in Line /\ x \in Line
  BY NewLines
<1>2. b.is = "blank" /\ b.nl
  BY DEF TextLine
<1>3. WithSection(f, s, k, v) \in {Written(f, <<>> \o <<h, x>>), Written(f, <<b>> \o <<h, x>>)}
  BY DEF WithSection
<1> HIDE DEF b, h, x
<1> DEFINE y == <<h, x>>
<1>4. y \in Seq(Line) /\ Len(y) = 2 /\ y[1] = h /\ y[2] = x
  BY <1>1
<1> HIDE DEF y
<1>5. ASSUME NEW z \in Seq(Line), NEW c \in {0, 1}, Len(z) = c + 2, z[c + 1] = h, z[c + 2] = x,
             c = 1 => z[1] = b, WithSection(f, s, k, v) = Written(f, z)
      PROVE  /\ SetDone(f, WithSection(f, s, k, v), s, k, v)
             /\ Kept(f, WithSection(f, s, k, v), s, k)
  <2> DEFINE g == f \o z
             p == Len(f) + c + 1
  <2>1. WithSection(f, s, k, v) = g
    BY <1>0, <1>5, WrittenIs
  <2>2. /\ g \in Seq(Line) /\ Len(g) = Len(f) + Len(z)
        /\ \A i \in 1 .. Len(f) + Len(z) : g[i] = IF i <= Len(f) THEN f[i] ELSE z[i - Len(f)]
    BY <1>0, <1>5, ConcatProperties
  <2> HIDE DEF g
  <2>3. Len(g) = Len(f) + c + 2 /\ DOMAIN g = 1 .. Len(f) + c + 2
    BY <1>0, <1>5, <2>2
  <2>4. \A i \in DOMAIN f : g[i] = f[i]
    BY <1>0, <1>5, <2>2
  <2>5. \A i \in 1 .. c + 2 : g[Len(f) + i] = z[i]
    <3> TAKE i \in 1 .. c + 2
    <3>1. Len(f) + i \in 1 .. Len(f) + Len(z) /\ ~(Len(f) + i <= Len(f)) /\ (Len(f) + i) - Len(f) = i
      BY <1>0, <1>5
    <3> QED
      BY <2>2, <3>1
  <2>6. g[p] = h /\ g[p + 1] = x /\ p \in Nat /\ Len(f) < p /\ p + 1 \in DOMAIN g
    <3>1. p = Len(f) + (c + 1) /\ p + 1 = Len(f) + (c + 2) /\ c + 1 \in 1 .. c + 2 /\ c + 2 \in 1 .. c + 2
      BY <1>0
    <3> QED
      BY <1>0, <1>5, <2>3, <2>5, <3>1
  <2>7. ASSUME NEW j \in DOMAIN g, Len(f) < j, j # p, j # p + 1 PROVE g[j].is = "blank" /\ g[j].nl
    <3>1. c = 1 /\ j = Len(f) + 1
      BY <1>0, <2>3, <2>7
    <3>2. g[j] = b
      BY <1>5, <2>5, <3>1
    <3> QED
      BY <1>2, <3>2
  <2> HIDE DEF p
  <2>8. SetDone(f, g, s, k, v) /\ Lines(f, Others(f, s, k)) = Lines(g, Others(g, s, k))
    BY <2>2, <2>4, <2>6, <2>7, AppendDone DEF h, x
  <2>9. Len(Lines(g, Blanks(g))) - Len(Lines(f, Blanks(f))) \in 0 .. 1
    <3>1. h.is # "blank" /\ x.is # "blank"
      BY DEF h, x, Header, KeyLine
    <3>2. c + 1 \in 1 .. c + 2 /\ c + 2 \in 1 .. c + 2 /\ 1 \in 1 .. c + 2
      OBVIOUS
    <3>3. g[Len(f) + (c + 1)] = h /\ g[Len(f) + (c + 2)] = x /\ (c = 1 => g[Len(f) + 1] = b)
      BY <1>5, <2>5, <3>2
    <3>4. Len(f) + (c + 1) = Len(f) + c + 1 /\ Len(f) + (c + 2) = Len(f) + c + 2
      BY <1>0
    <3>5. /\ c = 1 => g[Len(f) + 1].is = "blank"
          /\ g[Len(f) + c + 1].is # "blank" /\ g[Len(f) + c + 2].is # "blank"
      BY <1>2, <3>1, <3>3, <3>4
    <3> QED
      BY <1>0, <1>5, <2>2, <2>3, <2>4, <3>5, BlanksAppended
  <2> QED
    BY <2>1, <2>8, <2>9 DEF Kept
<1>6. CASE WithSection(f, s, k, v) = Written(f, <<>> \o y)
  <2>1. <<>> \o y = y
    BY <1>4, ConcatEmptySeq
  <2>2. Len(y) = 0 + 2 /\ y[0 + 1] = h /\ y[0 + 2] = x /\ 0 \in {0, 1} /\ 0 # 1
    BY <1>4
  <2> QED
    BY <1>4, <1>5, <1>6, <2>1, <2>2, Zenon
<1>7. CASE WithSection(f, s, k, v) = Written(f, <<b>> \o y)
  <2> DEFINE a == <<b>>
             z == a \o y
  <2>1. a \in Seq(Line) /\ Len(a) = 1 /\ a[1] = b
    BY <1>1
  <2>2. WithSection(f, s, k, v) = Written(f, z)
    BY <1>7
  <2> HIDE DEF a
  <2>3. /\ z \in Seq(Line) /\ Len(z) = Len(a) + Len(y)
        /\ \A i \in 1 .. Len(a) + Len(y) : z[i] = IF i <= Len(a) THEN a[i] ELSE y[i - Len(a)]
    BY <1>4, <2>1, ConcatProperties
  <2> HIDE DEF z
  <2>4. Len(z) = 1 + 2 /\ z[1] = b /\ z[1 + 1] = h /\ z[1 + 2] = x /\ 1 \in {0, 1}
    BY <1>4, <2>1, <2>3
  <2> QED
    BY <1>5, <2>2, <2>3, <2>4, Zenon
<1> QED
  BY <1>3, <1>6, <1>7 DEF y

\* What set writes, whatever it finds.
LEMMA SetLinesDone ==
  ASSUME NEW f, Neat(f), NEW s \in Sections, NEW k \in ConfKeys, NEW v \in Values
  PROVE  /\ SetDone(f, SetLines(f, s, k, v), s, k, v)
         /\ Kept(f, SetLines(f, s, k, v), s, k)
<1>0. f \in Seq(Line) /\ Len(f) \in Nat /\ DOMAIN f = 1 .. Len(f)
  BY DEF Neat
<1>1. CASE KeysOf(f, s, k) # {}
  <2> DEFINE K == KeysOf(f, s, k)
             m == Min(K)
  <2>1. K \subseteq 0 .. Len(f) /\ K # {}
    BY <1>0, <1>1 DEF KeysOf
  <2>2. m \in K
    <3> HIDE DEF K
    <3> QED
      BY <1>0, <2>1, MaxMin
  <2>3. SetLines(f, s, k, v) = [f EXCEPT ![m] = KeyLine(k, v)]
    BY <1>1 DEF SetLines
  <2> HIDE DEF m
  <2>4. /\ SetDone(f, [f EXCEPT ![m] = KeyLine(k, v)], s, k, v)
        /\ Kept(f, [f EXCEPT ![m] = KeyLine(k, v)], s, k)
    BY <2>2, ReplaceDone, Zenon
  <2> QED
    BY <2>3, <2>4, Zenon
<1>2. CASE KeysOf(f, s, k) = {} /\ HeadersOf(f, s) # {}
  <2>1. PICK h \in DOMAIN f, n \in 0 .. Len(f) :
          /\ f[h].is = "header" /\ f[h].name = s /\ h <= n
          /\ \A j \in DOMAIN f : h < j /\ j <= n => f[j].is # "header"
          /\ Added(f, s, k, v) = Inserted(f, n, KeyLine(k, v))
    BY <1>2, AddedAt
  <2>2. /\ SetDone(f, Inserted(f, n, KeyLine(k, v)), s, k, v)
        /\ Kept(f, Inserted(f, n, KeyLine(k, v)), s, k)
    BY <1>2, <2>1, InsertDone
  <2> QED
    BY <1>2, <2>1, <2>2 DEF SetLines
<1>3. CASE KeysOf(f, s, k) = {} /\ HeadersOf(f, s) = {}
  <2>1. ~HasSec(f, s)
    BY <1>3 DEF HasSec, HeadersOf, Headers
  <2> QED
    BY <1>3, <2>1, WithSectionDone DEF SetLines
<1> QED
  BY <1>1, <1>2, <1>3

\* The lines that del leaves.
LEMMA WithoutLines ==
  ASSUME NEW f \in Seq(Line), NEW m \in DOMAIN f, NEW n \in m + 1 .. Len(f) + 1
  PROVE  /\ Without(f, m, n) \in Seq(Line)
         /\ Len(Without(f, m, n)) = Len(f) - (n - m)
         /\ \A i \in 1 .. m - 1 : Without(f, m, n)[i] = f[i]
         /\ \A i \in n .. Len(f) : Without(f, m, n)[i - (n - m)] = f[i]
<1> DEFINE a == SubSeq(f, 1, m - 1)
           c == SubSeq(f, n, Len(f))
           r == a \o c
<1>0. Len(f) \in Nat /\ m \in 1 .. Len(f) /\ n \in Nat
  BY LineFacts
<1>1. a \in Seq(Line) /\ Len(a) = m - 1 /\ \A i \in 1 .. m - 1 : a[i] = f[i]
  BY <1>0
<1>2. c \in Seq(Line) /\ Len(c) = Len(f) - n + 1 /\ \A i \in 1 .. Len(f) - n + 1 : c[i] = f[n + i - 1]
  BY <1>0
<1> HIDE DEF a, c
<1>3. /\ r \in Seq(Line) /\ Len(r) = Len(a) + Len(c)
      /\ \A i \in 1 .. Len(a) + Len(c) : r[i] = IF i <= Len(a) THEN a[i] ELSE c[i - Len(a)]
  BY <1>1, <1>2, ConcatProperties
<1>4. Without(f, m, n) = r
  BY DEF Without, a, c
<1> HIDE DEF r
<1>5. Len(r) = Len(f) - (n - m)
  BY <1>0, <1>1, <1>2, <1>3
<1>6. \A i \in 1 .. m - 1 : r[i] = f[i]
  <2> TAKE i \in 1 .. m - 1
  <2>1. i \in 1 .. Len(a) + Len(c) /\ i <= Len(a)
    BY <1>0, <1>1, <1>2
  <2> QED
    BY <1>1, <1>3, <2>1
<1>7. \A i \in n .. Len(f) : r[i - (n - m)] = f[i]
  <2> TAKE i \in n .. Len(f)
  <2> DEFINE j == i - (n - m)
  <2>1. /\ j \in 1 .. Len(a) + Len(c) /\ ~(j <= Len(a)) /\ j - Len(a) = i - n + 1
        /\ i - n + 1 \in 1 .. Len(f) - n + 1 /\ n + (i - n + 1) - 1 = i
    BY <1>0, <1>1, <1>2, SMTT(30)
  <2>2. r[j] = c[j - Len(a)]
    <3> HIDE DEF j
    <3> QED
      BY <1>3, <2>1
  <2>3. c[i - n + 1] = f[n + (i - n + 1) - 1]
    BY <1>2, <2>1
  <2> QED
    BY <2>1, <2>2, <2>3
<1> QED
  BY <1>3, <1>4, <1>5, <1>6, <1>7

\* A key, or a whole section, is cut out of a file: what is left is what was there.
LEMMA CutDone ==
  ASSUME NEW f, Neat(f), NEW m \in DOMAIN f, NEW n \in m + 1 .. Len(f) + 1,
         \/ \A h \in DOMAIN f : m <= h /\ h < n => f[h].is # "header"
         \/ n <= Len(f) => f[n].is = "header"
  PROVE  /\ Neat(Without(f, m, n))
         /\ \A t : HasSec(Without(f, m, n), t) <=>
              \E i \in DOMAIN f : (i < m \/ n <= i) /\ f[i].is = "header" /\ f[i].name = t
         /\ \A t, l, w : Holds(Without(f, m, n), t, l, w) <=>
              \E i \in DOMAIN f : (i < m \/ n <= i) /\ KeyAt(f, i, t, l) /\ f[i].val = w
<1> DEFINE g == Without(f, m, n)
           D == {i \in DOMAIN f : i < m \/ n <= i}
           e == [i \in D |-> IF i < m THEN i ELSE i - (n - m)]
<1>0. /\ f \in Seq(Line) /\ Len(f) \in Nat /\ DOMAIN f = 1 .. Len(f)
      /\ m \in 1 .. Len(f) /\ n \in Nat /\ m < n /\ n <= Len(f) + 1
  BY DEF Neat
<1>1. /\ g \in Seq(Line) /\ Len(g) = Len(f) - (n - m)
      /\ \A i \in 1 .. m - 1 : g[i] = f[i]
      /\ \A i \in n .. Len(f) : g[i - (n - m)] = f[i]
  BY <1>0, WithoutLines
<1> HIDE DEF g
<1>2. DOMAIN g = 1 .. Len(f) - (n - m)
  BY <1>0, <1>1
<1>3. \A i \in D : /\ e[i] = (IF i < m THEN i ELSE i - (n - m))
                   /\ g[e[i]] = f[i] /\ e[i] \in DOMAIN g /\ i \in DOMAIN f
  <2> SUFFICES ASSUME NEW i \in D
               PROVE  g[e[i]] = f[i] /\ e[i] \in DOMAIN g
    OBVIOUS
  <2>1. CASE i < m
    BY <1>0, <1>1, <1>2, <2>1
  <2>2. CASE ~(i < m)
    <3>1. e[i] = i - (n - m) /\ i \in n .. Len(f)
      BY <1>0, <2>2
    <3> QED
      BY <1>0, <1>1, <1>2, <3>1
  <2> QED
    BY <2>1, <2>2
<1>4. D \subseteq DOMAIN f /\ e \in [D -> DOMAIN g] /\ \A i, j \in D : i < j => e[i] < e[j]
  BY <1>0, <1>2
<1>5. \A j \in DOMAIN g : \E i \in D : j = e[i]
  <2> TAKE j \in DOMAIN g
  <2>1. CASE j < m
    BY <1>0, <1>2, <2>1
  <2>2. CASE ~(j < m)
    <3> DEFINE i == j + (n - m)
    <3>1. i \in DOMAIN f /\ n <= i /\ ~(i < m) /\ i - (n - m) = j
      BY <1>0, <1>2, <2>2
    <3>2. i \in D
      BY <3>1
    <3>3. e[i] = j
      BY <1>3, <3>1, <3>2
    <3> QED
      BY <3>2, <3>3
  <2> QED
    BY <2>1, <2>2
<1>6. \A h \in DOMAIN f \ D, i \in D : f[h].is = "header" /\ h < i =>
        \E j \in D : f[j].is = "header" /\ h < j /\ j <= i
  <2> SUFFICES ASSUME NEW h \in DOMAIN f \ D, NEW i \in D, f[h].is = "header", h < i
               PROVE  \E j \in D : f[j].is = "header" /\ h < j /\ j <= i
    OBVIOUS
  <2>1. m <= h /\ h < n /\ n <= i /\ n <= Len(f)
    BY <1>0
  <2>2. f[n].is = "header" /\ n \in D
    BY <1>0, <2>1
  <2> QED
    BY <2>1, <2>2
<1> HIDE DEF e
<1>7. Moves(f, g, D, e)
  <2> HIDE DEF D
  <2> QED
    BY <1>0, <1>1, <1>3, <1>4, <1>5, <1>6 DEF Moves
<1>8. Neat(g)
  <2>1. \A j \in DOMAIN g : g[j].nl
    BY <1>3, <1>5 DEF Neat
  <2> HIDE DEF D
  <2> QED
    BY <1>5, <1>7, <2>1, NeatMoved
<1>9. \A t : HasSec(g, t) <=> \E i \in D : f[i].is = "header" /\ f[i].name = t
  <2> HIDE DEF D
  <2> QED
    BY <1>3, <1>5 DEF HasSec
<1>10. \A t, l, w : Holds(g, t, l, w) <=> \E i \in D : KeyAt(f, i, t, l) /\ f[i].val = w
  <2> HIDE DEF D
  <2>1. \A i \in D : \A t, l : KeyAt(g, e[i], t, l) <=> KeyAt(f, i, t, l)
    BY <1>7, CarryKey
  <2> QED
    BY <1>3, <1>5, <2>1, SMTT(30) DEF Holds
<1> QED
  BY <1>8, <1>9, <1>10 DEF g

\* What del of a key leaves.
LEMMA DelKeyDone ==
  ASSUME NEW f, Neat(f), NEW s \in Sections, NEW k \in ConfKeys, KeysOf(f, s, k) # {}
  PROVE  LET g == DelKeyLines(f, s, k) IN
         /\ Neat(g)
         /\ \A t \in Sections : HasSec(g, t) <=> HasSec(f, t)
         /\ \A t \in Sections, l \in ConfKeys : \A w :
              Holds(g, t, l, w) <=> ~(t = s /\ l = k) /\ Holds(f, t, l, w)
<1> DEFINE K == KeysOf(f, s, k)
           m == Min(K)
           n == m + 1
           g == Without(f, m, n)
<1>0. f \in Seq(Line) /\ Len(f) \in Nat /\ DOMAIN f = 1 .. Len(f)
  BY DEF Neat
<1>1. m \in K
  <2>1. K \subseteq 0 .. Len(f) /\ K # {}
    BY <1>0 DEF KeysOf
  <2> HIDE DEF K
  <2> QED
    BY <1>0, <2>1, MaxMin
<1>2. m \in DOMAIN f /\ KeyAt(f, m, s, k)
  BY <1>0, <1>1, KeysAre
<1>3. DelKeyLines(f, s, k) = g
  BY DEF DelKeyLines
<1> HIDE DEF m
<1>4. n \in m + 1 .. Len(f) + 1 /\ \A i \in DOMAIN f : i = m \/ i < m \/ n <= i
  BY <1>0, <1>2
<1>5. \A h \in DOMAIN f : m <= h /\ h < n => f[h].is # "header"
  BY <1>0, <1>2 DEF KeyAt
<1>6. ~(m < m) /\ ~(n <= m)
  BY <1>0, <1>2
<1> HIDE DEF n
<1>7. /\ Neat(g)
      /\ \A t : HasSec(g, t) <=>
           \E i \in DOMAIN f : (i < m \/ n <= i) /\ f[i].is = "header" /\ f[i].name = t
      /\ \A t, l, w : Holds(g, t, l, w) <=>
           \E i \in DOMAIN f : (i < m \/ n <= i) /\ KeyAt(f, i, t, l) /\ f[i].val = w
  BY <1>2, <1>4, <1>5, CutDone
<1> HIDE DEF g
<1>8. \A t : HasSec(g, t) <=> HasSec(f, t)
  <2>1. f[m].is # "header"
    BY <1>2 DEF KeyAt
  <2> QED
    BY <1>4, <1>7, <2>1 DEF HasSec
<1>9. ASSUME NEW t \in Sections, NEW l \in ConfKeys, NEW w
      PROVE  Holds(g, t, l, w) <=> ~(t = s /\ l = k) /\ Holds(f, t, l, w)
  <2>1. \A i \in DOMAIN f : KeyAt(f, i, s, k) => m = i
    BY <1>2, NeatKey
  <2>2. KeyAt(f, m, t, l) => t = s /\ l = k
    BY <1>2, NeatKey
  <2>3. Holds(g, t, l, w) <=>
          \E i \in DOMAIN f : i # m /\ KeyAt(f, i, t, l) /\ f[i].val = w
    BY <1>4, <1>6, <1>7
  <2>4. CASE t = s /\ l = k
    BY <2>1, <2>3, <2>4
  <2>5. CASE ~(t = s /\ l = k)
    BY <2>2, <2>3, <2>5 DEF Holds
  <2> QED
    BY <2>4, <2>5
<1> QED
  BY <1>3, <1>7, <1>8, <1>9

\* What del of a section leaves.
LEMMA DelSectionDone ==
  ASSUME NEW f, Neat(f), NEW s \in Sections, HeadersOf(f, s) # {}
  PROVE  LET g == DelSectionLines(f, s) IN
         /\ Neat(g)
         /\ \A t \in Sections : HasSec(g, t) <=> t # s /\ HasSec(f, t)
         /\ \A t \in Sections, l \in ConfKeys : \A w :
              Holds(g, t, l, w) <=> t # s /\ Holds(f, t, l, w)
<1> DEFINE H == HeadersOf(f, s)
           m == Max(H)
           n == EndOf(f, m)
           g == Without(f, m, n)
<1>0. f \in Seq(Line) /\ Len(f) \in Nat /\ DOMAIN f = 1 .. Len(f)
  BY DEF Neat
<1>1. m \in H
  <2>1. H \subseteq 0 .. Len(f) /\ H # {}
    BY <1>0 DEF HeadersOf, Headers
  <2> HIDE DEF H
  <2> QED
    BY <1>0, <2>1, MaxMin
<1>2. m \in Headers(f) /\ m \in DOMAIN f /\ f[m].is = "header" /\ f[m].name = s
  BY <1>1 DEF HeadersOf, Headers
<1>3. DelSectionLines(f, s) = g
  BY DEF DelSectionLines
<1> HIDE DEF m
<1>4. /\ n \in m + 1 .. Len(f) + 1
      /\ \A j \in DOMAIN f : m < j /\ j < n => f[j].is # "header"
      /\ n <= Len(f) => f[n].is = "header"
  BY <1>0, <1>2, EndIs
<1> HIDE DEF n
<1>5. /\ Neat(g)
      /\ \A t : HasSec(g, t) <=>
           \E i \in DOMAIN f : (i < m \/ n <= i) /\ f[i].is = "header" /\ f[i].name = t
      /\ \A t, l, w : Holds(g, t, l, w) <=>
           \E i \in DOMAIN f : (i < m \/ n <= i) /\ KeyAt(f, i, t, l) /\ f[i].val = w
  BY <1>2, <1>4, CutDone
<1> HIDE DEF g
<1>6. ASSUME NEW i \in DOMAIN f
      PROVE  (i < m \/ n <= i) <=> ~(m <= i /\ i < n)
  BY <1>0, <1>2, <1>4
<1>7. ASSUME NEW i \in DOMAIN f, f[i].is = "header"
      PROVE  (i < m \/ n <= i) <=> f[i].name # s
  <2>1. f[i].name = s <=> i = m
    BY <1>2, <1>7 DEF Neat, OneHeader
  <2> QED
    BY <1>0, <1>2, <1>4, <1>7, <2>1
<1>8. ASSUME NEW i \in DOMAIN f
      PROVE  (m <= i /\ i < n) <=> InSec(f, m, i)
  <2>1. ASSUME m <= i, i < n PROVE InSec(f, m, i)
    BY <1>0, <1>2, <1>4, <2>1 DEF InSec
  <2>2. ASSUME InSec(f, m, i), n <= i PROVE FALSE
    <3>1. n \in DOMAIN f /\ m < n
      BY <1>0, <1>2, <1>4, <2>2
    <3> QED
      BY <1>0, <1>2, <1>4, <2>2, <3>1 DEF InSec
  <2>3. InSec(f, m, i) => m <= i
    BY DEF InSec
  <2> QED
    BY <1>0, <1>2, <1>4, <2>1, <2>2, <2>3
<1>9. ASSUME NEW i \in DOMAIN f, NEW t, NEW l, KeyAt(f, i, t, l)
      PROVE  (i < m \/ n <= i) <=> t # s
  <2>1. PICK h \in DOMAIN f : f[h].name = t /\ InSec(f, h, i)
    BY <1>9 DEF KeyAt
  <2>2. t = s <=> h = m
    BY <1>2, <2>1 DEF Neat, OneHeader, InSec
  <2>3. InSec(f, m, i) <=> h = m
    BY <1>0, <1>2, <2>1, OneSection
  <2> QED
    BY <1>6, <1>8, <2>2, <2>3
<1>10. \A t : HasSec(g, t) <=> t # s /\ HasSec(f, t)
  BY <1>5, <1>7 DEF HasSec
<1>11. ASSUME NEW t, NEW l, NEW w PROVE Holds(g, t, l, w) <=> t # s /\ Holds(f, t, l, w)
  <2>1. \A i \in DOMAIN f : KeyAt(f, i, t, l) => ((i < m \/ n <= i) <=> t # s)
    BY <1>9
  <2>2. Holds(g, t, l, w) <=>
          \E i \in DOMAIN f : (i < m \/ n <= i) /\ KeyAt(f, i, t, l) /\ f[i].val = w
    BY <1>5
  <2> QED
    BY <2>1, <2>2 DEF Holds
<1> QED
  BY <1>3, <1>5, <1>10, <1>11

-----------------------------------------------------------------------------
(* What get says.                                                          *)

\* In a neat file get finds the value of every key that has one.
LEMMA GetIs ==
  ASSUME NEW f, Neat(f), NEW s \in Sections, NEW k \in ConfKeys
  PROVE  \A w : Holds(f, s, k, w) <=> w # NoValue /\ w = Get(f, s, k)
<1> DEFINE H == HeadersOf(f, s)
           K == KeysOf(f, s, k)
           seen == {i \in K : \A j \in Min(H) .. i : Within(f, j, s)}
<1>0. f \in Seq(Line) /\ Len(f) \in Nat /\ DOMAIN f = 1 .. Len(f)
  BY DEF Neat
<1>1. K = {i \in DOMAIN f : KeyAt(f, i, s, k)}
  BY <1>0, KeysAre
<1>2. Get(f, s, k) = IF seen = {} THEN NoValue ELSE f[Min(seen)].val
  BY DEF Get
<1>3. CASE \A i \in DOMAIN f : ~KeyAt(f, i, s, k)
  <2>1. seen = {}
    BY <1>1, <1>3
  <2> QED
    BY <1>2, <1>3, <2>1 DEF Holds
<1>4. ASSUME NEW i \in DOMAIN f, KeyAt(f, i, s, k)
      PROVE  \A w : Holds(f, s, k, w) <=> w # NoValue /\ w = Get(f, s, k)
  <2>1. PICK h \in DOMAIN f : f[h].name = s /\ InSec(f, h, i)
    BY <1>4 DEF KeyAt
  <2>2. \A j \in DOMAIN f : KeyAt(f, j, s, k) => i = j
    BY <1>4, NeatKey
  <2>3. H = {h}
    BY <2>1 DEF HeadersOf, Headers, InSec, Neat, OneHeader
  <2>4. Min(H) = h
    <3>1. H \subseteq 0 .. Len(f) /\ H # {}
      BY <1>0, <2>3
    <3> HIDE DEF H
    <3>2. Min(H) \in H
      BY <1>0, <3>1, MaxMin
    <3> QED
      BY <2>3, <3>2
  <2>5. ASSUME NEW j \in h .. i PROVE Within(f, j, s)
    <3>1. j \in DOMAIN f /\ InSec(f, h, j)
      BY <1>0, <2>1, <2>5 DEF InSec
    <3>2. Under(f, j) = h
      <4>1. Under(f, j) # 0
        BY <1>0, <2>1, <3>1, UnderIs
      <4>2. Under(f, j) \in DOMAIN f /\ InSec(f, Under(f, j), j)
        BY <1>0, <3>1, <4>1, UnderIs
      <4> QED
        BY <1>0, <2>1, <3>1, <4>2, OneSection
    <3> QED
      BY <2>3, <3>2 DEF Within
  <2>6. K = {i}
    BY <1>1, <1>4, <2>2
  <2>7. seen = {i}
    BY <2>4, <2>5, <2>6
  <2>8. Min(seen) = i
    <3> HIDE DEF seen
    <3>1. seen \subseteq 0 .. Len(f) /\ seen # {}
      BY <1>0, <1>4, <2>7
    <3>2. Min(seen) \in seen
      BY <1>0, <3>1, MaxMin
    <3> QED
      BY <2>7, <3>2
  <2>9. Get(f, s, k) = f[i].val
    BY <1>2, <2>7, <2>8
  <2>10. f[i].val # NoValue
    <3>1. f[i].val \in Values \union {Garbled}
      BY <1>0, <1>4, LineFacts DEF KeyAt
    <3> QED
      BY <3>1, ConfigAssumption
  <2>11. \A w : Holds(f, s, k, w) <=> w = f[i].val
    BY <1>4, <2>2 DEF Holds
  <2> QED
    BY <2>9, <2>10, <2>11
<1> QED
  BY <1>3, <1>4

\* A section is there when it has headers.
LEMMA SectionIs ==
  ASSUME NEW f, NEW s
  PROVE  HeadersOf(f, s) # {} <=> HasSec(f, s)
BY DEF HeadersOf, Headers, HasSec

\* What the sections and the tables of files are, one file changed into another.
PresentIn(f) == {s \in Sections : HeadersOf(f, s) # {}}
TableIn(f) == [s \in Sections |-> [k \in ConfKeys |-> Get(f, s, k)]]

\* The table of a neat file, from what it holds.
LEMMA TableIs ==
  ASSUME NEW f, Neat(f), NEW s \in Sections, NEW k \in ConfKeys
  PROVE  /\ \A w : w # NoValue => (TableIn(f)[s][k] = w <=> Holds(f, s, k, w))
         /\ TableIn(f)[s][k] = NoValue <=> \A w : ~Holds(f, s, k, w)
<1>1. TableIn(f)[s][k] = Get(f, s, k)
  BY DEF TableIn
<1>2. \A w : Holds(f, s, k, w) <=> w # NoValue /\ w = Get(f, s, k)
  BY GetIs
<1> QED
  BY <1>1, <1>2

\* The table of one file is that of another but for one value.
OneChanged(f, g, s, k, v) ==
  \A t \in Sections, l \in ConfKeys :
    TableIn(g)[t][l] = IF t = s /\ l = k THEN v ELSE TableIn(f)[t][l]

TableWith(f, s, k, v) == [TableIn(f) EXCEPT ![s][k] = v]

\* So it is that table, updated.
LEMMA TableUpdated ==
  ASSUME NEW f, NEW g, NEW s \in Sections, NEW k \in ConfKeys, NEW v, OneChanged(f, g, s, k, v)
  PROVE  TableIn(g) = TableWith(f, s, k, v)
<1> DEFINE a == TableIn(f)
           b == TableIn(g)
<1>1. /\ a = [t \in Sections |-> a[t]] /\ b = [t \in Sections |-> b[t]]
      /\ \A t \in Sections : a[t] = [l \in ConfKeys |-> a[t][l]]
      /\ \A t \in Sections : b[t] = [l \in ConfKeys |-> b[t][l]]
  BY Zenon DEF TableIn
<1> HIDE DEF a, b
<1>2. \A t \in Sections, l \in ConfKeys : b[t][l] = IF t = s /\ l = k THEN v ELSE a[t][l]
  BY DEF a, b, OneChanged
<1> DEFINE c == [a EXCEPT ![s][k] = v]
<1>3. \A t \in Sections : b[t] = c[t]
  <2> TAKE t \in Sections
  <2>1. CASE t = s
    <3>1. b[s] = [l \in ConfKeys |-> b[s][l]] /\ a[s] = [l \in ConfKeys |-> a[s][l]]
      BY <1>1
    <3>2. \A l \in ConfKeys : b[s][l] = IF l = k THEN v ELSE a[s][l]
      BY <1>2
    <3>3. c[s] = [a[s] EXCEPT ![k] = v]
      BY <1>1
    <3>4. b[s] = [a[s] EXCEPT ![k] = v]
      BY <3>1, <3>2
    <3> QED
      BY <2>1, <3>3, <3>4
  <2>2. CASE t # s
    <3>1. b[t] = [l \in ConfKeys |-> b[t][l]] /\ a[t] = [l \in ConfKeys |-> a[t][l]]
      BY <1>1
    <3>2. \A l \in ConfKeys : b[t][l] = a[t][l]
      BY <1>2, <2>2
    <3>3. b[t] = a[t]
      BY <3>1, <3>2
    <3>4. c[t] = a[t]
      BY <1>1, <2>2
    <3> QED
      BY <3>3, <3>4
  <2> QED
    BY <2>1, <2>2
<1>4. c = [t \in Sections |-> c[t]]
  BY <1>1
<1> HIDE DEF c
<1>5. b = c
  BY <1>1, <1>3, <1>4
<1> QED
  BY <1>5 DEF a, b, c, TableWith

\* A set, as the table has it.
LEMMA SetTable ==
  ASSUME NEW f, NEW g, Neat(f), NEW s \in Sections, NEW k \in ConfKeys, NEW v \in Values,
         SetDone(f, g, s, k, v)
  PROVE  /\ PresentIn(g) = PresentIn(f) \union {s}
         /\ TableIn(g) = TableWith(f, s, k, v)
<1>1. PresentIn(g) = PresentIn(f) \union {s}
  BY SectionIs DEF PresentIn, SetDone
<1>2. ASSUME NEW t \in Sections, NEW l \in ConfKeys
      PROVE  TableIn(g)[t][l] = IF t = s /\ l = k THEN v ELSE TableIn(f)[t][l]
  <2>1. \A w : Holds(g, t, l, w) <=> IF t = s /\ l = k THEN w = v ELSE Holds(f, t, l, w)
    BY DEF SetDone
  <2>2. Neat(g) /\ v # NoValue
    BY ConfigAssumption DEF SetDone
  <2>3. /\ \A w : w # NoValue => (TableIn(g)[t][l] = w <=> Holds(g, t, l, w))
        /\ TableIn(g)[t][l] = NoValue <=> \A w : ~Holds(g, t, l, w)
    BY <2>2, TableIs
  <2>4. /\ \A w : w # NoValue => (TableIn(f)[t][l] = w <=> Holds(f, t, l, w))
        /\ TableIn(f)[t][l] = NoValue <=> \A w : ~Holds(f, t, l, w)
    BY TableIs
  <2>5. CASE t = s /\ l = k
    BY <2>1, <2>2, <2>3, <2>5
  <2>6. CASE ~(t = s /\ l = k)
    <3>1. \A w : Holds(g, t, l, w) <=> Holds(f, t, l, w)
      BY <2>1, <2>6
    <3> QED
      BY <2>3, <2>4, <2>6, <3>1
  <2> QED
    BY <2>5, <2>6
<1>3. TableIn(g) = TableWith(f, s, k, v)
  <2>1. OneChanged(f, g, s, k, v)
    BY <1>2 DEF OneChanged
  <2> QED
    BY <2>1, TableUpdated, Zenon
<1> QED
  BY <1>1, <1>3

\* A del of a key, as the table has it.
LEMMA DelKeyTable ==
  ASSUME NEW f, Neat(f), NEW s \in Sections, NEW k \in ConfKeys, KeysOf(f, s, k) # {}
  PROVE  LET g == DelKeyLines(f, s, k) IN
         /\ TableIn(f)[s][k] # NoValue
         /\ PresentIn(g) = PresentIn(f)
         /\ TableIn(g) = TableWith(f, s, k, NoValue)
<1> DEFINE g == DelKeyLines(f, s, k)
<1>1. /\ Neat(g)
      /\ \A t \in Sections : HasSec(g, t) <=> HasSec(f, t)
      /\ \A t \in Sections, l \in ConfKeys : \A w :
           Holds(g, t, l, w) <=> ~(t = s /\ l = k) /\ Holds(f, t, l, w)
  BY DelKeyDone
<1> HIDE DEF g
<1>2. PresentIn(g) = PresentIn(f)
  BY <1>1, SectionIs DEF PresentIn
<1>3. TableIn(f)[s][k] # NoValue
  <2>1. f \in Seq(Line)
    BY DEF Neat
  <2>2. \E i \in DOMAIN f : KeyAt(f, i, s, k)
    BY <2>1, KeysAre
  <2>3. \E w : Holds(f, s, k, w)
    BY <2>2 DEF Holds
  <2> QED
    BY <2>3, TableIs
<1>4. ASSUME NEW t \in Sections, NEW l \in ConfKeys
      PROVE  TableIn(g)[t][l] = IF t = s /\ l = k THEN NoValue ELSE TableIn(f)[t][l]
  <2>1. \A w : Holds(g, t, l, w) <=> ~(t = s /\ l = k) /\ Holds(f, t, l, w)
    BY <1>1
  <2>2. /\ \A w : w # NoValue => (TableIn(g)[t][l] = w <=> Holds(g, t, l, w))
        /\ TableIn(g)[t][l] = NoValue <=> \A w : ~Holds(g, t, l, w)
    BY <1>1, TableIs
  <2>3. /\ \A w : w # NoValue => (TableIn(f)[t][l] = w <=> Holds(f, t, l, w))
        /\ TableIn(f)[t][l] = NoValue <=> \A w : ~Holds(f, t, l, w)
    BY TableIs
  <2>4. CASE t = s /\ l = k
    BY <2>1, <2>2, <2>4
  <2>5. CASE ~(t = s /\ l = k)
    <3>1. \A w : Holds(g, t, l, w) <=> Holds(f, t, l, w)
      BY <2>1, <2>5
    <3> QED
      BY <2>2, <2>3, <2>5, <3>1
  <2> QED
    BY <2>4, <2>5
<1>5. TableIn(g) = TableWith(f, s, k, NoValue)
  <2>1. OneChanged(f, g, s, k, NoValue)
    BY <1>4 DEF OneChanged
  <2> QED
    BY <2>1, TableUpdated, Zenon
<1> QED
  BY <1>2, <1>3, <1>5 DEF g

\* A del of a section, as the table has it.
LEMMA DelSectionTable ==
  ASSUME NEW f, Neat(f), NEW s \in Sections, HeadersOf(f, s) # {}
  PROVE  LET g == DelSectionLines(f, s) IN
         /\ s \in PresentIn(f)
         /\ PresentIn(g) = PresentIn(f) \ {s}
         /\ TableIn(g) = [TableIn(f) EXCEPT ![s] = [k \in ConfKeys |-> NoValue]]
<1> DEFINE g == DelSectionLines(f, s)
<1>1. /\ Neat(g)
      /\ \A t \in Sections : HasSec(g, t) <=> t # s /\ HasSec(f, t)
      /\ \A t \in Sections, l \in ConfKeys : \A w :
           Holds(g, t, l, w) <=> t # s /\ Holds(f, t, l, w)
  BY DelSectionDone
<1> HIDE DEF g
<1>2. s \in PresentIn(f) /\ PresentIn(g) = PresentIn(f) \ {s}
  BY <1>1, SectionIs DEF PresentIn
<1>3. ASSUME NEW t \in Sections, NEW l \in ConfKeys
      PROVE  TableIn(g)[t][l] = IF t = s THEN NoValue ELSE TableIn(f)[t][l]
  <2>1. \A w : Holds(g, t, l, w) <=> t # s /\ Holds(f, t, l, w)
    BY <1>1
  <2>2. /\ \A w : w # NoValue => (TableIn(g)[t][l] = w <=> Holds(g, t, l, w))
        /\ TableIn(g)[t][l] = NoValue <=> \A w : ~Holds(g, t, l, w)
    BY <1>1, TableIs
  <2>3. /\ \A w : w # NoValue => (TableIn(f)[t][l] = w <=> Holds(f, t, l, w))
        /\ TableIn(f)[t][l] = NoValue <=> \A w : ~Holds(f, t, l, w)
    BY TableIs
  <2>4. CASE t = s
    BY <2>1, <2>2, <2>4
  <2>5. CASE t # s
    <3>1. \A w : Holds(g, t, l, w) <=> Holds(f, t, l, w)
      BY <2>1, <2>5
    <3> QED
      BY <2>2, <2>3, <2>5, <3>1
  <2> QED
    BY <2>4, <2>5
<1> DEFINE a == TableIn(f)
           b == TableIn(g)
           z == [k \in ConfKeys |-> NoValue]
<1>4. /\ a = [t \in Sections |-> a[t]] /\ b = [t \in Sections |-> b[t]]
      /\ \A t \in Sections : a[t] = [l \in ConfKeys |-> a[t][l]]
      /\ \A t \in Sections : b[t] = [l \in ConfKeys |-> b[t][l]]
  BY Zenon DEF TableIn
<1> HIDE DEF a, b
<1>5. b[s] = z
  <2>1. b[s] = [l \in ConfKeys |-> b[s][l]] /\ \A l \in ConfKeys : b[s][l] = NoValue
    BY <1>3, <1>4 DEF b
  <2> QED
    BY <2>1
<1> HIDE DEF z
<1>6. \A t \in Sections : t # s => b[t] = a[t]
  <2> SUFFICES ASSUME NEW t \in Sections, t # s PROVE b[t] = a[t]
    OBVIOUS
  <2>1. /\ b[t] = [l \in ConfKeys |-> b[t][l]] /\ a[t] = [l \in ConfKeys |-> a[t][l]]
        /\ \A l \in ConfKeys : b[t][l] = a[t][l]
    BY <1>3, <1>4 DEF a, b
  <2> QED
    BY <2>1
<1>7. b = [a EXCEPT ![s] = z]
  BY <1>4, <1>5, <1>6
<1> QED
  BY <1>2, <1>7 DEF a, b, z, g

-----------------------------------------------------------------------------
(* The files that init writes.                                             *)

\* Headers are followed by a host, and there are no other keys.
Hosts(f) ==
  /\ f \in Seq(Line)
  /\ \A i \in DOMAIN f : f[i].is = "header" => i + 1 \in DOMAIN f /\ f[i + 1].is = "key"
  /\ \A i \in DOMAIN f : f[i].is = "key" => f[i].name = Host /\ f[i].val \in Values

\* The lines of one section more, written behind a file.
LEMMA SectionAppended ==
  ASSUME NEW f, Hosts(f), NEW s \in Sections, NEW v \in Values
  PROVE  LET g == f \o SectionLines(s, v) IN
         /\ Hosts(g)
         /\ \A t : HasSec(g, t) <=> t = s \/ HasSec(f, t)
<1> DEFINE z == SectionLines(s, v)
           g == f \o z
<1>0. f \in Seq(Line) /\ Len(f) \in Nat /\ DOMAIN f = 1 .. Len(f) /\ Host \in ConfKeys
  BY ConfigAssumption DEF Hosts
<1>1. /\ z \in Seq(Line) /\ Len(z) = 3
      /\ z[1] = Header(s) /\ z[2] = KeyLine(Host, v) /\ z[3].is = "blank"
  <2> DEFINE h == Header(s)
             x == KeyLine(Host, v)
             b == TextLine("blank")
  <2>1. h \in Line /\ x \in Line /\ b \in Line /\ b.is = "blank"
    BY <1>0, NewLines DEF TextLine
  <2>2. z = <<h, x, b>>
    BY DEF SectionLines
  <2> HIDE DEF z, h, x, b
  <2>3. z \in Seq(Line) /\ Len(z) = 3 /\ z[1] = h /\ z[2] = x /\ z[3] = b
    BY <2>1, <2>2
  <2> QED
    BY <2>1, <2>3 DEF h, x
<1> HIDE DEF z
<1>2. /\ g \in Seq(Line) /\ Len(g) = Len(f) + Len(z)
      /\ \A i \in 1 .. Len(f) + Len(z) : g[i] = IF i <= Len(f) THEN f[i] ELSE z[i - Len(f)]
  <2>1. f \in Seq(Line) /\ z \in Seq(Line)
    BY <1>0, <1>1
  <2> QED
    BY <2>1, ConcatProperties
<1> HIDE DEF g
<1>3. Len(g) = Len(f) + 3 /\ DOMAIN g = 1 .. Len(f) + 3
  BY <1>0, <1>1, <1>2
<1>4. \A i \in DOMAIN f : g[i] = f[i] /\ i \in DOMAIN g
  BY <1>0, <1>1, <1>2
<1>5. \A i \in 1 .. 3 : g[Len(f) + i] = z[i] /\ Len(f) + i \in DOMAIN g
  <2> TAKE i \in 1 .. 3
  <2>1. Len(f) + i \in 1 .. Len(f) + Len(z) /\ ~(Len(f) + i <= Len(f)) /\ (Len(f) + i) - Len(f) = i
    BY <1>0, <1>1
  <2> QED
    BY <1>2, <1>3, <2>1
<1>6. /\ g[Len(f) + 1].is = "header" /\ g[Len(f) + 1].name = s
      /\ g[Len(f) + 2].is = "key" /\ g[Len(f) + 2].name = Host /\ g[Len(f) + 2].val = v
      /\ g[Len(f) + 3].is = "blank"
  BY <1>1, <1>5 DEF Header, KeyLine
<1>7. \A i \in DOMAIN g : i \in DOMAIN f \/ i \in {Len(f) + 1, Len(f) + 2, Len(f) + 3}
  BY <1>0, <1>3
<1>8. ASSUME NEW i \in DOMAIN g, g[i].is = "header"
      PROVE  i + 1 \in DOMAIN g /\ g[i + 1].is = "key"
  <2>1. CASE i \in DOMAIN f
    BY <1>4, <1>8, <2>1 DEF Hosts
  <2>2. CASE i = Len(f) + 1
    <3>1. i + 1 = Len(f) + 2 /\ 2 \in 1 .. 3
      BY <1>0, <2>2
    <3> QED
      BY <1>5, <1>6, <3>1
  <2> QED
    BY <1>6, <1>7, <1>8, <2>1, <2>2
<1>9. ASSUME NEW i \in DOMAIN g, g[i].is = "key"
      PROVE  g[i].name = Host /\ g[i].val \in Values
  <2>1. CASE i \in DOMAIN f
    BY <1>4, <1>9, <2>1 DEF Hosts
  <2> QED
    BY <1>6, <1>7, <1>9, <2>1
<1>10. ASSUME NEW t PROVE HasSec(g, t) <=> t = s \/ HasSec(f, t)
  <2>1. HasSec(f, t) => HasSec(g, t)
    BY <1>4 DEF HasSec
  <2>2. HasSec(g, s)
    <3>1. Len(f) + 1 \in DOMAIN g
      BY <1>5
    <3> QED
      BY <1>6, <3>1 DEF HasSec
  <2>3. HasSec(g, t) => t = s \/ HasSec(f, t)
    BY <1>4, <1>6, <1>7 DEF HasSec
  <2> QED
    BY <2>1, <2>2, <2>3
<1> QED
  BY <1>2, <1>8, <1>9, <1>10 DEF Hosts, g, z

\* A file that init writes: the main section and those of the servers, each header
\* with its host, whatever the names.
Generated(f) == Hosts(f) /\ HasSec(f, MainSection)

\* It begins with the main section.
LEMMA GeneratedFirst ==
  ASSUME NEW v \in Values
  PROVE  Generated(<<TextLine("comment"), TextLine("blank")>> \o SectionLines(MainSection, v))
<1> DEFINE f == <<TextLine("comment"), TextLine("blank")>>
           g == f \o SectionLines(MainSection, v)
<1>1. /\ f \in Seq(Line) /\ DOMAIN f = 1 .. 2
      /\ \A i \in DOMAIN f : f[i].is # "header" /\ f[i].is # "key"
  <2> DEFINE c == TextLine("comment")
             b == TextLine("blank")
  <2>1. c \in Line /\ b \in Line /\ c.is = "comment" /\ b.is = "blank"
    <3>1. \A x \in {"comment", "blank"} : TextLine(x) \in Line
      BY DEF TextLine, Line
    <3> QED
      BY <3>1 DEF TextLine
  <2>2. f = <<c, b>>
    OBVIOUS
  <2> HIDE DEF f, c, b
  <2> QED
    BY <2>1, <2>2
<1> HIDE DEF f
<1>2. Hosts(f)
  BY <1>1 DEF Hosts
<1>3. MainSection \in Sections
  BY ConfigAssumption
<1>4. Hosts(g) /\ HasSec(g, MainSection)
  BY <1>2, <1>3, SectionAppended
<1> QED
  BY <1>4 DEF Generated, f, g

\* Each server gives it one section more, of a name that is new or not.
LEMMA GeneratedNext ==
  ASSUME NEW f, Generated(f), NEW s \in Sections, NEW v \in Values
  PROVE  Generated(f \o SectionLines(s, v))
BY SectionAppended DEF Generated

-----------------------------------------------------------------------------
(* What is written is lines.                                               *)

\* Two lines that run into each other are one.
LEMMA GlueType ==
  ASSUME NEW a \in Line, NEW b \in Line
  PROVE  Glue(a, b) \in Line
<1>1. CASE a.is = "blank"
  BY <1>1 DEF Glue
<1>2. CASE a.is = "key"
  BY <1>2 DEF Glue, Line
<1>3. CASE a.is \in {"header", "comment"}
  BY <1>3 DEF Glue, Line
<1> QED
  BY <1>1, <1>2, <1>3 DEF Line

\* Lines written behind lines.
LEMMA WrittenType ==
  ASSUME NEW f \in Seq(Line), NEW g \in Seq(Line)
  PROVE  Written(f, g) \in Seq(Line)
<1>1. f \o g \in Seq(Line)
  BY ConcatProperties
<1>2. CASE ~(f = <<>> \/ g = <<>> \/ Last(f).nl)
  <2> DEFINE a == Front(f)
             b == <<Glue(Last(f), Head(g))>>
             c == Tail(g)
  <2>1. f # <<>> /\ g # <<>>
    BY <1>2
  <2>2. Last(f) \in Line /\ Head(g) \in Line /\ c \in Seq(Line)
    BY <2>1 DEF Last
  <2>3. a \in Seq(Line)
    BY <2>1 DEF Front
  <2>4. b \in Seq(Line)
    <3> DEFINE x == Glue(Last(f), Head(g))
    <3>1. x \in Line
      BY <2>2, GlueType
    <3> HIDE DEF x
    <3>2. <<x>> \in Seq(Line)
      BY <3>1
    <3> QED
      BY <3>2 DEF x
  <2>5. Written(f, g) = a \o b \o c
    BY <1>2 DEF Written
  <2> HIDE DEF a, b, c
  <2>6. (a \o b) \o c \in Seq(Line)
    BY <2>2, <2>3, <2>4, ConcatProperties
  <2> QED
    BY <2>5, <2>6
<1> QED
  BY <1>1, <1>2 DEF Written

\* What set writes is lines.
LEMMA SetLinesType ==
  ASSUME NEW f \in Seq(Line), NEW s \in Sections, NEW k \in ConfKeys, NEW v \in Values
  PROVE  SetLines(f, s, k, v) \in Seq(Line)
<1>0. Len(f) \in Nat /\ DOMAIN f = 1 .. Len(f)
  BY LineFacts
<1> DEFINE x == KeyLine(k, v)
           h == Header(s)
           b == TextLine("blank")
<1>1. x \in Line /\ h \in Line /\ b \in Line
  BY NewLines
<1>2. CASE KeysOf(f, s, k) # {}
  <2> DEFINE K == KeysOf(f, s, k)
             m == Min(K)
  <2>1. K \subseteq 0 .. Len(f) /\ K # {} /\ K \subseteq DOMAIN f
    BY <1>0, <1>2 DEF KeysOf
  <2>2. m \in K
    <3> HIDE DEF K
    <3> QED
      BY <1>0, <2>1, MaxMin
  <2>3. SetLines(f, s, k, v) = [f EXCEPT ![m] = x]
    BY <1>2 DEF SetLines
  <2>4. m \in DOMAIN f
    BY <2>1, <2>2
  <2> HIDE DEF m, x
  <2>5. [f EXCEPT ![m] = x] \in Seq(Line)
    BY <1>1, <2>4
  <2> QED
    BY <2>3, <2>5
<1>3. CASE KeysOf(f, s, k) = {} /\ HeadersOf(f, s) # {}
  <2> DEFINE H == HeadersOf(f, s)
             m == Max(H)
             text == {i \in m + 1 .. EndOf(f, m) - 1 : f[i].is # "blank"}
             n == IF text = {} THEN EndOf(f, m) - 1 ELSE Max(text)
             A == SubSeq(f, 1, n)
             C == SubSeq(f, n + 1, Len(f))
  <2>1. m \in H
    <3>1. H \subseteq 0 .. Len(f) /\ H # {}
      BY <1>0, <1>3 DEF HeadersOf, Headers
    <3> HIDE DEF H
    <3> QED
      BY <1>0, <3>1, MaxMin
  <2>2. m \in Headers(f) /\ m \in DOMAIN f
    BY <2>1 DEF HeadersOf, Headers
  <2>3. SetLines(f, s, k, v) = Written(Written(A, <<x>>), C)
    BY <1>3 DEF SetLines, Added
  <2> HIDE DEF m, x
  <2>4. EndOf(f, m) \in m + 1 .. Len(f) + 1
    BY <2>2, EndIs
  <2>5. n \in 0 .. Len(f)
    <3>1. CASE text = {}
      BY <1>0, <2>2, <2>4, <3>1
    <3>2. CASE text # {}
      <4>1. text \subseteq 0 .. Len(f)
        BY <1>0, <2>2, <2>4
      <4> HIDE DEF text
      <4>2. Max(text) \in text
        BY <1>0, <3>2, <4>1, MaxMin
      <4> QED
        BY <3>2, <4>1, <4>2
    <3> QED
      BY <3>1, <3>2
  <2> HIDE DEF n
  <2>6. A \in Seq(Line) /\ C \in Seq(Line) /\ <<x>> \in Seq(Line)
    BY <1>0, <1>1, <2>5
  <2> HIDE DEF A, C
  <2>7. Written(A, <<x>>) \in Seq(Line)
    BY <2>6, WrittenType
  <2>8. Written(Written(A, <<x>>), C) \in Seq(Line)
    BY <2>6, <2>7, WrittenType
  <2> QED
    BY <2>3, <2>8
<1>4. CASE KeysOf(f, s, k) = {} /\ HeadersOf(f, s) = {}
  <2> DEFINE gap == IF f # <<>> /\ Last(f).nl /\ Last(f).is # "blank" THEN <<b>> ELSE <<>>
             y == <<h, x>>
  <2>1. SetLines(f, s, k, v) = Written(f, gap \o y)
    BY <1>4 DEF SetLines, WithSection
  <2> HIDE DEF b, h, x
  <2>2. gap \in Seq(Line) /\ y \in Seq(Line)
    BY <1>1
  <2> HIDE DEF gap, y
  <2>3. gap \o y \in Seq(Line)
    BY <2>2, ConcatProperties
  <2> QED
    BY <2>1, <2>3, WrittenType
<1> QED
  BY <1>2, <1>3, <1>4

\* What del leaves is lines.
LEMMA DelKeyType ==
  ASSUME NEW f \in Seq(Line), NEW s, NEW k, KeysOf(f, s, k) # {}
  PROVE  DelKeyLines(f, s, k) \in Seq(Line)
<1> DEFINE K == KeysOf(f, s, k)
           m == Min(K)
<1>0. Len(f) \in Nat /\ DOMAIN f = 1 .. Len(f)
  BY LineFacts
<1>1. K \subseteq 0 .. Len(f) /\ K # {} /\ K \subseteq DOMAIN f
  BY <1>0 DEF KeysOf
<1>2. m \in DOMAIN f
  <2> HIDE DEF K
  <2> QED
    BY <1>0, <1>1, MaxMin
<1>3. DelKeyLines(f, s, k) = Without(f, m, m + 1)
  BY DEF DelKeyLines
<1> HIDE DEF m
<1>4. m + 1 \in m + 1 .. Len(f) + 1
  BY <1>0, <1>2
<1> QED
  BY <1>2, <1>3, <1>4, WithoutLines

\* And so of a section.
LEMMA DelSectionType ==
  ASSUME NEW f \in Seq(Line), NEW s, HeadersOf(f, s) # {}
  PROVE  DelSectionLines(f, s) \in Seq(Line)
<1> DEFINE H == HeadersOf(f, s)
           m == Max(H)
<1>0. Len(f) \in Nat /\ DOMAIN f = 1 .. Len(f)
  BY LineFacts
<1>1. H \subseteq 0 .. Len(f) /\ H # {} /\ H \subseteq Headers(f)
  BY <1>0 DEF HeadersOf, Headers
<1>2. m \in Headers(f)
  <2> HIDE DEF H
  <2> QED
    BY <1>0, <1>1, MaxMin
<1>3. DelSectionLines(f, s) = Without(f, m, EndOf(f, m))
  BY DEF DelSectionLines
<1> HIDE DEF m
<1>4. m \in DOMAIN f /\ EndOf(f, m) \in m + 1 .. Len(f) + 1
  BY <1>2, EndIs DEF Headers
<1> QED
  BY <1>3, <1>4, WithoutLines

-----------------------------------------------------------------------------
(* The commands, step by step.                                             *)

Busy == {"ask", "read", "open", "servers", "noinput", "flush", "chmod", "rename"}
Decided == {"open", "servers", "noinput", "flush", "chmod", "rename"}

Jobs ==
  [pc : Ended \union Busy, cmd : {"none", "init", "set", "del"}, section : Sections \union {""},
   key : ConfKeys \union {""}, val : Values \union {NoValue}]

\* The command and what it was given.
Ordered ==
  /\ job \in Jobs
  /\ job.cmd = "set" => job.section \in Sections /\ job.key \in ConfKeys /\ job.val \in Values
  /\ job.cmd = "del" => job.section \in Sections /\ job.key \in ConfKeys \union {""}
  /\ job.pc = "read" => job.cmd \in {"set", "del"}
  /\ job.pc \in {"ask", "servers", "noinput"} => job.cmd = "init"

\* What it has decided to write is made of the file that is there.
Meant(f) ==
  \/ job.cmd = "init" /\ Generated(out)
  \/ job.cmd = "set" /\ out = SetLines(f, job.section, job.key, job.val)
  \/ /\ job.cmd = "del" /\ job.key # "" /\ KeysOf(f, job.section, job.key) # {}
     /\ out = DelKeyLines(f, job.section, job.key)
  \/ /\ job.cmd = "del" /\ job.key = "" /\ HeadersOf(f, job.section) # {}
     /\ out = DelSectionLines(f, job.section)

\* And what is written when the file is renamed is what it decided.
JobInv ==
  /\ Ordered
  /\ tmp \in [exists : BOOLEAN, lines : {tmp.lines}, mode : {"umask", "0600"}]
  /\ job.pc \in Decided => Meant(conf.lines)
  /\ job.pc \in {"chmod", "rename"} => tmp.lines = out

\* The names of the places are different.
LEMMA Places ==
  /\ Ended = {"idle", "success", "failure", "killed"}
  /\ Ended \intersect Busy = {} /\ Decided \subseteq Busy
BY DEF Ended, Busy, Decided

\* What Goto does to a job.
LEMMA GotoIs ==
  ASSUME Ordered, NEW pc \in Ended \union Busy
  PROVE  Goto(pc) => /\ job' \in Jobs /\ job'.pc = pc
                     /\ job'.cmd = job.cmd /\ job'.section = job.section
                     /\ job'.key = job.key /\ job'.val = job.val
BY DEF Goto, Ordered, Jobs

\* A job that ends leaves nothing to do.
LEMMA EndIsQuiet ==
  ASSUME JobInv, NEW pc \in Ended, End(pc),
         tmp' \in [exists : BOOLEAN, lines : {tmp'.lines}, mode : {"umask", "0600"}]
  PROVE  JobInv'
<1>1. job' = NoJob(pc)
  BY DEF End
<1>2. /\ job' \in Jobs /\ job'.pc = pc /\ job'.cmd = "none"
  BY <1>1 DEF NoJob, Jobs
<1>3. /\ pc \notin Decided /\ pc # "read" /\ pc # "ask" /\ pc # "servers" /\ pc # "noinput"
      /\ pc # "chmod" /\ pc # "rename"
  BY DEF Ended, Decided
<1> QED
  BY <1>2, <1>3 DEF JobInv, Ordered

\* The invariant holds at first.
LEMMA JobInit == Init => JobInv
<1> SUFFICES ASSUME Init PROVE JobInv
  OBVIOUS
<1>1. job \in Jobs /\ job.pc = "idle" /\ job.cmd = "none"
  BY DEF Init, NoJob, Jobs, Ended
<1>2. tmp \in [exists : BOOLEAN, lines : {tmp.lines}, mode : {"umask", "0600"}]
  BY DEF Init, NoFile
<1> QED
  BY <1>1, <1>2 DEF JobInv, Ordered, Decided

\* A command goes on and means what it meant.
LEMMA GoesOn ==
  ASSUME JobInv, NEW pc \in {"servers", "noinput", "flush", "chmod", "rename"}, Goto(pc),
         pc \in {"servers", "noinput"} => job.cmd = "init",
         job.pc \in Decided, out' = out, conf' = conf,
         tmp' \in [exists : BOOLEAN, lines : {tmp'.lines}, mode : {"umask", "0600"}],
         pc \in {"chmod", "rename"} => tmp'.lines = out
  PROVE  JobInv'
<1>1. /\ job' \in Jobs /\ job'.pc = pc /\ job'.cmd = job.cmd /\ job'.section = job.section
      /\ job'.key = job.key /\ job'.val = job.val
  BY GotoIs DEF JobInv, Busy
<1>2. Ordered'
  BY <1>1 DEF JobInv, Ordered
<1>3. Meant(conf.lines)'
  BY <1>1 DEF JobInv, Meant
<1> QED
  BY <1>1, <1>2, <1>3 DEF JobInv

\* Every step keeps it.
LEMMA JobStep == JobInv /\ [Next]_vars => JobInv'
<1> SUFFICES ASSUME JobInv, [Next]_vars PROVE JobInv'
  OBVIOUS
<1> DEFINE Shape(file) == file \in [exists : BOOLEAN, lines : {file.lines}, mode : {"umask", "0600"}]
<1>0. Ordered /\ Shape(tmp)
  BY DEF JobInv
<1>1. CASE Start
  <2>1. /\ job' \in Jobs /\ job'.pc \in {"ask", "read"}
        /\ job'.pc = "ask" => job'.cmd = "init"
        /\ job'.pc = "read" => job'.cmd \in {"set", "del"}
        /\ job'.cmd = "set" => job'.section \in Sections /\ job'.key \in ConfKeys /\ job'.val \in Values
        /\ job'.cmd = "del" => job'.section \in Sections /\ job'.key \in ConfKeys \union {""}
    <3>1. CASE job' = [NoJob("ask") EXCEPT !.cmd = "init"]
      BY <3>1 DEF NoJob, Jobs, Busy
    <3>2. CASE \E s \in Sections, k \in ConfKeys, v \in Values :
                 job' = [pc |-> "read", cmd |-> "set", section |-> s, key |-> k, val |-> v]
      <4>1. PICK s \in Sections, k \in ConfKeys, v \in Values :
              job' = [pc |-> "read", cmd |-> "set", section |-> s, key |-> k, val |-> v]
        BY <3>2
      <4>2. /\ job'.pc = "read" /\ job'.cmd = "set"
            /\ job'.section = s /\ job'.key = k /\ job'.val = v
        BY <4>1
      <4>3. job' \in Jobs
        BY <4>1 DEF Jobs, Busy
      <4> QED
        BY <4>2, <4>3
    <3>3. CASE \E s \in Sections, k \in ConfKeys \union {""} :
                 job' = [pc |-> "read", cmd |-> "del", section |-> s, key |-> k, val |-> NoValue]
      <4>1. PICK s \in Sections, k \in ConfKeys \union {""} :
              job' = [pc |-> "read", cmd |-> "del", section |-> s, key |-> k, val |-> NoValue]
        BY <3>3
      <4>2. job'.pc = "read" /\ job'.cmd = "del" /\ job'.section = s /\ job'.key = k
        BY <4>1
      <4>3. job' \in Jobs
        BY <4>1 DEF Jobs, Busy
      <4> QED
        BY <4>2, <4>3
    <3> QED
      BY <1>1, <3>1, <3>2, <3>3 DEF Start
  <2>2. job'.pc \notin Decided /\ job'.pc \notin {"chmod", "rename", "servers", "noinput"}
    BY <2>1 DEF Decided
  <2>3. tmp' = tmp
    BY <1>1 DEF Start
  <2> QED
    BY <1>0, <2>1, <2>2, <2>3 DEF JobInv, Ordered
<1>2. CASE ReadConf
  <2>0. job.pc = "read" /\ job.cmd \in {"set", "del"} /\ tmp' = tmp /\ conf' = conf
    BY <1>0, <1>2 DEF ReadConf, Ordered
  <2>1. CASE End("failure")
    BY <1>0, <2>0, <2>1, EndIsQuiet DEF Ended
  <2>2. CASE ~End("failure")
    <3>1. Goto("open") /\ Meant(conf.lines)' /\ job' \in Jobs /\ job'.pc = "open"
          /\ job'.cmd = job.cmd /\ job'.section = job.section
          /\ job'.key = job.key /\ job'.val = job.val
      <4>1. Goto("open")
        BY <1>2, <2>2 DEF ReadConf
      <4>2. /\ job' \in Jobs /\ job'.pc = "open" /\ job'.cmd = job.cmd
            /\ job'.section = job.section /\ job'.key = job.key /\ job'.val = job.val
        BY <1>0, <4>1, GotoIs DEF Busy
      <4>3. Meant(conf.lines)'
        BY <1>2, <2>0, <2>2, <4>2 DEF ReadConf, Meant
      <4> QED
        BY <4>1, <4>2, <4>3
    <3> QED
      BY <1>0, <2>0, <3>1 DEF JobInv, Ordered
  <2> QED
    BY <2>1, <2>2
<1>3. CASE Ask
  <2>0. job.pc = "ask" /\ job.cmd = "init" /\ tmp' = tmp /\ conf' = conf
    BY <1>0, <1>3 DEF Ask, Ordered
  <2>1. CASE End("failure")
    BY <1>0, <2>0, <2>1, EndIsQuiet DEF Ended
  <2>2. CASE Goto("open") /\ ~End("failure")
    <3>1. /\ job' \in Jobs /\ job'.pc = "open" /\ job'.cmd = "init"
      BY <1>0, <2>0, <2>2, GotoIs DEF Busy
    <3>2. Generated(out')
      BY <1>3, <2>2, GeneratedFirst DEF Ask
    <3>3. Meant(conf.lines)'
      BY <3>1, <3>2 DEF Meant
    <3> QED
      BY <1>0, <2>0, <3>1, <3>3 DEF JobInv, Ordered
  <2> QED
    BY <1>3, <2>1, <2>2 DEF Ask
<1>4. CASE OpenTmp
  <2>1. Shape(tmp')
    BY <1>0, <1>4 DEF OpenTmp
  <2>2. CASE job.cmd = "init"
    BY <1>4, <2>1, <2>2, GoesOn DEF OpenTmp, Decided
  <2>3. CASE job.cmd # "init"
    BY <1>4, <2>1, <2>3, GoesOn DEF OpenTmp, Decided
  <2> QED
    BY <2>2, <2>3
<1>5. CASE AskServer
  <2>0. job.pc = "servers" /\ job.cmd = "init" /\ tmp' = tmp /\ conf' = conf
    BY <1>0, <1>5 DEF AskServer, Ordered
  <2>1. ASSUME NEW s \in Sections, NEW v \in Values,
               out' = out \o SectionLines(s, v), job' = job
        PROVE  JobInv'
    <3>1. Generated(out)
      BY <2>0 DEF JobInv, Meant, Decided
    <3>2. Generated(out')
      BY <2>1, <3>1, GeneratedNext
    <3>3. Meant(conf.lines)'
      BY <2>0, <2>1, <3>2 DEF Meant
    <3> QED
      BY <1>0, <2>0, <2>1, <3>3 DEF JobInv, Ordered
  <2>2. CASE Goto("flush") /\ UNCHANGED out
    BY <1>0, <2>0, <2>2, GoesOn DEF Decided
  <2>3. CASE Goto("noinput") /\ UNCHANGED out
    BY <1>0, <2>0, <2>3, GoesOn DEF Decided
  <2> QED
    BY <1>5, <2>1, <2>2, <2>3 DEF AskServer
<1>6. CASE Flush
  <2>1. Shape(tmp') /\ tmp'.lines = out
    BY <1>0, <1>6 DEF Flush
  <2>2. CASE job.cmd = "del"
    BY <1>6, <2>1, <2>2, GoesOn DEF Flush, Decided
  <2>3. CASE job.cmd # "del"
    BY <1>6, <2>1, <2>3, GoesOn DEF Flush, Decided
  <2> QED
    BY <2>2, <2>3
<1>7. CASE Chmod
  <2>1. Shape(tmp') /\ tmp'.lines = tmp.lines
    BY <1>0, <1>7 DEF Chmod
  <2>2. tmp.lines = out
    BY <1>7 DEF Chmod, JobInv
  <2> QED
    BY <1>7, <2>1, <2>2, GoesOn DEF Chmod, Decided
<1>8. CASE Rename
  <2>1. Shape(tmp')
    BY <1>8 DEF Rename, NoFile
  <2> QED
    BY <1>8, <2>1, EndIsQuiet DEF Rename, Ended
<1>9. CASE Crash
  <2>1. Shape(tmp')
    <3>1. CASE UNCHANGED tmp
      BY <1>0, <3>1
    <3>2. CASE tmp' = [tmp EXCEPT !.lines = SubSeq(out, 1, Len(out) \div 2)]
      BY <1>0, <3>2
    <3> QED
      BY <1>9, <3>1, <3>2 DEF Crash
  <2> QED
    BY <1>9, <2>1, EndIsQuiet DEF Crash, Ended
<1>10. CASE UNCHANGED vars
  BY <1>10 DEF vars, JobInv, Ordered, Meant
<1> QED
  BY <1>1, <1>2, <1>3, <1>4, <1>5, <1>6, <1>7, <1>8, <1>9, <1>10 DEF Next, Step

\* So it always holds.
LEMMA JobsAsMeant == Spec => []JobInv
<1>1. Init => JobInv
  BY JobInit
<1>2. JobInv /\ [Next]_vars => JobInv'
  BY JobStep
<1> QED
  BY <1>1, <1>2, PTL DEF Spec

\* The file changes when a command succeeds, and becomes what it meant to write.
LEMMA ChangedByRename ==
  ASSUME JobInv, [Next]_vars, conf' # conf \/ (job'.pc = "success" /\ job.pc \notin Ended)
  PROVE  /\ conf'.lines = out /\ job'.pc = "success" /\ Meant(conf.lines)
         /\ job.pc \notin Ended
<1>0. Rename
  <2>1. CASE Start
    <3>1. job.pc \in Ended /\ conf' = conf
      BY <2>1 DEF Start
    <3> QED
      BY <3>1
  <2>2. ASSUME conf' = conf, \E pc \in (Ended \union Busy) \ {"success"} : Goto(pc) \/ End(pc)
        PROVE  FALSE
    <3>1. PICK pc \in (Ended \union Busy) \ {"success"} : Goto(pc) \/ End(pc)
      BY <2>2
    <3>2. job'.pc = pc
      <4>1. CASE Goto(pc)
        BY <4>1, GotoIs DEF JobInv
      <4>2. CASE End(pc)
        BY <4>2 DEF End, NoJob
      <4> QED
        BY <3>1, <4>1, <4>2
    <3> QED
      BY <2>2, <3>2
  <2>3. CASE ReadConf
    BY <2>2, <2>3 DEF ReadConf, Ended, Busy
  <2>4. CASE Ask
    BY <2>2, <2>4 DEF Ask, Ended, Busy
  <2>5. CASE OpenTmp
    BY <2>2, <2>5 DEF OpenTmp, Ended, Busy
  <2>6. CASE AskServer
    <3>1. CASE job' = job
      BY <2>6, <3>1 DEF AskServer
    <3> QED
      BY <2>2, <2>6, <3>1 DEF AskServer, Ended, Busy
  <2>7. CASE Flush
    BY <2>2, <2>7 DEF Flush, Ended, Busy
  <2>8. CASE Chmod
    BY <2>2, <2>8 DEF Chmod, Ended, Busy
  <2>9. CASE Crash
    BY <2>2, <2>9 DEF Crash, Ended, Busy
  <2>10. CASE UNCHANGED vars
    BY <2>10 DEF vars, Ended
  <2> QED
    BY <2>1, <2>3, <2>4, <2>5, <2>6, <2>7, <2>8, <2>9, <2>10 DEF Next, Step
<1>1. job.pc = "rename" /\ conf' = tmp /\ End("success")
  BY <1>0 DEF Rename
<1> QED
  BY <1>1 DEF JobInv, Decided, Ended, End, NoJob

\* UpdatedAtomically, for any files: the file is what one of the commands left, and
\* no kill leaves half of it.
THEOREM WholeOrNothing == Spec => UpdatedAtomically
<1>1. JobInv /\ [Next]_vars => (conf' # conf => conf'.lines = out /\ job'.pc = "success")
  BY ChangedByRename
<1> QED
  BY <1>1, JobsAsMeant, PTL DEF Spec, UpdatedAtomically

-----------------------------------------------------------------------------
(* The file is lines, and proper where it was. *)

FileInv == JobInv /\ conf.lines \in Seq(Line)

\* The file is lines before the first command.
LEMMA FileInit == Init => FileInv
<1> SUFFICES ASSUME Init PROVE conf.lines \in Seq(Line)
  BY JobInit DEF FileInv
<1>1. CASE conf = NoFile
  BY <1>1 DEF NoFile
<1>2. CASE \E f \in Files : conf = File(f, "0600")
  BY <1>2, ConfigAssumption DEF File
<1> QED
  BY <1>1, <1>2 DEF Init

\* What a command meant to write is lines, and set and del write a neat file when they
\* have read one.
LEMMA MeantIs ==
  ASSUME NEW f \in Seq(Line), Ordered, Meant(f)
  PROVE  /\ out \in Seq(Line)
         /\ job.cmd # "init" /\ Neat(f) => Neat(out)
<1>1. CASE job.cmd = "init" /\ Generated(out)
  BY <1>1 DEF Generated, Hosts
<1>2. CASE job.cmd = "set" /\ out = SetLines(f, job.section, job.key, job.val)
  <2>1. job.section \in Sections /\ job.key \in ConfKeys /\ job.val \in Values
    BY <1>2 DEF Ordered
  <2>2. Neat(f) =>
          SetDone(f, SetLines(f, job.section, job.key, job.val), job.section, job.key, job.val)
    BY <2>1, SetLinesDone
  <2>3. SetLines(f, job.section, job.key, job.val) \in Seq(Line)
    BY <2>1, SetLinesType
  <2> QED
    BY <1>2, <2>2, <2>3 DEF SetDone
<1>3. CASE /\ job.cmd = "del" /\ job.key # "" /\ KeysOf(f, job.section, job.key) # {}
           /\ out = DelKeyLines(f, job.section, job.key)
  <2>1. job.section \in Sections /\ job.key \in ConfKeys
    BY <1>3 DEF Ordered
  <2>2. DelKeyLines(f, job.section, job.key) \in Seq(Line)
    BY <1>3, DelKeyType
  <2> QED
    BY <1>3, <2>1, <2>2, DelKeyDone
<1>4. CASE /\ job.cmd = "del" /\ job.key = "" /\ HeadersOf(f, job.section) # {}
           /\ out = DelSectionLines(f, job.section)
  <2>1. job.section \in Sections
    BY <1>4 DEF Ordered
  <2>2. DelSectionLines(f, job.section) \in Seq(Line)
    BY <1>4, DelSectionType
  <2> QED
    BY <1>4, <2>1, <2>2, DelSectionDone
<1> QED
  BY <1>1, <1>2, <1>3, <1>4 DEF Meant

\* Every step leaves lines.
LEMMA FileStep == FileInv /\ [Next]_vars => FileInv'
<1> SUFFICES ASSUME FileInv, [Next]_vars PROVE FileInv'
  OBVIOUS
<1>1. JobInv'
  BY JobStep DEF FileInv
<1>2. CASE conf' = conf
  BY <1>1, <1>2 DEF FileInv
<1>3. CASE conf' # conf
  <2>1. conf'.lines = out /\ Meant(conf.lines)
    BY <1>3, ChangedByRename DEF FileInv
  <2>2. out \in Seq(Line)
    BY <2>1, MeantIs DEF FileInv, JobInv
  <2> QED
    BY <1>1, <2>1, <2>2 DEF FileInv
<1> QED
  BY <1>2, <1>3

\* So it always is.
LEMMA FilesAreLines == Spec => []FileInv
<1>1. Init => FileInv
  BY FileInit
<1>2. FileInv /\ [Next]_vars => FileInv'
  BY FileStep
<1> QED
  BY <1>1, <1>2, PTL DEF Spec

\* StaysProper: whatever the files to begin with and the servers that init was given,
\* set and del leave a proper file proper.
THEOREM FilesStayProper == Spec => StaysProper
<1>1. ASSUME FileInv, [Next]_vars, job.cmd \in {"set", "del"}, Proper(conf.lines)
      PROVE  Proper(conf'.lines)
  <2>1. CASE conf' = conf
    BY <1>1, <2>1
  <2>2. CASE conf' # conf
    <3>1. conf'.lines = out /\ Meant(conf.lines) /\ Ordered /\ conf.lines \in Seq(Line)
      BY <1>1, <2>2, ChangedByRename DEF FileInv, JobInv
    <3>2. Neat(conf.lines)
      BY <1>1, <3>1, ProperIsNeat
    <3>3. out \in Seq(Line) /\ Neat(out)
      BY <1>1, <3>1, <3>2, MeantIs
    <3>4. Proper(out)
      BY <3>3, ProperIsNeat
    <3> QED
      BY <3>1, <3>4
  <2> QED
    BY <2>1, <2>2
<1>2. FileInv /\ [Next]_vars =>
        [job.cmd \in {"set", "del"} /\ Proper(conf.lines) => Proper(conf'.lines)]_vars
  BY <1>1
<1> QED
  BY <1>2, FilesAreLines, PTL DEF Spec, StaysProper

\* What get says of a file that init wrote: a host in every section, the first of those
\* of one name, and nothing else.
LEMMA GeneratedGet ==
  ASSUME NEW f, Hosts(f), NEW s \in Sections, NEW k \in ConfKeys
  PROVE  IF HasSec(f, s) /\ k = Host THEN Get(f, s, k) \in Values ELSE Get(f, s, k) = NoValue
<1> DEFINE H == HeadersOf(f, s)
           K == KeysOf(f, s, k)
           h == Min(H)
           seen == {i \in K : \A j \in h .. i : Within(f, j, s)}
<1>0. f \in Seq(Line) /\ Len(f) \in Nat /\ DOMAIN f = 1 .. Len(f)
  BY DEF Hosts
<1>1. Get(f, s, k) = IF seen = {} THEN NoValue ELSE f[Min(seen)].val
  BY DEF Get
<1>2. \A i \in K : i \in DOMAIN f /\ f[i].is = "key" /\ f[i].name = k
  BY DEF KeysOf
<1>3. CASE k # Host
  <2>1. seen = {}
    BY <1>2, <1>3 DEF Hosts
  <2> QED
    BY <1>1, <1>3, <2>1
<1>4. CASE ~HasSec(f, s)
  <2>1. K = {}
    BY <1>4, SectionIs DEF KeysOf, Within
  <2> QED
    BY <1>1, <1>4, <2>1
<1>5. CASE HasSec(f, s) /\ k = Host
  <2>1. h \in H
    <3>1. H \subseteq 0 .. Len(f) /\ H # {}
      BY <1>0, <1>5, SectionIs DEF HeadersOf, Headers
    <3> HIDE DEF H
    <3> QED
      BY <1>0, <3>1, MaxMin
  <2>2. h \in DOMAIN f /\ f[h].is = "header" /\ f[h].name = s
    BY <2>1 DEF HeadersOf, Headers
  <2> HIDE DEF h
  <2>3. h + 1 \in DOMAIN f /\ f[h + 1].is = "key" /\ f[h + 1].name = k
    BY <1>5, <2>2 DEF Hosts
  <2>4. ASSUME NEW j \in h .. h + 1 PROVE Within(f, j, s)
    <3>1. j \in {h, h + 1} /\ j \in DOMAIN f
      BY <1>0, <2>2, <2>3, <2>4
    <3>2. InSec(f, h, j)
      BY <1>0, <2>2, <2>3, <3>1 DEF InSec
    <3>3. Under(f, j) # 0
      BY <1>0, <2>2, <3>1, <3>2, UnderIs
    <3>4. Under(f, j) \in DOMAIN f /\ InSec(f, Under(f, j), j)
      BY <1>0, <3>1, <3>3, UnderIs
    <3>5. Under(f, j) = h
      BY <1>0, <2>2, <3>1, <3>2, <3>4, OneSection
    <3> QED
      BY <2>1, <3>5 DEF Within
  <2>5. h + 1 \in seen
    <3>1. h + 1 \in h .. h + 1
      BY <1>0, <2>2
    <3>2. h + 1 \in K
      BY <2>3, <2>4, <3>1 DEF KeysOf
    <3> QED
      BY <2>4, <3>2
  <2>6. seen \subseteq 0 .. Len(f) /\ seen \subseteq K
    BY <1>0, <1>2
  <2> HIDE DEF seen
  <2>7. Min(seen) \in seen
    BY <1>0, <2>5, <2>6, MaxMin
  <2>8. f[Min(seen)].val \in Values
    BY <1>2, <2>6, <2>7 DEF Hosts
  <2> QED
    BY <1>1, <1>5, <2>5, <2>8
<1> QED
  BY <1>3, <1>4, <1>5

\* The table of a file that init wrote.
LEMMA GeneratedTable ==
  ASSUME NEW f, Generated(f)
  PROVE  /\ PresentIn(f) \in {ss \in SUBSET Sections : MainSection \in ss}
         /\ TableIn(f) \in Table!Contents
         /\ \A s \in Sections, k \in ConfKeys :
              TableIn(f)[s][k] # NoValue <=> s \in PresentIn(f) /\ k = Host
<1>0. MainSection \in Sections /\ Host \in ConfKeys /\ NoValue \notin Values
  BY ConfigAssumption
<1>1. \A s \in Sections : s \in PresentIn(f) <=> HasSec(f, s)
  BY SectionIs DEF PresentIn
<1>2. \A s \in Sections, k \in ConfKeys :
        /\ Get(f, s, k) \in Values \union {NoValue}
        /\ Get(f, s, k) # NoValue <=> s \in PresentIn(f) /\ k = Host
  <2> TAKE s \in Sections, k \in ConfKeys
  <2>1. IF HasSec(f, s) /\ k = Host THEN Get(f, s, k) \in Values ELSE Get(f, s, k) = NoValue
    BY GeneratedGet DEF Generated
  <2> QED
    BY <1>0, <1>1, <2>1
<1>3. PresentIn(f) \subseteq Sections /\ MainSection \in PresentIn(f)
  BY <1>0, <1>1 DEF PresentIn, Generated
<1>4. TableIn(f) \in Table!Contents
  BY <1>2 DEF TableIn, Table!Contents
<1> QED
  BY <1>2, <1>3, <1>4 DEF TableIn

\* TableRefinement: ConfigFile implements ConfigTable, step by step, set and del where
\* the file is proper, and init whatever the names it was given.
THEOREM ImplementsTable == Spec => TableRefinement
<1> DEFINE Done == \/ job.cmd = "init" /\ Table!Generate
                   \/ job.cmd # "init" /\ ~Proper(conf.lines)
                   \/ job.cmd = "set" /\ Table!Set(job.section, job.key, job.val)
                   \/ job.cmd = "del" /\ job.key = "" /\ Table!DelSection(job.section)
                   \/ job.cmd = "del" /\ job.key # "" /\ Table!DelKey(job.section, job.key)
           f == conf.lines
           g == conf'.lines
<1>1. ASSUME conf' = conf PROVE UNCHANGED Table!tableVars
  BY <1>1 DEF Table!tableVars
<1>2. ASSUME FileInv, [Next]_vars, job'.pc = "success", job.pc \notin Ended,
             job.cmd = "init" \/ Proper(f)
      PROVE  Done
  <2>1. g = out /\ Meant(f) /\ Ordered /\ f \in Seq(Line)
    BY <1>2, ChangedByRename DEF FileInv, JobInv
  <2>0. job.cmd # "init" => Neat(f)
    BY <1>2, <2>1, ProperIsNeat
  <2>2. CASE job.cmd = "init" /\ Generated(out)
    <3>1. Generated(g)
      BY <2>1, <2>2
    <3>2. /\ PresentIn(g) \in {ss \in SUBSET Sections : MainSection \in ss}
          /\ TableIn(g) \in Table!Contents
          /\ \A s \in Sections, k \in ConfKeys :
               TableIn(g)[s][k] # NoValue <=> s \in PresentIn(g) /\ k = Host
      BY <3>1, GeneratedTable
    <3>3. Table!Generate
      BY <3>2 DEF Table!Generate, PresentIn, TableIn
    <3> QED
      BY <2>2, <3>3
  <2>3. CASE job.cmd = "set" /\ out = SetLines(f, job.section, job.key, job.val)
    <3>1. job.section \in Sections /\ job.key \in ConfKeys /\ job.val \in Values
      BY <2>1, <2>3 DEF Ordered
    <3>2. SetDone(f, g, job.section, job.key, job.val)
      BY <2>0, <2>1, <2>3, <3>1, SetLinesDone
    <3>3. /\ PresentIn(g) = PresentIn(f) \union {job.section}
          /\ TableIn(g) = TableWith(f, job.section, job.key, job.val)
      <4>1. Neat(f)
        BY <2>0, <2>3
      <4> HIDE DEF f, g
      <4> QED
        BY <3>1, <3>2, <4>1, SetTable
    <3>4. Table!Set(job.section, job.key, job.val)
      BY <3>3, Zenon DEF Table!Set, PresentIn, TableIn, TableWith
    <3> QED
      BY <2>3, <3>4
  <2>4. CASE /\ job.cmd = "del" /\ job.key # "" /\ KeysOf(f, job.section, job.key) # {}
             /\ out = DelKeyLines(f, job.section, job.key)
    <3>1. job.section \in Sections /\ job.key \in ConfKeys
      BY <2>1, <2>4 DEF Ordered
    <3>2. /\ TableIn(f)[job.section][job.key] # NoValue
          /\ PresentIn(g) = PresentIn(f)
          /\ TableIn(g) = TableWith(f, job.section, job.key, NoValue)
      <4> DEFINE d == DelKeyLines(f, job.section, job.key)
      <4>1. /\ TableIn(f)[job.section][job.key] # NoValue
            /\ PresentIn(d) = PresentIn(f)
            /\ TableIn(d) = TableWith(f, job.section, job.key, NoValue)
        BY <2>0, <2>1, <2>4, <3>1, DelKeyTable
      <4>2. g = d
        BY <2>1, <2>4
      <4> QED
        BY <4>1, <4>2, Zenon
    <3>3. Table!DelKey(job.section, job.key)
      BY <3>2, Zenon DEF Table!DelKey, PresentIn, TableIn, TableWith
    <3> QED
      BY <2>4, <3>3
  <2>5. CASE /\ job.cmd = "del" /\ job.key = "" /\ HeadersOf(f, job.section) # {}
             /\ out = DelSectionLines(f, job.section)
    <3>1. job.section \in Sections
      BY <2>1, <2>5 DEF Ordered
    <3>2. /\ job.section \in PresentIn(f)
          /\ PresentIn(g) = PresentIn(f) \ {job.section}
          /\ TableIn(g) = [TableIn(f) EXCEPT ![job.section] = [k \in ConfKeys |-> NoValue]]
      BY <2>0, <2>1, <2>5, <3>1, DelSectionTable, ZenonT(30)
    <3>3. Table!DelSection(job.section)
      BY <3>2, Zenon DEF Table!DelSection, PresentIn, TableIn
    <3> QED
      BY <2>5, <3>3
  <2> QED
    BY <2>1, <2>2, <2>3, <2>4, <2>5 DEF Meant
<1>3. ASSUME FileInv, [Next]_vars
      PROVE  IF job'.pc # "success" \/ job.pc \in Ended THEN UNCHANGED Table!tableVars ELSE Done
  <2>1. CASE job'.pc # "success" \/ job.pc \in Ended
    <3>1. conf' = conf
      BY <1>3, <2>1, ChangedByRename DEF FileInv
    <3> QED
      BY <1>1, <2>1, <3>1
  <2>2. CASE ~(job'.pc # "success" \/ job.pc \in Ended)
    <3>1. CASE job.cmd = "init" \/ Proper(f)
      BY <1>2, <1>3, <2>2, <3>1
    <3> QED
      BY <2>2, <3>1
  <2> QED
    BY <2>1, <2>2
<1> QED
  BY <1>3, FilesAreLines, PTL DEF Spec, TableRefinement

\* OthersKept: in a proper file set keeps every other line as it is and where it was
\* among the others, and adds nothing but the key, a header and at most one blank line.
THEOREM SetKeepsOthers == Spec => OthersKept
<1>1. ASSUME FileInv, [Next]_vars, job.cmd = "set", job'.pc = "success", Proper(conf.lines),
             UNCHANGED vars => FALSE
      PROVE  Kept(conf.lines, conf'.lines, job.section, job.key)
  <2>0. Ordered /\ JobInv /\ Neat(conf.lines)
    BY <1>1, ProperIsNeat DEF FileInv, JobInv
  <2>1. job.section \in Sections /\ job.key \in ConfKeys /\ job.val \in Values
    BY <1>1, <2>0 DEF Ordered
  <2>2. job.pc \notin Ended
    <3>1. CASE Start
      <4>1. job'.pc \in {"ask", "read"}
        <5>1. CASE job' = [NoJob("ask") EXCEPT !.cmd = "init"]
          BY <5>1 DEF NoJob
        <5>2. CASE job' # [NoJob("ask") EXCEPT !.cmd = "init"]
          <6>1. \E s, k, v, c : job' = [pc |-> "read", cmd |-> c, section |-> s, key |-> k, val |-> v]
            BY <3>1, <5>2 DEF Start
          <6> QED
            BY <6>1
        <5> QED
          BY <5>1, <5>2
      <4> QED
        BY <1>1, <4>1
    <3>2. CASE Step
      BY <3>2 DEF Step, ReadConf, Ask, OpenTmp, AskServer, Flush, Chmod, Rename, Ended
    <3>3. CASE Crash
      BY <3>3 DEF Crash
    <3> QED
      BY <1>1, <3>1, <3>2, <3>3 DEF Next
  <2>3. conf'.lines = out /\ Meant(conf.lines)
    BY <1>1, <2>0, <2>2, ChangedByRename
  <2>4. out = SetLines(conf.lines, job.section, job.key, job.val)
    BY <1>1, <2>3 DEF Meant
  <2>5. Kept(conf.lines, SetLines(conf.lines, job.section, job.key, job.val), job.section, job.key)
    BY <2>0, <2>1, SetLinesDone
  <2> QED
    BY <2>3, <2>4, <2>5
<1>2. FileInv /\ [Next]_vars =>
        [job.cmd = "set" /\ job'.pc = "success" /\ Proper(conf.lines)
           => Kept(conf.lines, conf'.lines, job.section, job.key)]_vars
  BY <1>1
<1> QED
  BY <1>2, FilesAreLines, PTL DEF Spec, OthersKept
=============================================================================
