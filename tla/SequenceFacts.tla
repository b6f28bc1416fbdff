----------------------------- MODULE SequenceFacts -----------------------------
(***************************************************************************)
(* Facts about sequences that the proofs of the components share:          *)
(* induction on the natural numbers and on sequences, stated with the set  *)
(* of the elements that have the property (the library's induction         *)
(* theorems take the property as an operator), and what FlattenSeq         *)
(* computes for sequences of every length.                                 *)
(***************************************************************************)
EXTENDS Integers, SequencesExt, SequenceTheorems, WellFoundedInduction, TLAPS

\* Every non-empty set of natural numbers has a least element.
LEMMA LeastNatural ==
  ASSUME NEW T, T \subseteq Nat, T # {}
  PROVE  \E n \in T : \A m \in T : n <= m
<1>1. PICK n \in T : \A m \in T : ~ (<<m, n>> \in OpToRel(<, Nat))
  BY NatLessThanWellFounded, WFMin, Zenon
<1>2. \A m \in T : ~(m < n)
  BY <1>1 DEF OpToRel
<1> QED
  BY <1>2

\* Induction: a set with 0 in it, and with each number the next one, holds them all.
LEMMA SetInduction ==
  ASSUME NEW T, 0 \in T, \A n \in Nat : n \in T => n + 1 \in T
  PROVE  Nat \subseteq T
<1> SUFFICES ASSUME Nat \ T # {} PROVE FALSE
  OBVIOUS
<1>1. PICK n \in Nat \ T : \A m \in Nat \ T : n <= m
  BY LeastNatural
<1>2. n # 0 /\ n - 1 \in Nat
  BY <1>1
<1>3. n - 1 \in T
  BY <1>1, <1>2
<1> QED
  BY <1>1, <1>2, <1>3

\* Induction on sequences: a set with the empty sequence in it, and with each
\* sequence all that are longer by one element, holds them all.
LEMMA SeqInduction ==
  ASSUME NEW S, NEW T, <<>> \in T,
         \A s \in Seq(S) : \A x \in S : s \in T => Append(s, x) \in T
  PROVE  Seq(S) \subseteq T
<1> DEFINE L == {n \in Nat : \A s \in Seq(S) : Len(s) = n => s \in T}
<1>1. 0 \in L
  BY EmptySeq
<1>2. ASSUME NEW n \in Nat, n \in L PROVE n + 1 \in L
  <2> SUFFICES ASSUME NEW s \in Seq(S), Len(s) = n + 1 PROVE s \in T
    OBVIOUS
  <2> DEFINE front == SubSeq(s, 1, n)
  <2>1. front \in Seq(S) /\ Len(front) = n /\ s[n + 1] \in S
    BY <1>2
  <2>2. s = Append(front, s[n + 1])
    BY <2>1
  <2>3. front \in T
    BY <1>2, <2>1
  <2> HIDE DEF front
  <2> QED
    BY <2>1, <2>2, <2>3
<1> HIDE DEF L
<1>3. Nat \subseteq L
  BY <1>1, <1>2, SetInduction
<1> QED
  BY <1>3 DEF L

-----------------------------------------------------------------------------
(* FlattenSeq.  Its definition is a recursive function, which has to be     *)
(* shown to exist before anything can be said of its values.                *)

Flattens(f, ss, n) ==
  f = [i \in 1 .. n |-> IF i = 1 THEN ss[i] ELSE f[i-1] \o ss[i]]

\* Such a function, at each of its arguments.
LEMMA FlattensAt ==
  ASSUME NEW f, NEW ss, NEW n \in Nat, NEW i \in 1 .. n, Flattens(f, ss, n)
  PROVE  f[i] = IF i = 1 THEN ss[i] ELSE f[i-1] \o ss[i]
<1> DEFINE step(j) == IF j = 1 THEN ss[j] ELSE f[j-1] \o ss[j]
<1>1. f = [j \in 1 .. n |-> step(j)]
  BY Zenon DEF Flattens
<1> HIDE DEF step
<1>2. f[i] = step(i)
  BY <1>1
<1> QED
  BY <1>2 DEF step

\* The function in the definition of FlattenSeq exists, for every length.
LEMMA FlattenExists ==
  ASSUME NEW ss
  PROVE  \A n \in Nat : \E f : Flattens(f, ss, n)
<1> DEFINE L == {n \in Nat : \E f : Flattens(f, ss, n)}
<1>1. 0 \in L
  <2>1. Flattens([i \in 1 .. 0 |-> 0], ss, 0)
    BY 1 .. 0 = {} DEF Flattens
  <2> QED
    BY <2>1
<1>2. ASSUME NEW n \in Nat, n \in L PROVE n + 1 \in L
  <2>1. PICK f : Flattens(f, ss, n)
    BY <1>2
  <2> DEFINE g == [i \in 1 .. n + 1 |->
                     IF i <= n THEN f[i] ELSE IF i = 1 THEN ss[i] ELSE f[i-1] \o ss[i]]
  <2>2. ASSUME NEW i \in 1 .. n + 1
        PROVE  g[i] = IF i = 1 THEN ss[i] ELSE g[i-1] \o ss[i]
    <3>1. i # 1 => g[i-1] = f[i-1]
      OBVIOUS
    <3>2. i <= n => f[i] = IF i = 1 THEN ss[i] ELSE f[i-1] \o ss[i]
      BY <2>1, FlattensAt
    <3> QED
      BY <3>1, <3>2
  <2>3. g = [i \in 1 .. n + 1 |-> g[i]]
    OBVIOUS
  <2> HIDE DEF g
  <2>4. Flattens(g, ss, n + 1)
    BY <2>2, <2>3 DEF Flattens
  <2> QED
    BY <2>4
<1> HIDE DEF L
<1>3. Nat \subseteq L
  BY <1>1, <1>2, SetInduction
<1> QED
  BY <1>3 DEF L

\* What the last value of that function is, it is for FlattenSeq.
LEMMA FlattenIs ==
  ASSUME NEW ss, Len(ss) \in Nat \ {0}
  PROVE  \E f : Flattens(f, ss, Len(ss)) /\ FlattenSeq(ss) = f[Len(ss)]
<1> DEFINE f == CHOOSE f : f = [i \in 1 .. Len(ss) |->
                                  IF i = 1 THEN ss[i] ELSE f[i-1] \o ss[i]]
<1>1. FlattenSeq(ss) = f[Len(ss)]
  BY DEF FlattenSeq
<1>2. Flattens(f, ss, Len(ss))
  BY FlattenExists DEF Flattens
<1> QED
  BY <1>1, <1>2

\* Nothing is made of nothing.
LEMMA FlattenEmpty == FlattenSeq(<<>>) = <<>>
BY DEF FlattenSeq

\* The flattening of a list that is longer by one sequence.
LEMMA FlattenLonger ==
  ASSUME NEW ss, NEW ts, NEW n \in Nat
  PROVE  Len(ss) = n /\ Len(ts) = n + 1 /\ (\A i \in 1 .. n : ts[i] = ss[i]) =>
           FlattenSeq(ts) = IF n = 0 THEN ts[n + 1] ELSE FlattenSeq(ss) \o ts[n + 1]
<1>1. ASSUME NEW f, NEW g, Flattens(f, ss, n), Flattens(g, ts, n + 1),
             \A i \in 1 .. n : ts[i] = ss[i]
      PROVE  g[n + 1] = IF n = 0 THEN ts[n + 1] ELSE f[n] \o ts[n + 1]
  <2>1. \A i \in 1 .. n : f[i] = IF i = 1 THEN ss[i] ELSE f[i-1] \o ss[i]
    BY <1>1, FlattensAt
  <2>2. \A i \in 1 .. n + 1 : g[i] = IF i = 1 THEN ts[i] ELSE g[i-1] \o ts[i]
    <3>1. n + 1 \in Nat
      OBVIOUS
    <3> QED
      BY <1>1, <3>1, FlattensAt, SMTT(30)
  <2> DEFINE L == {i \in Nat : i \in 1 .. n => f[i] = g[i]}
  <2>3. 0 \in L
    OBVIOUS
  <2>4. ASSUME NEW i \in Nat, i \in L PROVE i + 1 \in L
    <3> SUFFICES ASSUME i + 1 \in 1 .. n PROVE f[i + 1] = g[i + 1]
      OBVIOUS
    <3>1. i + 1 \in 1 .. n + 1 /\ (i + 1) - 1 = i /\ (i = 0 \/ i \in 1 .. n)
      OBVIOUS
    <3>2. f[i + 1] = IF i + 1 = 1 THEN ss[i + 1] ELSE f[(i + 1) - 1] \o ss[i + 1]
      BY <2>1
    <3>3. g[i + 1] = IF i + 1 = 1 THEN ts[i + 1] ELSE g[(i + 1) - 1] \o ts[i + 1]
      BY <2>2, <3>1
    <3> QED
      BY <1>1, <2>4, <3>1, <3>2, <3>3
  <2> HIDE DEF L
  <2>5. n \in L
    BY <2>3, <2>4, SetInduction
  <2>6. n + 1 \in 1 .. n + 1 /\ (n + 1) - 1 = n /\ (n + 1 = 1 <=> n = 0)
    OBVIOUS
  <2>7. g[n + 1] = IF n + 1 = 1 THEN ts[n + 1] ELSE g[(n + 1) - 1] \o ts[n + 1]
    BY <2>2, <2>6
  <2>8. n # 0 => f[n] = g[n]
    BY <2>5 DEF L
  <2> QED
    BY <2>6, <2>7, <2>8
<1> HAVE Len(ss) = n /\ Len(ts) = n + 1 /\ (\A i \in 1 .. n : ts[i] = ss[i])
<1>2. PICK g : Flattens(g, ts, n + 1) /\ FlattenSeq(ts) = g[n + 1]
  BY FlattenIs
<1>3. PICK f : Flattens(f, ss, n) /\ (n # 0 => FlattenSeq(ss) = f[n])
  <2>1. CASE n = 0
    BY <2>1, FlattenExists
  <2>2. CASE n # 0
    BY <2>2, FlattenIs
  <2> QED
    BY <2>1, <2>2
<1>4. g[n + 1] = IF n = 0 THEN ts[n + 1] ELSE f[n] \o ts[n + 1]
  BY <1>1, <1>2, <1>3
<1> QED
  BY <1>2, <1>3, <1>4

\* The flattening of one more sequence is the flattening of the others and then
\* that sequence.
LEMMA FlattenAppend ==
  ASSUME NEW S, NEW ss \in Seq(S), NEW x \in S
  PROVE  FlattenSeq(Append(ss, x)) = IF ss = <<>> THEN x ELSE FlattenSeq(ss) \o x
<1>1. /\ Len(ss) \in Nat /\ Len(Append(ss, x)) = Len(ss) + 1
      /\ \A i \in 1 .. Len(ss) : Append(ss, x)[i] = ss[i]
      /\ Append(ss, x)[Len(ss) + 1] = x
      /\ Len(ss) = 0 <=> ss = <<>>
  OBVIOUS
<1> QED
  BY <1>1, FlattenLonger, ZenonT(30)

-----------------------------------------------------------------------------
(* What the components use it for: every element of a sequence is replaced *)
(* by a sequence of none, one or more elements.                            *)

Images(F, s) == [i \in DOMAIN s |-> F[s[i]]]

FlatMap(F, s) == FlattenSeq(Images(F, s))

\* The images of the elements, one more of them.
LEMMA ImagesAppend ==
  ASSUME NEW S, NEW F, NEW s \in Seq(S), NEW x \in S
  PROVE  Images(F, Append(s, x)) = Append(Images(F, s), F[x])
<1> DEFINE T == {F[y] : y \in S}
           r == Images(F, s)
           t == Images(F, Append(s, x))
<1>1. r \in Seq(T) /\ Len(r) = Len(s) /\ \A i \in 1 .. Len(s) : r[i] = F[s[i]]
  BY DEF Images
<1>2. /\ t \in Seq(T) /\ Len(t) = Len(s) + 1 /\ t[Len(s) + 1] = F[x]
      /\ \A i \in 1 .. Len(s) : t[i] = F[s[i]]
  BY DEF Images
<1>3. F[x] \in T
  OBVIOUS
<1> HIDE DEF T, r, t
<1>4. /\ Append(r, F[x]) \in Seq(T)
      /\ Len(Append(r, F[x])) = Len(s) + 1
      /\ Append(r, F[x])[Len(s) + 1] = F[x]
      /\ \A i \in 1 .. Len(s) : Append(r, F[x])[i] = r[i]
  BY <1>1, <1>3
<1>5. t = Append(r, F[x])
  <2>1. \A i \in 1 .. Len(s) + 1 : t[i] = Append(r, F[x])[i]
    BY <1>1, <1>2, <1>4
  <2> QED
    BY <1>2, <1>4, <2>1, SeqEqual
<1> QED
  BY <1>5 DEF r, t

\* FlatMap of nothing is nothing, and of one more element, the images of the others
\* and then that of the element.
LEMMA FlatMapAppend ==
  ASSUME NEW S, NEW T, NEW F \in [S -> Seq(T)]
  PROVE  /\ FlatMap(F, <<>>) = <<>>
         /\ \A s \in Seq(S) : \A x \in S :
              FlatMap(F, Append(s, x)) = FlatMap(F, s) \o F[x]
<1>1. FlatMap(F, <<>>) = <<>>
  <2>1. Images(F, <<>>) = <<>>
    BY DEF Images
  <2> QED
    BY <2>1, FlattenEmpty, Zenon DEF FlatMap
<1>2. ASSUME NEW s \in Seq(S), NEW x \in S
      PROVE  FlatMap(F, Append(s, x)) = FlatMap(F, s) \o F[x]
  <2> DEFINE r == Images(F, s)
             I == {F[y] : y \in S}
  <2>1. r \in Seq(I) /\ F[x] \in I /\ (r = <<>> <=> s = <<>>)
    BY DEF Images
  <2>2. Images(F, Append(s, x)) = Append(r, F[x])
    BY ImagesAppend
  <2> HIDE DEF r, I
  <2>3. FlattenSeq(Append(r, F[x])) = IF r = <<>> THEN F[x] ELSE FlattenSeq(r) \o F[x]
    BY <2>1, FlattenAppend
  <2>4. F[x] = <<>> \o F[x]
    OBVIOUS
  <2> QED
    BY <1>1, <2>1, <2>2, <2>3, <2>4 DEF FlatMap, r
<1> QED
  BY <1>1, <1>2

\* Where every element of a sequence has an image over a set, so has the sequence.
LEMMA FlatMapInto ==
  ASSUME NEW S, NEW T, NEW F \in [S -> Seq(T)], NEW R, NEW U,
         R \subseteq S, \A x \in R : F[x] \in Seq(U)
  PROVE  \A s \in Seq(R) : FlatMap(F, s) \in Seq(U)
<1> DEFINE L == {s \in Seq(R) : FlatMap(F, s) \in Seq(U)}
<1>1. <<>> \in L
  <2>1. FlatMap(F, <<>>) = <<>>
    BY FlatMapAppend
  <2> QED
    BY <2>1, EmptySeq
<1>2. ASSUME NEW s \in Seq(R), NEW x \in R, s \in L PROVE Append(s, x) \in L
  <2>1. s \in Seq(S) /\ x \in S
    OBVIOUS
  <2>2. FlatMap(F, Append(s, x)) = FlatMap(F, s) \o F[x]
    BY <2>1, FlatMapAppend, ZenonT(30)
  <2>3. FlatMap(F, s) \o F[x] \in Seq(U)
    BY <1>2, ConcatProperties
  <2>4. Append(s, x) \in Seq(R)
    OBVIOUS
  <2> QED
    BY <2>2, <2>3, <2>4
<1> HIDE DEF L
<1>3. Seq(R) \subseteq L
  BY <1>1, <1>2, SeqInduction
<1> QED
  BY <1>3 DEF L

\* FlatMap gives sequences over the set in which the images are.
LEMMA FlatMapType ==
  ASSUME NEW S, NEW T, NEW F \in [S -> Seq(T)]
  PROVE  \A s \in Seq(S) : FlatMap(F, s) \in Seq(T)
<1>1. \A x \in S : F[x] \in Seq(T)
  OBVIOUS
<1> QED
  BY <1>1, FlatMapInto, Zenon

\* FlatMap of two sequences, one after the other.
LEMMA FlatMapConcat ==
  ASSUME NEW S, NEW T, NEW F \in [S -> Seq(T)]
  PROVE  \A s \in Seq(S) : \A t \in Seq(S) :
           FlatMap(F, s \o t) = FlatMap(F, s) \o FlatMap(F, t)
<1> TAKE s \in Seq(S)
<1> DEFINE L == {t \in Seq(S) : FlatMap(F, s \o t) = FlatMap(F, s) \o FlatMap(F, t)}
<1>0. \A t \in Seq(S) : FlatMap(F, t) \in Seq(T)
  BY FlatMapType, Zenon
<1>1. <<>> \in L
  <2>1. FlatMap(F, <<>>) = <<>> /\ s \o <<>> = s
    BY FlatMapAppend
  <2>2. FlatMap(F, s) \o <<>> = FlatMap(F, s)
    BY <1>0
  <2> QED
    BY <2>1, <2>2, EmptySeq
<1>2. ASSUME NEW t \in Seq(S), NEW x \in S, t \in L PROVE Append(t, x) \in L
  <2>1. s \o Append(t, x) = Append(s \o t, x) /\ s \o t \in Seq(S) /\ Append(t, x) \in Seq(S)
    OBVIOUS
  <2>2. /\ FlatMap(F, Append(s \o t, x)) = FlatMap(F, s \o t) \o F[x]
        /\ FlatMap(F, Append(t, x)) = FlatMap(F, t) \o F[x]
    BY <2>1, FlatMapAppend, Zenon
  <2>3. FlatMap(F, s) \in Seq(T) /\ FlatMap(F, t) \in Seq(T) /\ F[x] \in Seq(T)
    BY <1>0
  <2>4. \A a, b, c \in Seq(T) : (a \o b) \o c = a \o (b \o c)
    OBVIOUS
  <2>5. (FlatMap(F, s) \o FlatMap(F, t)) \o F[x] = FlatMap(F, s) \o (FlatMap(F, t) \o F[x])
    BY <2>3, <2>4
  <2>6. FlatMap(F, s \o t) = FlatMap(F, s) \o FlatMap(F, t)
    BY <1>2
  <2> QED
    BY <2>1, <2>2, <2>5, <2>6
<1> HIDE DEF L
<1>3. Seq(S) \subseteq L
  BY <1>1, <1>2, SeqInduction
<1> QED
  BY <1>3 DEF L

\* A sequence of two, as one and one more.
LEMMA TwoElements ==
  ASSUME NEW S, NEW a \in S, NEW b \in S
  PROVE  Append(<<a>>, b) = <<a, b>>
<1>1. /\ <<a>> \in Seq(S) /\ <<a, b>> \in Seq(S) /\ Len(<<a>>) = 1 /\ Len(<<a, b>>) = 2
      /\ <<a, b>>[1] = a /\ <<a, b>>[2] = b
  OBVIOUS
<1>2. /\ Append(<<a>>, b) \in Seq(S) /\ Len(Append(<<a>>, b)) = 2
      /\ Append(<<a>>, b)[1] = a /\ Append(<<a>>, b)[2] = b
  BY <1>1
<1>3. \A i \in 1 .. 2 : i = 1 \/ i = 2
  OBVIOUS
<1>4. \A i \in 1 .. Len(<<a, b>>) : Append(<<a>>, b)[i] = <<a, b>>[i]
  BY <1>1, <1>2, <1>3
<1> QED
  BY <1>1, <1>2, <1>4, SeqEqual, Zenon

\* FlatMap of one element is its image.
LEMMA FlatMapOne ==
  ASSUME NEW S, NEW T, NEW F \in [S -> Seq(T)], NEW x \in S
  PROVE  FlatMap(F, <<x>>) = F[x]
<1>1. <<>> \in Seq(S) /\ Append(<<>>, x) = <<x>> /\ F[x] \in Seq(T)
  OBVIOUS
<1>2. FlatMap(F, Append(<<>>, x)) = FlatMap(F, <<>>) \o F[x] /\ FlatMap(F, <<>>) = <<>>
  BY <1>1, FlatMapAppend, Zenon
<1>3. <<>> \o F[x] = F[x]
  BY <1>1
<1> QED
  BY <1>1, <1>2, <1>3
=============================================================================
