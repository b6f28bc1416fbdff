----------------------------- MODULE DequeProofs -----------------------------
(***************************************************************************)
(* For any number of nodes, tags and values: the pointers of a deque stay  *)
(* well linked whatever is called, the merge sort included, and every call *)
(* changes the list and returns as DequeList says.                         *)
(***************************************************************************)
EXTENDS Deque, SequenceFacts, FiniteSetTheorems

-----------------------------------------------------------------------------
(* Loops. *)

Turns(f, body, x, n) == f = [i \in 0 .. n |-> IF i = 0 THEN x ELSE body[f[i - 1]]]
After(f, body, x) == f = [i \in Nat |-> IF i = 0 THEN x ELSE body[f[i - 1]]]

\* The states of the first rounds of a loop, at each round.
LEMMA TurnsAt ==
  ASSUME NEW f, NEW body, NEW x, NEW n \in Nat
  PROVE  Turns(f, body, x, n) <=>
           /\ f = [i \in 0 .. n |-> f[i]]
           /\ \A i \in 0 .. n : f[i] = IF i = 0 THEN x ELSE body[f[i - 1]]
<1> DEFINE step(i) == IF i = 0 THEN x ELSE body[f[i - 1]]
<1>1. Turns(f, body, x, n) <=> f = [i \in 0 .. n |-> step(i)]
  BY Zenon DEF Turns
<1> HIDE DEF step
<1>2. f = [i \in 0 .. n |-> step(i)] <=>
        f = [i \in 0 .. n |-> f[i]] /\ \A i \in 0 .. n : f[i] = step(i)
  OBVIOUS
<1> QED
  BY <1>1, <1>2 DEF step

\* The first rounds have states, however many they are.
LEMMA TurnsExist ==
  ASSUME NEW body, NEW x
  PROVE  \A n \in Nat : \E f : Turns(f, body, x, n)
<1> DEFINE L == {n \in Nat : \E f : Turns(f, body, x, n)}
<1>1. 0 \in L
  <2> DEFINE f == [i \in 0 .. 0 |-> x]
  <2>1. f = [i \in 0 .. 0 |-> f[i]] /\ \A i \in 0 .. 0 : f[i] = IF i = 0 THEN x ELSE body[f[i - 1]]
    OBVIOUS
  <2> HIDE DEF f
  <2>2. Turns(f, body, x, 0)
    BY <2>1, TurnsAt
  <2> QED
    BY <2>2
<1>2. ASSUME NEW n \in Nat, n \in L PROVE n + 1 \in L
  <2>1. PICK f : Turns(f, body, x, n)
    BY <1>2
  <2> DEFINE g == [i \in 0 .. n + 1 |-> IF i <= n THEN f[i] ELSE body[f[n]]]
  <2>2. \A i \in 0 .. n : f[i] = IF i = 0 THEN x ELSE body[f[i - 1]]
    BY <2>1, TurnsAt
  <2>3. \A i \in 0 .. n + 1 : g[i] = IF i = 0 THEN x ELSE body[g[i - 1]]
    <3> TAKE i \in 0 .. n + 1
    <3>1. CASE i = n + 1
      <4>1. g[i] = body[f[n]] /\ i # 0 /\ i - 1 = n /\ g[n] = f[n]
        BY <3>1
      <4> QED
        BY <4>1
    <3>2. CASE i # n + 1
      <4>1. i \in 0 .. n /\ g[i] = f[i]
        BY <3>2
      <4>2. i # 0 => g[i - 1] = f[i - 1]
        BY <4>1
      <4> QED
        BY <2>2, <4>1, <4>2
    <3> QED
      BY <3>1, <3>2
  <2>4. g = [i \in 0 .. n + 1 |-> g[i]]
    OBVIOUS
  <2> HIDE DEF g
  <2>5. Turns(g, body, x, n + 1)
    <3>1. n + 1 \in Nat
      OBVIOUS
    <3> QED
      BY <2>3, <2>4, <3>1, TurnsAt
  <2> QED
    BY <2>5
<1> HIDE DEF L
<1>3. Nat \subseteq L
  BY <1>1, <1>2, SetInduction
<1> QED
  BY <1>3 DEF L

\* They have them in one way.
LEMMA TurnsSame ==
  ASSUME NEW body, NEW x, NEW f, NEW g, NEW n \in Nat, NEW m \in Nat,
         Turns(f, body, x, n), Turns(g, body, x, m)
  PROVE  \A i \in 0 .. n : i \in 0 .. m => f[i] = g[i]
<1> DEFINE L == {i \in Nat : i \in 0 .. n /\ i \in 0 .. m => f[i] = g[i]}
<1>1. \A i \in 0 .. n : f[i] = IF i = 0 THEN x ELSE body[f[i - 1]]
  BY TurnsAt
<1>2. \A i \in 0 .. m : g[i] = IF i = 0 THEN x ELSE body[g[i - 1]]
  BY TurnsAt
<1>3. 0 \in L
  BY <1>1, <1>2
<1>4. ASSUME NEW i \in Nat, i \in L PROVE i + 1 \in L
  <2> SUFFICES ASSUME i + 1 \in 0 .. n, i + 1 \in 0 .. m PROVE f[i + 1] = g[i + 1]
    OBVIOUS
  <2>1. i \in 0 .. n /\ i \in 0 .. m /\ (i + 1) - 1 = i /\ i + 1 # 0
    OBVIOUS
  <2>2. f[i] = g[i]
    BY <1>4, <2>1
  <2>3. f[i + 1] = body[f[i]] /\ g[i + 1] = body[g[i]]
    BY <1>1, <1>2, <2>1
  <2> QED
    BY <2>2, <2>3
<1> HIDE DEF L
<1>5. Nat \subseteq L
  BY <1>3, <1>4, SetInduction
<1> QED
  BY <1>5 DEF L

\* What the state of a loop is after none and after one more round.
LEMMA IterateSteps ==
  ASSUME NEW body, NEW x
  PROVE  /\ Iterate(body, x, 0) = x
         /\ \A n \in Nat : Iterate(body, x, n + 1) = body[Iterate(body, x, n)]
<1> DEFINE turns(n) == CHOOSE f : Turns(f, body, x, n)
           h == [n \in Nat |-> turns(n)[n]]
           after == CHOOSE f : After(f, body, x)
<1>1. \A n \in Nat : Turns(turns(n), body, x, n)
  BY TurnsExist
<1> HIDE DEF turns
<1>2. \A n \in Nat : h[n] = IF n = 0 THEN x ELSE body[h[n - 1]]
  <2> TAKE n \in Nat
  <2>1. \A i \in 0 .. n : turns(n)[i] = IF i = 0 THEN x ELSE body[turns(n)[i - 1]]
    BY <1>1, TurnsAt
  <2>2. n # 0 => turns(n)[n - 1] = turns(n - 1)[n - 1]
    <3> HAVE n # 0
    <3>1. n - 1 \in Nat /\ n - 1 \in 0 .. n /\ n - 1 \in 0 .. n - 1
      OBVIOUS
    <3>2. Turns(turns(n), body, x, n) /\ Turns(turns(n - 1), body, x, n - 1)
      BY <1>1, <3>1
    <3> QED
      BY <3>1, <3>2, TurnsSame
  <2>3. n \in 0 .. n /\ (n # 0 => n - 1 \in Nat)
    OBVIOUS
  <2> QED
    BY <2>1, <2>2, <2>3
<1>3. h = [n \in Nat |-> h[n]]
  OBVIOUS
<1> HIDE DEF h
<1>4. After(h, body, x)
  BY <1>2, <1>3 DEF After
<1>5. After(after, body, x)
  BY <1>4
<1> HIDE DEF after
<1>6. \A n \in Nat : after[n] = IF n = 0 THEN x ELSE body[after[n - 1]]
  <2> DEFINE step(n) == IF n = 0 THEN x ELSE body[after[n - 1]]
  <2>1. after = [n \in Nat |-> step(n)]
    BY <1>5, Zenon DEF After
  <2> HIDE DEF step
  <2>2. \A n \in Nat : after[n] = step(n)
    BY <2>1
  <2> QED
    BY <2>2 DEF step
<1>7. \A n : Iterate(body, x, n) = after[n]
  BY DEF Iterate, after, After
<1>8. after[0] = x
  BY <1>6
<1>9. ASSUME NEW n \in Nat PROVE after[n + 1] = body[after[n]]
  <2>1. n + 1 \in Nat /\ n + 1 # 0 /\ (n + 1) - 1 = n
    OBVIOUS
  <2> QED
    BY <1>6, <2>1
<1> QED
  BY <1>7, <1>8, <1>9

\* v is what a loop goes through.
Goes(body, v) == \A i \in Nat : body[v[i]] = v[i + 1]

\* When the states of a loop are known, so is what it ends with.
LEMMA IterateIs ==
  ASSUME NEW body, NEW v, Goes(body, v)
  PROVE  \A n \in Nat : Iterate(body, v[0], n) = v[n]
<1> DEFINE L == {n \in Nat : Iterate(body, v[0], n) = v[n]}
<1>0. \A i \in Nat : body[v[i]] = v[i + 1]
  BY DEF Goes
<1>1. 0 \in L
  BY IterateSteps
<1>2. ASSUME NEW n \in Nat, n \in L PROVE n + 1 \in L
  <2>1. Iterate(body, v[0], n + 1) = body[Iterate(body, v[0], n)]
    BY IterateSteps
  <2> QED
    BY <1>0, <1>2, <2>1
<1> HIDE DEF L
<1>3. Nat \subseteq L
  BY <1>1, <1>2, SetInduction
<1> QED
  BY <1>3 DEF L

\* Each round of a loop leads from one set of states to the next one.
Leads(body, I) == \A n \in Nat : \A y \in I[n] : body[y] \in I[n + 1]

\* Then its states are in these sets.
LEMMA IterateIn ==
  ASSUME NEW body, NEW x, NEW I, x \in I[0], Leads(body, I)
  PROVE  \A n \in Nat : Iterate(body, x, n) \in I[n]
<1> DEFINE L == {n \in Nat : Iterate(body, x, n) \in I[n]}
<1>1. 0 \in L
  BY IterateSteps
<1>2. ASSUME NEW n \in Nat, n \in L PROVE n + 1 \in L
  <2>1. Iterate(body, x, n + 1) = body[Iterate(body, x, n)]
    BY IterateSteps
  <2>2. Iterate(body, x, n) \in I[n] => body[Iterate(body, x, n)] \in I[n + 1]
    BY DEF Leads
  <2> QED
    BY <1>2, <2>1, <2>2
<1> HIDE DEF L
<1>3. Nat \subseteq L
  BY <1>1, <1>2, SetInduction
<1> QED
  BY <1>3 DEF L

-----------------------------------------------------------------------------
(* Deques: what the helpers do to the fields. *)

\* Two that become neighbours.
LEMMA LinkIs ==
  ASSUME NEW d \in Deques, NEW a \in Addresses, NEW b \in Addresses
  PROVE  LET e == Link(d, a, b)
         IN /\ e \in Deques /\ e.holds = d.holds /\ e.live = d.live /\ e.size = d.size
            /\ e.next = [d.next EXCEPT ![a] = b]
            /\ e.prev = [d.prev EXCEPT ![b] = a]
BY DEF Link, Deques, Pointers

\* The same, address by address.
LEMMA LinkAt ==
  ASSUME NEW d \in Deques, NEW a \in Addresses, NEW b \in Addresses, NEW e, e = Link(d, a, b)
  PROVE  /\ e \in Deques /\ e.holds = d.holds /\ e.live = d.live /\ e.size = d.size
         /\ \A x \in Addresses : /\ e.next[x] = IF x = a THEN b ELSE d.next[x]
                                /\ e.prev[x] = IF x = b THEN a ELSE d.prev[x]
<1>1. /\ e \in Deques /\ e.holds = d.holds /\ e.live = d.live /\ e.size = d.size
      /\ e.next = [d.next EXCEPT ![a] = b] /\ e.prev = [d.prev EXCEPT ![b] = a]
  BY LinkIs
<1>2. d.next \in [Addresses -> Pointers] /\ d.prev \in [Addresses -> Pointers]
  BY DEF Deques
<1>3. \A x \in Addresses : /\ e.next[x] = IF x = a THEN b ELSE d.next[x]
                           /\ e.prev[x] = IF x = b THEN a ELSE d.prev[x]
  BY <1>1, <1>2
<1> QED
  BY <1>1, <1>3

\* A node that is freed.
LEMMA FreeIs ==
  ASSUME NEW d \in Deques, NEW a \in Nodes
  PROVE  LET e == Free(d, a)
         IN /\ e \in Deques /\ e.holds = [d.holds EXCEPT ![a] = Wiped]
            /\ e.live = d.live \ {a} /\ e.size = d.size
            /\ e.next = [d.next EXCEPT ![a] = NULL]
            /\ e.prev = [d.prev EXCEPT ![a] = NULL]
<1>1. Wiped \in Elements
  <2>1. \E x \in Elements : TRUE
    <3>1. d.holds[a] \in Elements
      BY DEF Deques
    <3> QED
      BY <3>1
  <2> QED
    BY <2>1, Zenon DEF Wiped
<1>2. a \in Addresses /\ NULL \in Pointers
  BY DEF Addresses, Pointers
<1> QED
  BY <1>1, <1>2 DEF Free, Deques

\* A node that leaves the list.
LEMMA UnlinkIs ==
  ASSUME NEW d \in Deques, NEW a \in Nodes, NEW p \in Addresses, NEW b \in Addresses,
         d.prev[a] = p, d.next[a] = b, p # a, b # a, d.size > 0
  PROVE  LET e == Unlink(d, a)
         IN /\ e \in Deques /\ e.holds = [d.holds EXCEPT ![a] = Wiped]
            /\ e.live = d.live \ {a} /\ e.size = d.size - 1
            /\ \A x \in Addresses :
                 /\ e.next[x] = IF x = a THEN NULL ELSE IF x = p THEN b ELSE d.next[x]
                 /\ e.prev[x] = IF x = a THEN NULL ELSE IF x = b THEN p ELSE d.prev[x]
<1> DEFINE c == Link(d, p, b)
           f == Free(c, a)
           e == [f EXCEPT !.size = @ - 1]
<1>1. /\ c \in Deques /\ c.holds = d.holds /\ c.live = d.live /\ c.size = d.size
      /\ c.next = [d.next EXCEPT ![p] = b] /\ c.prev = [d.prev EXCEPT ![b] = p]
  BY LinkIs
<1> HIDE DEF c
<1>2. /\ f \in Deques /\ f.holds = [c.holds EXCEPT ![a] = Wiped]
      /\ f.live = c.live \ {a} /\ f.size = c.size
      /\ f.next = [c.next EXCEPT ![a] = NULL] /\ f.prev = [c.prev EXCEPT ![a] = NULL]
  BY <1>1, FreeIs
<1> HIDE DEF f
<1>3. f.size - 1 \in Nat
  BY <1>1, <1>2 DEF Deques
<1>4. /\ e \in Deques /\ e.holds = f.holds /\ e.live = f.live /\ e.size = f.size - 1
      /\ e.next = f.next /\ e.prev = f.prev
  BY <1>2, <1>3 DEF Deques
<1>5. Unlink(d, a) = e
  BY DEF Unlink, c, f
<1> HIDE DEF e
<1>6. d.next \in [Addresses -> Pointers] /\ d.prev \in [Addresses -> Pointers]
      /\ c.next \in [Addresses -> Pointers] /\ c.prev \in [Addresses -> Pointers]
  BY <1>1 DEF Deques
<1>7. \A x \in Addresses :
        /\ e.next[x] = IF x = a THEN NULL ELSE IF x = p THEN b ELSE d.next[x]
        /\ e.prev[x] = IF x = a THEN NULL ELSE IF x = b THEN p ELSE d.prev[x]
  BY <1>1, <1>2, <1>4, <1>6
<1>8. /\ e \in Deques /\ e.holds = [d.holds EXCEPT ![a] = Wiped]
      /\ e.live = d.live \ {a} /\ e.size = d.size - 1
  BY <1>1, <1>2, <1>4
<1> HIDE DEF f
<1> QED
  BY <1>5, <1>7, <1>8

-----------------------------------------------------------------------------
(* The list between the sentinels, as the sequence of its nodes. *)

Apart(s) == \A i, j \in DOMAIN s : s[i] = s[j] => i = j

Stop(s, i) == IF i = 0 THEN Start ELSE IF i = Len(s) + 1 THEN End ELSE s[i]

Chain(d, s) ==
  /\ s \in Seq(Nodes)
  /\ Apart(s)
  /\ \A i \in 0 .. Len(s) : d.next[Stop(s, i)] = Stop(s, i + 1) /\ d.prev[Stop(s, i + 1)] = Stop(s, i)
  /\ Range(s) = d.live
  /\ Len(s) = d.size

\* The stops are the sentinels and the nodes.
LEMMA StopIs ==
  ASSUME NEW s \in Seq(Nodes)
  PROVE  /\ Stop(s, 0) = Start /\ Stop(s, Len(s) + 1) = End
         /\ \A i \in 1 .. Len(s) : Stop(s, i) = s[i] /\ s[i] \in Nodes
         /\ \A i \in 0 .. Len(s) + 1 : Stop(s, i) \in Addresses
<1>1. Len(s) \in Nat
  OBVIOUS
<1>2. Stop(s, 0) = Start /\ Stop(s, Len(s) + 1) = End
  BY <1>1 DEF Stop
<1>3. \A i \in 1 .. Len(s) : Stop(s, i) = s[i] /\ s[i] \in Nodes
  BY <1>1 DEF Stop
<1>4. \A i \in 0 .. Len(s) + 1 : i = 0 \/ i = Len(s) + 1 \/ i \in 1 .. Len(s)
  BY <1>1
<1> QED
  BY <1>2, <1>3, <1>4 DEF Addresses

\* What is in a sequence.
LEMMA RangeIs ==
  ASSUME NEW S, NEW s \in Seq(S)
  PROVE  \A x : x \in Range(s) <=> \E i \in 1 .. Len(s) : x = s[i]
BY DEF Range

\* A node is no sentinel.
LEMMA NodesApart ==
  /\ Start \notin Nodes /\ End \notin Nodes /\ NULL \notin Nodes /\ NoIter \notin Nodes
  /\ Start # End /\ NULL \notin Addresses
  /\ NoIter \notin Addresses /\ NoIter # NULL
BY DequeAssumption DEF Start, End, NULL, Addresses, NoIter

\* The stops differ.
LEMMA StopApart ==
  ASSUME NEW s \in Seq(Nodes), Apart(s)
  PROVE  \A i, j \in 0 .. Len(s) + 1 : Stop(s, i) = Stop(s, j) => i = j
<1> SUFFICES ASSUME NEW i \in 0 .. Len(s) + 1, NEW j \in 0 .. Len(s) + 1, Stop(s, i) = Stop(s, j)
             PROVE  i = j
  OBVIOUS
<1>1. Len(s) \in Nat
  OBVIOUS
<1>2. \A k \in 0 .. Len(s) + 1 : k = 0 \/ k = Len(s) + 1 \/ k \in 1 .. Len(s)
  BY <1>1
<1>3. \A k \in 1 .. Len(s) : Stop(s, k) = s[k] /\ s[k] \in Nodes /\ k \in DOMAIN s
  BY StopIs
<1>4. Stop(s, 0) = Start /\ Stop(s, Len(s) + 1) = End
  BY StopIs
<1>5. CASE i \in 1 .. Len(s) /\ j \in 1 .. Len(s)
  BY <1>3, <1>5 DEF Apart
<1> QED
  BY <1>2, <1>3, <1>4, <1>5, NodesApart

\* A sequence without one of its elements.
LEMMA RemoveAtIs ==
  ASSUME NEW S, NEW s \in Seq(S), NEW i \in 1 .. Len(s)
  PROVE  /\ RemoveAt(s, i) \in Seq(S) /\ Len(RemoveAt(s, i)) = Len(s) - 1
         /\ \A j \in 1 .. Len(s) - 1 : RemoveAt(s, i)[j] = IF j < i THEN s[j] ELSE s[j + 1]
<1> DEFINE a == SubSeq(s, 1, i - 1)
           b == SubSeq(s, i + 1, Len(s))
           n == Len(s)
<1>0. n \in Nat /\ i \in Nat \ {0} /\ i <= n
  OBVIOUS
<1>1. a \in Seq(S) /\ Len(a) = i - 1 /\ \A j \in 1 .. i - 1 : a[j] = s[j]
  OBVIOUS
<1>2. b \in Seq(S) /\ Len(b) = n - i /\ \A j \in 1 .. n - i : b[j] = s[j + i]
  OBVIOUS
<1>3. RemoveAt(s, i) = a \o b
  BY DEF RemoveAt
<1> HIDE DEF a, b, n
<1>4. a \o b \in Seq(S) /\ Len(a \o b) = n - 1
      /\ \A j \in 1 .. n - 1 : (a \o b)[j] = IF j <= i - 1 THEN a[j] ELSE b[j - (i - 1)]
  <2>1. (i - 1) + (n - i) = n - 1
    BY <1>0
  <2> QED
    BY <1>1, <1>2, <2>1, ConcatProperties
<1>5. \A j \in 1 .. n - 1 : (a \o b)[j] = IF j < i THEN s[j] ELSE s[j + 1]
  <2>1. \A j \in 1 .. n - 1 : j <= i - 1 <=> j < i
    BY <1>0
  <2>2. \A j \in 1 .. n - 1 : j < i => j \in 1 .. i - 1
    BY <1>0
  <2>3. \A j \in 1 .. n - 1 : ~(j < i) => j - (i - 1) \in 1 .. n - i /\ (j - (i - 1)) + i = j + 1
    BY <1>0
  <2> QED
    BY <1>1, <1>2, <1>4, <2>1, <2>2, <2>3
<1> QED
  BY <1>3, <1>4, <1>5 DEF n

\* The stops without one node.
LEMMA StopWithout ==
  ASSUME NEW s \in Seq(Nodes), NEW i \in 1 .. Len(s)
  PROVE  \A j \in 0 .. Len(s) :
           Stop(RemoveAt(s, i), j) = IF j < i THEN Stop(s, j) ELSE Stop(s, j + 1)
<1> DEFINE n == Len(s)
           t == RemoveAt(s, i)
<1>1. n \in Nat /\ i \in Nat \ {0} /\ i <= n
  OBVIOUS
<1>2. t \in Seq(Nodes) /\ Len(t) = n - 1
      /\ \A j \in 1 .. n - 1 : t[j] = IF j < i THEN s[j] ELSE s[j + 1]
  BY RemoveAtIs
<1> SUFFICES ASSUME NEW j \in 0 .. n
             PROVE  Stop(t, j) = IF j < i THEN Stop(s, j) ELSE Stop(s, j + 1)
  OBVIOUS
<1> HIDE DEF n, t
<1>3. CASE j = 0
  BY <1>1, <1>3 DEF Stop
<1>4. CASE j = n
  <2>1. Stop(t, j) = End /\ Stop(s, j + 1) = End /\ ~(j < i)
    BY <1>1, <1>2, <1>4 DEF Stop, n
  <2> QED
    BY <2>1
<1>5. CASE j \in 1 .. n - 1
  <2>1. Stop(t, j) = t[j]
    BY <1>1, <1>2, <1>5 DEF Stop
  <2>2. Stop(s, j) = s[j] /\ Stop(s, j + 1) = s[j + 1]
    BY <1>1, <1>5 DEF Stop, n
  <2>3. t[j] = IF j < i THEN s[j] ELSE s[j + 1]
    BY <1>2, <1>5
  <2> QED
    BY <2>1, <2>2, <2>3
<1> QED
  BY <1>1, <1>3, <1>4, <1>5

\* The stops with one more node.
LEMMA StopLonger ==
  ASSUME NEW s \in Seq(Nodes), NEW n \in Nodes
  PROVE  \A j \in 0 .. Len(s) + 2 :
           Stop(Append(s, n), j) = IF j <= Len(s) THEN Stop(s, j)
                                   ELSE IF j = Len(s) + 1 THEN n ELSE End
<1> DEFINE m == Len(s)
           t == Append(s, n)
<1>1. m \in Nat /\ Len(t) = m + 1 /\ t[m + 1] = n /\ \A j \in 1 .. m : t[j] = s[j]
  OBVIOUS
<1> SUFFICES ASSUME NEW j \in 0 .. m + 2
             PROVE  Stop(t, j) = IF j <= m THEN Stop(s, j) ELSE IF j = m + 1 THEN n ELSE End
  OBVIOUS
<1> HIDE DEF t
<1>2. CASE j = 0
  BY <1>1, <1>2 DEF Stop
<1>3. CASE j \in 1 .. m
  <2>1. j # 0 /\ j # m + 1 /\ j # (m + 1) + 1 /\ j <= m
    BY <1>1, <1>3
  <2> HIDE DEF m
  <2> QED
    BY <1>1, <1>3, <2>1 DEF Stop, m
<1>4. CASE j = m + 1 \/ j = m + 2
  <2>1. j # 0 /\ ~(j <= m)
    BY <1>1, <1>4
  <2>2. j = (m + 1) + 1 <=> j # m + 1
    BY <1>1, <1>4
  <2> HIDE DEF m
  <2> QED
    BY <1>1, <1>4, <2>1, <2>2 DEF Stop
<1> QED
  BY <1>1, <1>2, <1>3, <1>4

\* A node that is not in the list is at none of its stops.
LEMMA StopNot ==
  ASSUME NEW s \in Seq(Nodes), NEW n \in Nodes \ Range(s)
  PROVE  \A j \in 0 .. Len(s) + 1 : Stop(s, j) # n
<1> SUFFICES ASSUME NEW j \in 0 .. Len(s) + 1, Stop(s, j) = n PROVE FALSE
  OBVIOUS
<1>1. j = 0 \/ j = Len(s) + 1 \/ j \in 1 .. Len(s)
  OBVIOUS
<1>2. j \in 1 .. Len(s) => n = s[j] /\ s[j] \in Range(s)
  BY StopIs DEF Range
<1>3. Stop(s, 0) = Start /\ Stop(s, Len(s) + 1) = End
  BY StopIs
<1> QED
  BY <1>1, <1>2, <1>3, NodesApart

\* A new node at the end of the list.
LEMMA ChainAdd ==
  ASSUME NEW d \in Deques, NEW s, Chain(d, s), NEW n \in Nodes \ d.live, NEW c \in Deques,
         c.next = d.next, c.prev = d.prev, c.live = d.live \union {n}, c.size = d.size + 1
  PROVE  LET f == Link(Link(c, c.prev[End], n), n, End)
         IN  f \in Deques /\ Chain(f, Append(s, n)) /\ f.holds = c.holds
<1> DEFINE f == Link(Link(c, c.prev[End], n), n, End)
           m == Len(s)
           p == Stop(s, m)
           g == Link(c, p, n)
           t == Append(s, n)
<1>1. s \in Seq(Nodes) /\ Apart(s) /\ Range(s) = d.live /\ m = d.size /\ m \in Nat
  BY DEF Chain
<1>2. \A i \in 0 .. m : d.next[Stop(s, i)] = Stop(s, i + 1) /\ d.prev[Stop(s, i + 1)] = Stop(s, i)
  BY DEF Chain
<1>3. c.next = d.next /\ c.prev = d.prev /\ c.live = d.live \union {n} /\ c.size = m + 1
  BY <1>1
<1>4. \A i \in 0 .. m + 1 : Stop(s, i) # n /\ Stop(s, i) \in Addresses
  BY <1>1, StopNot, StopIs
<1>5. Stop(s, 0) = Start /\ Stop(s, m + 1) = End /\ n \in Addresses /\ End \in Addresses
  BY <1>1, StopIs DEF Addresses
<1>6. \A i, j \in 0 .. m + 1 : Stop(s, i) = Stop(s, j) => i = j
  BY <1>1, StopApart
<1>7. c.prev[End] = p /\ p \in Addresses
  <2>1. m \in 0 .. m /\ m \in 0 .. m + 1
    BY <1>1
  <2> QED
    BY <1>2, <1>3, <1>4, <1>5, <2>1
<1>8. f = Link(g, n, End) /\ g = Link(c, p, n)
  BY <1>7
<1> HIDE DEF p, g, f
<1>9. /\ g \in Deques /\ g.holds = c.holds /\ g.live = c.live /\ g.size = c.size
      /\ \A x \in Addresses : /\ g.next[x] = IF x = p THEN n ELSE c.next[x]
                             /\ g.prev[x] = IF x = n THEN p ELSE c.prev[x]
  <2>1. c \in Deques /\ p \in Addresses /\ n \in Addresses
    BY <1>5, <1>7
  <2> QED
    BY <1>8, <2>1, LinkAt DEF Deques
<1>10. /\ f \in Deques /\ f.holds = g.holds /\ f.live = g.live /\ f.size = g.size
       /\ \A x \in Addresses : /\ f.next[x] = IF x = n THEN End ELSE g.next[x]
                              /\ f.prev[x] = IF x = End THEN n ELSE g.prev[x]
  <2>1. g \in Deques /\ n \in Addresses /\ End \in Addresses /\ f = Link(g, n, End)
    BY <1>5, <1>8, <1>9
  <2> QED
    BY <2>1, LinkAt DEF Deques
<1>11. \A x \in Addresses :
         /\ f.next[x] = IF x = n THEN End ELSE IF x = p THEN n ELSE d.next[x]
         /\ f.prev[x] = IF x = End THEN n ELSE IF x = n THEN p ELSE d.prev[x]
  BY <1>3, <1>9, <1>10
<1>12. t \in Seq(Nodes) /\ Len(t) = m + 1 /\ t[m + 1] = n /\ \A j \in 1 .. m : t[j] = s[j]
  BY <1>1
<1>13. \A j \in 0 .. m + 2 : Stop(t, j) = IF j <= m THEN Stop(s, j) ELSE IF j = m + 1 THEN n ELSE End
  BY <1>1, StopLonger
<1> HIDE DEF t
<1>14. \A i \in 0 .. m + 1 : f.next[Stop(t, i)] = Stop(t, i + 1) /\ f.prev[Stop(t, i + 1)] = Stop(t, i)
  <2> TAKE i \in 0 .. m + 1
  <2> HIDE DEF m
  <2>1. CASE i < m
    <3>1. i \in 0 .. m /\ i \in 0 .. m + 1 /\ i + 1 \in 0 .. m + 1 /\ m \in 0 .. m + 1 /\ m + 1 \in 0 .. m + 1
          /\ i + 1 \in 0 .. m + 2 /\ i \in 0 .. m + 2
      BY <1>1, <2>1
    <3>2. i # m /\ i + 1 # m + 1 /\ i <= m /\ i + 1 <= m
      BY <1>1, <2>1
    <3>3. Stop(t, i) = Stop(s, i) /\ Stop(t, i + 1) = Stop(s, i + 1)
      BY <1>13, <3>1, <3>2
    <3>4. Stop(s, i) # p /\ Stop(s, i + 1) # End
      BY <1>5, <1>6, <3>1, <3>2 DEF p
    <3>5. /\ Stop(s, i) # n /\ Stop(s, i) \in Addresses
          /\ Stop(s, i + 1) # n /\ Stop(s, i + 1) \in Addresses
      BY <1>4, <3>1
    <3>6. d.next[Stop(s, i)] = Stop(s, i + 1) /\ d.prev[Stop(s, i + 1)] = Stop(s, i)
      BY <1>2, <3>1
    <3> QED
      BY <1>11, <3>3, <3>4, <3>5, <3>6
  <2>2. CASE i = m
    <3>1. m \in 0 .. m + 2 /\ m + 1 \in 0 .. m + 2 /\ m \in 0 .. m + 1 /\ m <= m /\ ~(m + 1 <= m)
      BY <1>1
    <3>2. Stop(t, m) = p /\ Stop(t, m + 1) = n
      BY <1>13, <3>1 DEF p
    <3>3. p # n
      BY <1>4, <3>1 DEF p
    <3> QED
      BY <1>5, <1>7, <1>11, <2>2, <3>2, <3>3, NodesApart
  <2>3. CASE i = m + 1
    <3>1. m + 1 \in 0 .. m + 2 /\ m + 2 \in 0 .. m + 2 /\ ~(m + 1 <= m) /\ ~(m + 2 <= m)
          /\ m + 2 # m + 1 /\ (m + 1) + 1 = m + 2
      BY <1>1
    <3>2. Stop(t, m + 1) = n /\ Stop(t, m + 2) = End
      BY <1>13, <3>1
    <3> QED
      BY <1>5, <1>11, <2>3, <3>1, <3>2
  <2> QED
    BY <1>1, <2>1, <2>2, <2>3
<1>15. Range(t) = f.live
  <2>1. \A j \in 1 .. m : j \in 1 .. m + 1
    BY <1>1
  <2>2. \A j \in 1 .. m + 1 : j = m + 1 \/ j \in 1 .. m
    BY <1>1
  <2>3. m + 1 \in 1 .. m + 1
    BY <1>1
  <2>4. f.live = Range(s) \union {n}
    BY <1>1, <1>3, <1>9, <1>10
  <2>5. ASSUME NEW x PROVE x \in Range(t) <=> x \in Range(s) \union {n}
    <3>1. x \in Range(t) <=> \E j \in 1 .. m + 1 : x = t[j]
      BY <1>12, RangeIs
    <3>2. x \in Range(s) <=> \E j \in 1 .. m : x = s[j]
      BY <1>1, RangeIs
    <3> HIDE DEF m
    <3> QED
      BY <1>12, <2>1, <2>2, <2>3, <3>1, <3>2
  <2> QED
    BY <2>4, <2>5
<1>16. Apart(t)
  <2>1. \A i, j \in 0 .. m + 2 : Stop(t, i) = Stop(t, j) => i = j \/ i > m \/ j > m
    <3> SUFFICES ASSUME NEW i \in 0 .. m + 2, NEW j \in 0 .. m + 2, Stop(t, i) = Stop(t, j), i <= m, j <= m
                 PROVE  i = j
      BY <1>1
    <3>1. i \in 0 .. m + 1 /\ j \in 0 .. m + 1
      BY <1>1
    <3> QED
      BY <1>6, <1>13, <3>1
  <2>2. \A i \in 1 .. m + 1 : t[i] = Stop(t, i)
    BY <1>12, StopIs
  <2>3. \A i \in 1 .. m : t[i] # n
    <3> TAKE i \in 1 .. m
    <3>1. i \in 0 .. m + 2 /\ i <= m /\ i \in 1 .. m + 1 /\ i \in 0 .. m + 1
      BY <1>1
    <3> QED
      BY <1>4, <1>13, <2>2, <3>1
  <2> SUFFICES ASSUME NEW i \in 1 .. m + 1, NEW j \in 1 .. m + 1, t[i] = t[j] PROVE i = j
    BY <1>12 DEF Apart
  <2>4. i \in 0 .. m + 2 /\ j \in 0 .. m + 2 /\ (i = m + 1 \/ i \in 1 .. m) /\ (j = m + 1 \/ j \in 1 .. m)
    BY <1>1
  <2>5. CASE i \in 1 .. m /\ j \in 1 .. m
    BY <1>1, <2>1, <2>2, <2>4, <2>5
  <2> QED
    BY <1>12, <2>3, <2>4, <2>5
<1> QED
  BY <1>3, <1>9, <1>10, <1>12, <1>14, <1>15, <1>16 DEF Chain, t, f

\* What is left in a sequence in which each element is once.
LEMMA WithoutIs ==
  ASSUME NEW s \in Seq(Nodes), Apart(s), NEW i \in 1 .. Len(s)
  PROVE  Apart(RemoveAt(s, i)) /\ Range(RemoveAt(s, i)) = Range(s) \ {s[i]}
<1> DEFINE m == Len(s)
           t == RemoveAt(s, i)
           from(j) == IF j < i THEN j ELSE j + 1
<1>1. m \in Nat /\ i \in Nat \ {0} /\ i <= m
  OBVIOUS
<1>2. t \in Seq(Nodes) /\ Len(t) = m - 1
      /\ \A j \in 1 .. m - 1 : t[j] = IF j < i THEN s[j] ELSE s[j + 1]
  BY RemoveAtIs
<1>3. \A j \in 1 .. m - 1 : t[j] = s[from(j)]
  BY <1>2
<1>4. \A j \in 1 .. m - 1 : from(j) \in 1 .. m /\ from(j) # i
  BY <1>1
<1>5. \A j, k \in 1 .. m - 1 : from(j) = from(k) => j = k
  BY <1>1
<1>6. \A k \in 1 .. m : k # i => \E j \in 1 .. m - 1 : from(j) = k
  <2> SUFFICES ASSUME NEW k \in 1 .. m, k # i PROVE \E j \in 1 .. m - 1 : from(j) = k
    OBVIOUS
  <2>1. CASE k < i
    <3>1. k \in 1 .. m - 1 /\ from(k) = k
      BY <1>1, <2>1
    <3> QED
      BY <3>1
  <2>2. CASE ~(k < i)
    <3>1. k - 1 \in 1 .. m - 1 /\ from(k - 1) = k
      BY <1>1, <2>2
    <3> QED
      BY <3>1
  <2> QED
    BY <2>1, <2>2
<1>7. \A j, k \in 1 .. m : s[j] = s[k] => j = k
  BY DEF Apart
<1>8. \A x : x \in Range(s) <=> \E k \in 1 .. m : x = s[k]
  BY RangeIs
<1>9. \A x : x \in Range(t) <=> \E k \in 1 .. m - 1 : x = t[k]
  BY <1>2, RangeIs
<1>10. DOMAIN t = 1 .. m - 1 /\ i \in 1 .. m
  BY <1>2
<1> HIDE DEF m, t, from
<1>11. Apart(t)
  <2> SUFFICES ASSUME NEW j \in 1 .. m - 1, NEW k \in 1 .. m - 1, t[j] = t[k] PROVE j = k
    BY <1>10 DEF Apart
  <2>1. s[from(j)] = s[from(k)]
    BY <1>3
  <2>2. from(j) = from(k)
    BY <1>4, <1>7, <2>1
  <2> QED
    BY <1>5, <2>2
<1>12. ASSUME NEW x PROVE x \in Range(t) <=> x \in Range(s) \ {s[i]}
  <2>1. ASSUME x \in Range(t) PROVE x \in Range(s) \ {s[i]}
    <3>1. PICK k \in 1 .. m - 1 : x = t[k]
      BY <1>9, <2>1
    <3>2. x = s[from(k)] /\ from(k) \in 1 .. m /\ from(k) # i
      BY <1>3, <1>4, <3>1
    <3> QED
      BY <1>7, <1>8, <1>10, <3>2
  <2>2. ASSUME x \in Range(s) \ {s[i]} PROVE x \in Range(t)
    <3>1. PICK k \in 1 .. m : x = s[k]
      BY <1>8, <2>2
    <3>2. k # i
      BY <2>2, <3>1
    <3>3. PICK j \in 1 .. m - 1 : from(j) = k
      BY <1>6, <3>2
    <3> QED
      BY <1>3, <1>9, <3>1, <3>3
  <2> QED
    BY <2>1, <2>2
<1> QED
  BY <1>11, <1>12 DEF t

\* A node leaves the list, and the others stay as they are.
LEMMA ChainUnlink ==
  ASSUME NEW d \in Deques, NEW s, Chain(d, s), NEW i \in 1 .. Len(s)
  PROVE  LET e == Unlink(d, s[i])
         IN  /\ e \in Deques /\ Chain(e, RemoveAt(s, i))
             /\ \A x \in Nodes : x # s[i] => e.holds[x] = d.holds[x]
             /\ d.prev[s[i]] = Stop(s, i - 1) /\ d.next[s[i]] = Stop(s, i + 1)
<1> DEFINE m == Len(s)
           a == s[i]
           p == Stop(s, i - 1)
           b == Stop(s, i + 1)
           e == Unlink(d, a)
           t == RemoveAt(s, i)
<1>1. s \in Seq(Nodes) /\ Apart(s) /\ Range(s) = d.live /\ m = d.size /\ m \in Nat
  BY DEF Chain
<1>2. \A j \in 0 .. m : d.next[Stop(s, j)] = Stop(s, j + 1) /\ d.prev[Stop(s, j + 1)] = Stop(s, j)
  BY DEF Chain
<1>3. \A j \in 0 .. m + 1 : Stop(s, j) \in Addresses
  BY <1>1, StopIs
<1>4. \A j, k \in 0 .. m + 1 : Stop(s, j) = Stop(s, k) => j = k
  BY <1>1, StopApart
<1>5. i - 1 \in 0 .. m /\ i \in 0 .. m /\ i + 1 \in 0 .. m + 1 /\ i \in 0 .. m + 1 /\ i - 1 \in 0 .. m + 1
      /\ (i - 1) + 1 = i /\ i - 1 # i /\ i + 1 # i /\ m > 0
  BY <1>1
<1>6. Stop(s, i) = a /\ a \in Nodes
  BY <1>1, StopIs
<1>7. d.prev[a] = p /\ d.next[a] = b
  BY <1>2, <1>5, <1>6
<1>8. p \in Addresses /\ b \in Addresses /\ p # a /\ b # a
  BY <1>3, <1>4, <1>5, <1>6
<1>9. t \in Seq(Nodes) /\ Len(t) = m - 1
  BY <1>1, RemoveAtIs
<1>10. Apart(t) /\ Range(t) = Range(s) \ {a}
  BY <1>1, WithoutIs
<1>11. \A j \in 0 .. m : Stop(t, j) = IF j < i THEN Stop(s, j) ELSE Stop(s, j + 1)
  BY <1>1, StopWithout
<1> HIDE DEF a, p, b, t, e
<1>12. /\ e \in Deques /\ e.holds = [d.holds EXCEPT ![a] = Wiped]
       /\ e.live = d.live \ {a} /\ e.size = d.size - 1
       /\ \A x \in Addresses :
            /\ e.next[x] = IF x = a THEN NULL ELSE IF x = p THEN b ELSE d.next[x]
            /\ e.prev[x] = IF x = a THEN NULL ELSE IF x = b THEN p ELSE d.prev[x]
  <2>1. d.size > 0
    BY <1>1, <1>5
  <2>2. a \in Nodes
    BY <1>6
  <2> QED
    BY <1>7, <1>8, <2>1, <2>2, UnlinkIs DEF e, Deques
<1>13. \A j \in 0 .. m - 1 : e.next[Stop(t, j)] = Stop(t, j + 1) /\ e.prev[Stop(t, j + 1)] = Stop(t, j)
  <2> TAKE j \in 0 .. m - 1
  <2> HIDE DEF m
  <2>0. j \in 0 .. m /\ j + 1 \in 0 .. m /\ j \in 0 .. m + 1 /\ j + 1 \in 0 .. m + 1
        /\ j + 2 \in 0 .. m + 1 /\ (j + 1) + 1 = j + 2
    BY <1>1
  <2>1. CASE j < i - 1
    <3>1. j < i /\ j + 1 < i /\ j # i - 1 /\ j + 1 # i + 1 /\ j # i /\ j + 1 # i
      BY <1>1, <1>5, <2>1
    <3>2. Stop(t, j) = Stop(s, j) /\ Stop(t, j + 1) = Stop(s, j + 1)
      BY <1>11, <2>0, <3>1
    <3>3. Stop(s, j) # a /\ Stop(s, j) # p /\ Stop(s, j + 1) # a /\ Stop(s, j + 1) # b
      BY <1>4, <1>5, <1>6, <2>0, <3>1 DEF p, b
    <3>4. Stop(s, j) \in Addresses /\ Stop(s, j + 1) \in Addresses
      BY <1>3, <2>0
    <3>5. d.next[Stop(s, j)] = Stop(s, j + 1) /\ d.prev[Stop(s, j + 1)] = Stop(s, j)
      BY <1>2, <2>0
    <3> QED
      BY <1>12, <3>2, <3>3, <3>4, <3>5
  <2>2. CASE j = i - 1
    <3>1. j < i /\ ~(j + 1 < i) /\ (j + 1) + 1 = i + 1
      BY <1>1, <1>5, <2>2
    <3>2. Stop(t, j) = p /\ Stop(t, j + 1) = b
      BY <1>11, <2>0, <2>2, <3>1 DEF p, b
    <3> QED
      BY <1>8, <1>12, <3>2
  <2>3. CASE j >= i
    <3>1. ~(j < i) /\ ~(j + 1 < i) /\ j + 1 # i - 1 /\ j + 2 # i + 1 /\ j + 1 # i /\ j + 2 # i
      BY <1>1, <1>5, <2>3
    <3>2. Stop(t, j) = Stop(s, j + 1) /\ Stop(t, j + 1) = Stop(s, j + 2)
      BY <1>11, <2>0, <3>1
    <3>3. Stop(s, j + 1) # a /\ Stop(s, j + 1) # p /\ Stop(s, j + 2) # a /\ Stop(s, j + 2) # b
      BY <1>4, <1>5, <1>6, <2>0, <3>1 DEF p, b
    <3>4. Stop(s, j + 1) \in Addresses /\ Stop(s, j + 2) \in Addresses
      BY <1>3, <2>0
    <3>5. d.next[Stop(s, j + 1)] = Stop(s, j + 2) /\ d.prev[Stop(s, j + 2)] = Stop(s, j + 1)
      BY <1>2, <2>0
    <3> QED
      BY <1>12, <3>2, <3>3, <3>4, <3>5
  <2> QED
    BY <1>1, <1>5, <2>1, <2>2, <2>3
<1>14. Chain(e, t)
  BY <1>1, <1>9, <1>10, <1>12, <1>13 DEF Chain
<1>15. \A x \in Nodes : x # a => e.holds[x] = d.holds[x]
  <2>1. d.holds \in [Nodes -> Elements]
    BY DEF Deques
  <2> QED
    BY <1>12, <2>1
<1> QED
  BY <1>7, <1>12, <1>14, <1>15 DEF a, p, b, t, e

\* A list in which each node is once is no longer than a loop may run.
LEMMA SizeIs ==
  ASSUME NEW s \in Seq(Nodes), Apart(s)
  PROVE  Cardinality(Range(s)) = Len(s) /\ Len(s) <= Rounds /\ Rounds \in Nat
<1> DEFINE m == Len(s)
<1>1. m \in Nat /\ s \in [1 .. m -> Nodes] /\ s \in [1 .. m -> Range(s)]
      /\ \A x \in Range(s) : \E i \in 1 .. m : s[i] = x
  <2>1. m \in Nat /\ s \in [1 .. m -> Nodes]
    OBVIOUS
  <2>2. \A x : x \in Range(s) <=> \E i \in 1 .. m : x = s[i]
    BY RangeIs
  <2> QED
    BY <2>1, <2>2
<1>2. IsInjective(s)
  BY DEF Apart, IsInjective
<1>3. IsFiniteSet(1 .. m) /\ Cardinality(1 .. m) = m
  <2>1. 1 \in Int /\ m \in Int
    BY <1>1
  <2>2. IsFiniteSet(1 .. m) /\ Cardinality(1 .. m) = IF 1 > m THEN 0 ELSE m - 1 + 1
    BY <2>1, FS_Interval
  <2> QED
    BY <1>1, <2>2
<1> HIDE DEF m
<1>4. IsFiniteSet(Nodes)
  BY DequeAssumption
<1>5. s \in Injection(1 .. m, Nodes)
  BY <1>1, <1>2 DEF Injection
<1>6. Cardinality(1 .. m) <= Cardinality(Nodes)
  BY <1>4, <1>5, FS_Injection
<1>7. s \in Bijection(1 .. m, Range(s))
  BY <1>1, <1>2 DEF Injection, Surjection, Bijection
<1>8. Cardinality(Range(s)) = Cardinality(1 .. m)
  <2>1. ExistsBijection(1 .. m, Range(s))
    BY <1>7, Zenon DEF ExistsBijection
  <2> QED
    BY <1>3, <2>1, FS_Bijection
<1>9. Rounds \in Nat
  BY <1>4, FS_CardinalityType DEF Rounds
<1> QED
  BY <1>3, <1>6, <1>8, <1>9 DEF m, Rounds

\* ptr leads from a over the nodes of s to end.
Along(ptr, a, s, end) ==
  \A i \in 0 .. Len(s) :
    (IF i = 0 THEN a ELSE ptr[s[i]]) = IF i = Len(s) THEN end ELSE s[i + 1]

\* The nodes that are met along ptr from a on are those of s, when what they lead to is
\* no node.
LEMMA PathIs ==
  ASSUME NEW ptr, NEW a, NEW s \in Seq(Nodes), Apart(s), NEW end, end \notin Nodes,
         Along(ptr, a, s, end)
  PROVE  Path(ptr, a) = s
<1> DEFINE m == Len(s)
           at(i) == IF i <= m THEN i ELSE m
           v == [i \in Nat |-> SubSeq(s, 1, at(i))]
           body == [x \in Seq(Nodes) |-> Longer(x, IF x = <<>> THEN a ELSE ptr[Last(x)])]
<1>1. m \in Nat /\ s \in Seq(Nodes) /\ m <= Rounds /\ Rounds \in Nat
  BY SizeIs
<1>2. \A i \in 0 .. m : /\ SubSeq(s, 1, i) \in Seq(Nodes) /\ Len(SubSeq(s, 1, i)) = i
                        /\ \A j \in 1 .. i : SubSeq(s, 1, i)[j] = s[j]
  OBVIOUS
<1>3. \A i \in 0 .. m - 1 : SubSeq(s, 1, i + 1) = Append(SubSeq(s, 1, i), s[i + 1])
  <2> TAKE i \in 0 .. m - 1
  <2>1. i \in 0 .. m /\ i + 1 \in 0 .. m /\ i \in Nat /\ i + 1 \in 1 .. m /\ i + 1 \in Nat
    BY <1>1
  <2> DEFINE x == SubSeq(s, 1, i)
             y == SubSeq(s, 1, i + 1)
  <2>2. x \in Seq(Nodes) /\ Len(x) = i /\ \A j \in 1 .. i : x[j] = s[j]
    BY <1>2, <2>1
  <2>3. y \in Seq(Nodes) /\ Len(y) = i + 1 /\ \A j \in 1 .. i + 1 : y[j] = s[j]
    BY <1>2, <2>1
  <2>4. s[i + 1] \in Nodes
    BY <2>1
  <2> HIDE DEF x, y, m
  <2>5. /\ Append(x, s[i + 1]) \in Seq(Nodes) /\ Len(Append(x, s[i + 1])) = i + 1
        /\ \A j \in 1 .. i + 1 : Append(x, s[i + 1])[j] = s[j]
    BY <2>1, <2>2, <2>4
  <2> QED
    BY <2>3, <2>5, SeqEqual DEF x, y
<1>4. \A i \in 0 .. m : body[SubSeq(s, 1, i)] = SubSeq(s, 1, IF i = m THEN m ELSE i + 1)
  <2> TAKE i \in 0 .. m
  <2> DEFINE x == SubSeq(s, 1, i)
             n == IF i = 0 THEN a ELSE ptr[s[i]]
  <2>1. x \in Seq(Nodes) /\ Len(x) = i /\ (i # 0 => x[i] = s[i]) /\ i \in Nat
    BY <1>1, <1>2
  <2>2. (x = <<>> <=> i = 0) /\ (i # 0 => Last(x) = s[i])
    <3> HIDE DEF x
    <3>1. Last(x) = x[i]
      BY <2>1 DEF Last
    <3> QED
      BY <2>1, <3>1, EmptySeq
  <2>3. body[x] = Longer(x, n)
    BY <2>1, <2>2
  <2>4. n = IF i = m THEN end ELSE s[i + 1]
    BY DEF Along
  <2> HIDE DEF n, body, x
  <2>5. CASE i = m
    BY <2>3, <2>4, <2>5 DEF Longer, x
  <2>6. CASE i # m
    <3>1. i \in 0 .. m - 1 /\ s[i + 1] \in Nodes
      BY <1>1, <2>6
    <3>2. body[x] = Append(x, s[i + 1])
      BY <2>3, <2>4, <2>6, <3>1 DEF Longer
    <3> QED
      BY <1>3, <2>6, <3>1, <3>2 DEF x
  <2> QED
    BY <2>5, <2>6
<1>5. Goes(body, v)
  <2> SUFFICES ASSUME NEW i \in Nat PROVE body[v[i]] = v[i + 1]
    BY DEF Goes
  <2>1. at(i) \in 0 .. m /\ i + 1 \in Nat /\ at(i + 1) = IF at(i) = m THEN m ELSE at(i) + 1
    BY <1>1
  <2>2. v[i] = SubSeq(s, 1, at(i)) /\ v[i + 1] = SubSeq(s, 1, at(i + 1))
    BY <2>1
  <2> HIDE DEF v, body, at
  <2> QED
    BY <1>4, <2>1, <2>2
<1>6. v[0] = <<>> /\ v[Rounds] = s
  <2>1. at(0) = 0 /\ at(Rounds) = m
    BY <1>1
  <2>2. SubSeq(s, 1, 0) = <<>> /\ SubSeq(s, 1, m) = s
    OBVIOUS
  <2>3. v[0] = SubSeq(s, 1, at(0)) /\ v[Rounds] = SubSeq(s, 1, at(Rounds))
    BY <1>1
  <2> QED
    BY <2>1, <2>2, <2>3
<1> HIDE DEF v, body
<1>7. Iterate(body, v[0], Rounds) = v[Rounds]
  <2>1. \A n \in Nat : Iterate(body, v[0], n) = v[n]
    BY <1>5, IterateIs
  <2> QED
    BY <1>1, <2>1
<1> QED
  BY <1>6, <1>7 DEF Path, body

\* Along next the list is found, and along prev the list in the opposite order.
LEMMA ChainPaths ==
  ASSUME NEW d \in Deques, NEW s, Chain(d, s)
  PROVE  Path(d.next, d.next[Start]) = s /\ Path(d.prev, d.prev[End]) = Reverse(s)
<1> DEFINE m == Len(s)
           r == Reverse(s)
<1>1. s \in Seq(Nodes) /\ Apart(s) /\ m \in Nat
  BY DEF Chain
<1>2. \A i \in 0 .. m : d.next[Stop(s, i)] = Stop(s, i + 1) /\ d.prev[Stop(s, i + 1)] = Stop(s, i)
  BY DEF Chain
<1>3. /\ Stop(s, 0) = Start /\ Stop(s, m + 1) = End
      /\ \A i \in 1 .. m : Stop(s, i) = s[i] /\ s[i] \in Nodes
  BY <1>1, StopIs
<1>4. Path(d.next, d.next[Start]) = s
  <2>1. Along(d.next, d.next[Start], s, End)
    <3> SUFFICES ASSUME NEW i \in 0 .. m
                 PROVE  (IF i = 0 THEN d.next[Start] ELSE d.next[s[i]])
                          = IF i = m THEN End ELSE s[i + 1]
      BY DEF Along
    <3>1. (i # 0 => i \in 1 .. m) /\ (i # m => i + 1 \in 1 .. m)
      BY <1>1
    <3>2. (IF i = 0 THEN d.next[Start] ELSE d.next[s[i]]) = d.next[Stop(s, i)]
      BY <1>3, <3>1
    <3>3. Stop(s, i + 1) = IF i = m THEN End ELSE s[i + 1]
      BY <1>3, <3>1
    <3> QED
      BY <1>2, <3>2, <3>3
  <2> QED
    BY <1>1, <2>1, PathIs, NodesApart
<1>5. r \in Seq(Nodes) /\ Len(r) = m /\ \A i \in 1 .. m : r[i] = s[(m - i) + 1]
  BY <1>1 DEF Reverse
<1> HIDE DEF r
<1>6. Apart(r)
  <2> SUFFICES ASSUME NEW i \in 1 .. m, NEW j \in 1 .. m, r[i] = r[j] PROVE i = j
    BY <1>5 DEF Apart
  <2>1. (m - i) + 1 \in 1 .. m /\ (m - j) + 1 \in 1 .. m
    BY <1>1
  <2>2. s[(m - i) + 1] = s[(m - j) + 1]
    BY <1>5
  <2>3. (m - i) + 1 = (m - j) + 1
    BY <1>1, <2>1, <2>2 DEF Apart
  <2> QED
    BY <1>1, <2>3
<1>7. Path(d.prev, d.prev[End]) = r
  <2>1. Along(d.prev, d.prev[End], r, Start)
    <3> SUFFICES ASSUME NEW i \in 0 .. m
                 PROVE  (IF i = 0 THEN d.prev[End] ELSE d.prev[r[i]])
                          = IF i = m THEN Start ELSE r[i + 1]
      BY <1>5 DEF Along
    <3>1. /\ (i # 0 => i \in 1 .. m /\ (m - i) + 1 \in 1 .. m)
          /\ (i # m => i + 1 \in 1 .. m /\ m - i \in 1 .. m /\ (m - (i + 1)) + 1 = m - i)
          /\ m - i \in 0 .. m /\ (i = 0 => (m - i) + 1 = m + 1) /\ (i = m => m - i = 0)
      BY <1>1
    <3>2. (IF i = 0 THEN d.prev[End] ELSE d.prev[r[i]]) = d.prev[Stop(s, (m - i) + 1)]
      <4>1. CASE i = 0
        BY <1>3, <3>1, <4>1
      <4>2. CASE i # 0
        BY <1>3, <1>5, <3>1, <4>2
      <4> QED
        BY <4>1, <4>2
    <3>3. Stop(s, m - i) = IF i = m THEN Start ELSE r[i + 1]
      <4>1. CASE i = m
        BY <1>3, <3>1, <4>1
      <4>2. CASE i # m
        BY <1>3, <1>5, <3>1, <4>2
      <4> QED
        BY <4>1, <4>2
    <3>4. d.prev[Stop(s, (m - i) + 1)] = Stop(s, m - i)
      BY <1>2, <3>1
    <3> QED
      BY <1>5, <3>2, <3>3, <3>4
  <2> QED
    BY <1>5, <1>6, <2>1, PathIs, NodesApart
<1> QED
  BY <1>4, <1>7 DEF r

-----------------------------------------------------------------------------
(* The inductive invariant. *)

Linked(d) == d \in Deques /\ \E s : Chain(d, s)

DequeInv ==
  /\ Linked(q)
  /\ iter \in {NoIter, NULL, Start} \union q.live

\* A well linked deque has the chains that WellLinked speaks of.
LEMMA LinkedIs ==
  ASSUME DequeInv
  PROVE  WellLinked
<1>1. PICK s : Chain(q, s)
  BY DEF DequeInv, Linked
<1>2. q \in Deques
  BY DEF DequeInv, Linked
<1>3. Forward = s /\ Backward = Reverse(s)
  BY <1>1, <1>2, ChainPaths DEF Forward, Backward
<1>4. s \in Seq(Nodes) /\ Apart(s) /\ Range(s) = q.live /\ Len(s) = q.size
  BY <1>1 DEF Chain
<1>5. Cardinality(q.live) = q.size
  BY <1>4, SizeIs
<1>6. iter \in Nodes => iter \in q.live
  BY NodesApart DEF DequeInv
<1>7. q.next \in [Addresses -> Pointers] /\ q.prev \in [Addresses -> Pointers]
  BY <1>2 DEF Deques
<1> QED
  BY <1>3, <1>4, <1>5, <1>6, <1>7 DEF WellLinked, Pointers

-----------------------------------------------------------------------------
(* Removing what is in a set, in one pass over the list. *)

Splits(S, k, r) ==
  /\ Head(r) \in S /\ Tail(r) \in Seq(S) /\ Len(Tail(r)) = Len(r) - 1
  /\ Append(k, Head(r)) \in Seq(S) /\ Len(Append(k, Head(r))) = Len(k) + 1
  /\ k \o r \in Seq(S) /\ Len(k) + 1 \in 1 .. Len(k \o r) /\ (k \o r)[Len(k) + 1] = Head(r)
  /\ r = <<Head(r)>> \o Tail(r)
  /\ Append(k, Head(r)) \o Tail(r) = k \o r
  /\ RemoveAt(k \o r, Len(k) + 1) = k \o Tail(r)

\* The element behind the first ones of a list.
LEMMA Onward ==
  ASSUME NEW S, NEW k \in Seq(S), NEW r \in Seq(S), r # <<>>
  PROVE  Splits(S, k, r)
<1> DEFINE h == Head(r)
           t == Tail(r)
           a == Len(k)
           b == Len(r)
<1>1. h \in S /\ t \in Seq(S) /\ Len(t) = b - 1 /\ h = r[1] /\ \A i \in 1 .. b - 1 : t[i] = r[i + 1]
  OBVIOUS
<1>2. a \in Nat /\ b \in Nat \ {0}
  BY EmptySeq
<1>3. <<h>> \in Seq(S) /\ Len(<<h>>) = 1 /\ <<h>>[1] = h
  BY <1>1
<1>4. Append(k, h) \in Seq(S) /\ Len(Append(k, h)) = a + 1 /\ Append(k, h) = k \o <<h>>
  BY <1>1, AppendIsConcat, AppendProperties
<1>5. k \o r \in Seq(S) /\ Len(k \o r) = a + b
      /\ \A i \in 1 .. a + b : (k \o r)[i] = IF i <= a THEN k[i] ELSE r[i - a]
  BY ConcatProperties
<1>6. k \o t \in Seq(S) /\ Len(k \o t) = a + (b - 1)
      /\ \A i \in 1 .. a + (b - 1) : (k \o t)[i] = IF i <= a THEN k[i] ELSE t[i - a]
  BY <1>1, ConcatProperties
<1>7. a + 1 \in 1 .. Len(k \o r) /\ (k \o r)[a + 1] = h
  <2>1. a + 1 \in 1 .. a + b /\ ~(a + 1 <= a) /\ (a + 1) - a = 1
    BY <1>2
  <2> QED
    BY <1>1, <1>5, <2>1
<1>8. r = <<h>> \o t
  <2>1. <<h>> \o t \in Seq(S) /\ Len(<<h>> \o t) = 1 + (b - 1)
        /\ \A i \in 1 .. 1 + (b - 1) : (<<h>> \o t)[i] = IF i <= 1 THEN <<h>>[i] ELSE t[i - 1]
    BY <1>1, <1>3, ConcatProperties
  <2>2. 1 + (b - 1) = b /\ \A i \in 1 .. b : (i <= 1 <=> i = 1) /\ (i # 1 => i - 1 \in 1 .. b - 1 /\ (i - 1) + 1 = i)
    BY <1>2
  <2> HIDE DEF h, t, b
  <2>3. \A i \in 1 .. b : (<<h>> \o t)[i] = r[i]
    BY <1>1, <1>3, <2>1, <2>2
  <2>4. Len(<<h>> \o t) = Len(r) /\ \A i \in 1 .. Len(<<h>> \o t) : (<<h>> \o t)[i] = r[i]
    <3>1. Len(<<h>> \o t) = b /\ Len(r) = b
      BY <2>1, <2>2 DEF b
    <3> QED
      BY <2>3, <3>1
  <2> QED
    BY <2>1, <2>4, SeqEqual, Zenon
<1>9. Append(k, h) \o t = k \o r
  BY <1>1, <1>3, <1>4, <1>8, ConcatAssociative
<1>10. RemoveAt(k \o r, a + 1) = k \o t
  <2>1. /\ RemoveAt(k \o r, a + 1) \in Seq(S) /\ Len(RemoveAt(k \o r, a + 1)) = (a + b) - 1
        /\ \A i \in 1 .. (a + b) - 1 :
             RemoveAt(k \o r, a + 1)[i] = IF i < a + 1 THEN (k \o r)[i] ELSE (k \o r)[i + 1]
    BY <1>5, <1>7, RemoveAtIs
  <2>2. (a + b) - 1 = a + (b - 1)
    BY <1>2
  <2>3. \A i \in 1 .. a + (b - 1) : RemoveAt(k \o r, a + 1)[i] = (k \o t)[i]
    <3> TAKE i \in 1 .. a + (b - 1)
    <3>1. i \in 1 .. a + b /\ i + 1 \in 1 .. a + b /\ (i < a + 1 <=> i <= a)
      BY <1>2
    <3>2. i > a => /\ i - a \in 1 .. b - 1 /\ (i - a) + 1 = (i + 1) - a /\ ~(i + 1 <= a)
      BY <1>2
    <3> HIDE DEF h, t, a, b
    <3>3. CASE i <= a
      BY <1>5, <1>6, <2>1, <2>2, <3>1, <3>3
    <3>4. CASE ~(i <= a)
      <4>1. RemoveAt(k \o r, a + 1)[i] = (k \o r)[i + 1]
        BY <2>1, <2>2, <3>1, <3>4
      <4>2. i > a
        BY <1>2, <3>4
      <4>3. (k \o r)[i + 1] = r[(i + 1) - a]
        BY <1>5, <3>1, <3>2, <4>2
      <4>4. (k \o t)[i] = t[i - a]
        BY <1>6, <3>4
      <4> QED
        BY <1>1, <3>2, <4>1, <4>2, <4>3, <4>4
    <3> QED
      BY <3>3, <3>4
  <2> DEFINE u == RemoveAt(k \o r, a + 1)
             w == k \o t
  <2> HIDE DEF u, w, a, b, h, t
  <2>4. u \in Seq(S) /\ w \in Seq(S) /\ Len(u) = Len(w) /\ \A i \in 1 .. Len(u) : u[i] = w[i]
    BY <1>6, <2>1, <2>2, <2>3 DEF u, w
  <2>5. u = w
    BY <2>4, SeqEqual, Zenon
  <2> QED
    BY <2>5 DEF u, w
<1> QED
  BY <1>1, <1>4, <1>5, <1>7, <1>8, <1>9, <1>10 DEF Splits

\* What follows a stop.
LEMMA NextIs ==
  ASSUME NEW d \in Deques, NEW s, Chain(d, s), NEW j \in 0 .. Len(s)
  PROVE  DequeNext(d, Stop(s, j)) = IF j = Len(s) THEN NULL ELSE s[j + 1]
<1>1. s \in Seq(Nodes) /\ Len(s) \in Nat /\ d.size = Len(s)
  BY DEF Chain
<1>2. d.next[Stop(s, j)] = Stop(s, j + 1)
  BY DEF Chain
<1>3. Stop(s, j) # NULL
  BY <1>1, StopIs, NodesApart
<1>4. CASE j = Len(s)
  BY <1>1, <1>2, <1>4, StopIs DEF DequeNext
<1>5. CASE j # Len(s)
  <2>1. j + 1 \in 1 .. Len(s) /\ Len(s) # 0
    BY <1>1, <1>5
  <2>2. Stop(s, j + 1) = s[j + 1] /\ s[j + 1] # End
    BY <1>1, <2>1, StopIs, NodesApart
  <2> QED
    BY <1>1, <1>2, <1>3, <1>5, <2>1, <2>2 DEF DequeNext
<1> QED
  BY <1>4, <1>5

\* What stays of the nodes when those of S are removed.
Keep(S) == [n \in Nodes |-> IF n \in S THEN <<>> ELSE <<n>>]

\* Where the loop is after n rounds: the nodes of k stay, and those of r are to come.
Removing(d, s, S, n, x) ==
  \E k, r \in Seq(Nodes) :
    /\ Chain(x.d, k \o r) /\ x.at = Stop(k \o r, Len(k))
    /\ FlatMap(Keep(S), s) = k \o FlatMap(Keep(S), r)
    /\ \A a \in Range(k \o r) : x.d.holds[a] = d.holds[a]
    /\ r = <<>> \/ Len(r) + n <= Len(s)

\* FlatMap, from the first element on.
LEMMA FlatMapHead ==
  ASSUME NEW S, NEW T, NEW F \in [S -> Seq(T)]
  PROVE  \A r \in Seq(S) : r # <<>> =>
           FlatMap(F, r) = F[Head(r)] \o FlatMap(F, Tail(r))
<1>0. \A u \in Seq(S) : \A v \in Seq(S) : FlatMap(F, u \o v) = FlatMap(F, u) \o FlatMap(F, v)
  BY FlatMapConcat
<1> SUFFICES ASSUME NEW r \in Seq(S), r # <<>>
             PROVE  FlatMap(F, r) = F[Head(r)] \o FlatMap(F, Tail(r))
  OBVIOUS
<1>1. Head(r) \in S /\ Tail(r) \in Seq(S) /\ <<Head(r)>> \in Seq(S)
  OBVIOUS
<1>2. r = <<Head(r)>> \o Tail(r)
  <2>1. Splits(S, <<>>, r)
    BY Onward, EmptySeq
  <2> QED
    BY <2>1 DEF Splits
<1>3. FlatMap(F, <<Head(r)>> \o Tail(r)) = FlatMap(F, <<Head(r)>>) \o FlatMap(F, Tail(r))
  BY <1>0, <1>1, Zenon
<1>4. FlatMap(F, <<Head(r)>>) = F[Head(r)]
  BY <1>1, FlatMapOne, Zenon
<1> QED
  BY <1>2, <1>3, <1>4, Zenon

\* What is kept of a list, from its first element on.
LEMMA KeepIs ==
  ASSUME NEW S
  PROVE  /\ Keep(S) \in [Nodes -> Seq(Nodes)]
         /\ FlatMap(Keep(S), <<>>) = <<>>
         /\ \A r \in Seq(Nodes) : FlatMap(Keep(S), r) \in Seq(Nodes)
         /\ \A r \in Seq(Nodes) : r # <<>> =>
              FlatMap(Keep(S), r) = Keep(S)[Head(r)] \o FlatMap(Keep(S), Tail(r))
<1>1. Keep(S) \in [Nodes -> Seq(Nodes)]
  BY DEF Keep
<1>2. FlatMap(Keep(S), <<>>) = <<>>
  BY <1>1, FlatMapAppend
<1>3. \A r \in Seq(Nodes) : FlatMap(Keep(S), r) \in Seq(Nodes)
  BY <1>1, FlatMapType
<1>4. \A r \in Seq(Nodes) : r # <<>> =>
        FlatMap(Keep(S), r) = Keep(S)[Head(r)] \o FlatMap(Keep(S), Tail(r))
  BY <1>1, FlatMapHead
<1> QED
  BY <1>1, <1>2, <1>3, <1>4

\* The node behind the first ones of a list, and the deque without it.
LEMMA RemoveHead ==
  ASSUME NEW d \in Deques, NEW k \in Seq(Nodes), NEW r \in Seq(Nodes), Chain(d, k \o r), r # <<>>
  PROVE  LET e == Unlink(d, Head(r))
         IN  /\ Head(r) \in Nodes /\ DequeNext(d, Stop(k \o r, Len(k))) = Head(r)
             /\ Stop(k \o r, Len(k) + 1) = Head(r)
             /\ e \in Deques /\ Chain(e, k \o Tail(r))
             /\ d.prev[Head(r)] = Stop(k \o Tail(r), Len(k))
             /\ \A b \in Range(k \o Tail(r)) : b \in Range(k \o r) /\ e.holds[b] = d.holds[b]
<1>0. /\ Head(r) \in Nodes /\ k \o r \in Seq(Nodes) /\ Len(k) + 1 \in 1 .. Len(k \o r)
      /\ (k \o r)[Len(k) + 1] = Head(r) /\ RemoveAt(k \o r, Len(k) + 1) = k \o Tail(r)
  <2>1. Splits(Nodes, k, r)
    BY Onward
  <2> QED
    BY <2>1 DEF Splits
<1> DEFINE c == k \o r
           a == Len(k)
           h == Head(r)
           w == k \o Tail(r)
           e == Unlink(d, h)
<1>1. /\ h \in Nodes /\ c \in Seq(Nodes) /\ a + 1 \in 1 .. Len(c) /\ c[a + 1] = h
      /\ RemoveAt(c, a + 1) = w
  BY <1>0
<1>2. a \in Nat /\ Len(c) \in Nat
  BY <1>1
<1>3. Chain(d, c)
  OBVIOUS
<1>4. e = Unlink(d, h)
  OBVIOUS
<1> HIDE DEF a, c, h, w, e
<1>5. DequeNext(d, Stop(c, a)) = h
  <2>1. a \in 0 .. Len(c) /\ a # Len(c)
    BY <1>1, <1>2
  <2> QED
    BY <1>1, <1>3, <2>1, NextIs
<1>6. Stop(c, a + 1) = h
  BY <1>1, StopIs
<1>7. /\ e \in Deques /\ Chain(e, w) /\ d.prev[h] = Stop(c, (a + 1) - 1)
      /\ \A x \in Nodes : x # h => e.holds[x] = d.holds[x]
  <2> DEFINE i == a + 1
  <2>1. i \in 1 .. Len(c) /\ e = Unlink(d, c[i]) /\ w = RemoveAt(c, i) /\ h = c[i]
    BY <1>1, <1>4
  <2> HIDE DEF i
  <2>2. /\ e \in Deques /\ Chain(e, w) /\ d.prev[h] = Stop(c, i - 1)
        /\ \A x \in Nodes : x # h => e.holds[x] = d.holds[x]
    BY <1>3, <2>1, ChainUnlink
  <2> QED
    BY <2>2 DEF i
<1>8. Stop(c, (a + 1) - 1) = Stop(w, a)
  <2>1. \A j \in 0 .. Len(c) : Stop(w, j) = IF j < a + 1 THEN Stop(c, j) ELSE Stop(c, j + 1)
    BY <1>1, StopWithout
  <2>2. (a + 1) - 1 = a /\ a < a + 1 /\ a \in 0 .. Len(c)
    BY <1>1, <1>2
  <2> QED
    BY <2>1, <2>2
<1>9. Range(w) = Range(c) \ {h}
  <2>1. Apart(c)
    BY <1>3 DEF Chain
  <2> QED
    BY <1>1, <2>1, WithoutIs
<1>10. \A b \in Range(w) : b \in Range(c) /\ e.holds[b] = d.holds[b]
  <2>1. Range(c) \in SUBSET Nodes
    BY <1>1, RangeOfSeq
  <2>2. \A b \in Range(w) : b \in Nodes /\ b # h /\ b \in Range(c)
    BY <1>9, <2>1
  <2> QED
    BY <1>7, <2>2
<1> QED
  BY <1>1, <1>5, <1>6, <1>7, <1>8, <1>10 DEF a, c, h, w, e

\* One more round.
LEMMA RemoveRoundIs ==
  ASSUME NEW d, NEW s, s \in Seq(Nodes), NEW S, NEW n \in Nat,
         NEW x \in [d : Deques, at : Pointers], Removing(d, s, S, n, x),
         NEW y, y = RemoveRound(x, DequeNext(x.d, x.at), S)
  PROVE  y \in [d : Deques, at : Pointers] /\ Removing(d, s, S, n + 1, y)
<1> DEFINE F == Keep(S)
<1>1. PICK k \in Seq(Nodes), r \in Seq(Nodes) :
        /\ Chain(x.d, k \o r) /\ x.at = Stop(k \o r, Len(k))
        /\ FlatMap(F, s) = k \o FlatMap(F, r)
        /\ \A a \in Range(k \o r) : x.d.holds[a] = d.holds[a]
        /\ r = <<>> \/ Len(r) + n <= Len(s)
  BY DEF Removing
<1> DEFINE c == k \o r
           a == Len(k)
<1>2. x.d \in Deques /\ a \in Nat /\ Len(r) \in Nat /\ Len(s) \in Nat
      /\ c \in Seq(Nodes) /\ Len(c) = a + Len(r) /\ a \in 0 .. Len(c)
  BY ConcatProperties
<1>3. FlatMap(F, s) = k \o FlatMap(F, r) /\ x.at \in Pointers
  BY <1>1
<1>4. CASE r = <<>>
  <2>1. c = k /\ a = Len(c)
    BY <1>2, <1>4, ConcatEmptySeq
  <2>2. DequeNext(x.d, x.at) = NULL
    <3>1. Chain(x.d, c) /\ x.at = Stop(c, a)
      BY <1>1
    <3> HIDE DEF c, a
    <3>2. DequeNext(x.d, Stop(c, a)) = NULL
      BY <1>2, <2>1, <3>1, NextIs DEF Deques
    <3> QED
      BY <3>1, <3>2
  <2>3. y = x
    BY <2>2 DEF RemoveRound
  <2> QED
    BY <1>1, <1>4, <2>3 DEF Removing
<1>5. CASE r # <<>>
  <2> DEFINE h == Head(r)
             t == Tail(r)
             e == Unlink(x.d, h)
  <2>1. /\ h \in Nodes /\ t \in Seq(Nodes) /\ Len(t) = Len(r) - 1
        /\ Append(k, h) \in Seq(Nodes) /\ Len(Append(k, h)) = a + 1
        /\ Append(k, h) \o t = c
    <3>1. Splits(Nodes, k, r)
      BY <1>5, Onward
    <3> QED
      BY <3>1 DEF Splits
  <2>2. /\ DequeNext(x.d, x.at) = h /\ Stop(c, a + 1) = h /\ h # NULL
        /\ e \in Deques /\ Chain(e, k \o t) /\ x.d.prev[h] = Stop(k \o t, a)
        /\ \A b \in Range(k \o t) : b \in Range(c) /\ e.holds[b] = x.d.holds[b]
    BY <1>1, <1>2, <1>5, RemoveHead, NodesApart
  <2>3. FlatMap(F, r) = F[h] \o FlatMap(F, t) /\ FlatMap(F, t) \in Seq(Nodes)
    BY <1>5, <2>1, KeepIs
  <2>4. t = <<>> \/ Len(t) + (n + 1) <= Len(s)
    BY <1>1, <1>2, <1>5, <2>1
  <2>5. y = IF h \in S THEN [d |-> e, at |-> x.d.prev[h]] ELSE [x EXCEPT !.at = h]
    BY <2>2 DEF RemoveRound
  <2>6. x.d.prev[h] \in Pointers /\ h \in Pointers
    BY <1>2, <2>1 DEF Deques, Addresses, Pointers
  <2> HIDE DEF F, h, t, e, a, c
  <2>7. CASE h \in S
    <3>1. F[h] = <<>>
      BY <2>1, <2>7 DEF Keep, F
    <3>2. FlatMap(F, r) = FlatMap(F, t)
      BY <2>3, <3>1, ConcatEmptySeq
    <3>3. y \in [d : Deques, at : Pointers] /\ y.d = e /\ y.at = Stop(k \o t, a)
      BY <2>2, <2>5, <2>6, <2>7
    <3>4. \A b \in Range(k \o t) : e.holds[b] = d.holds[b]
      BY <1>1, <2>2 DEF c
    <3>5. Chain(y.d, k \o t) /\ FlatMap(F, s) = k \o FlatMap(F, t)
          /\ \A b \in Range(k \o t) : y.d.holds[b] = d.holds[b]
      BY <1>3, <2>2, <3>2, <3>3, <3>4
    <3>6. Removing(d, s, S, n + 1, y)
      BY <2>1, <2>4, <3>3, <3>5 DEF Removing, F, a
    <3> QED
      BY <3>3, <3>6
  <2>8. CASE h \notin S
    <3>1. y \in [d : Deques, at : Pointers] /\ y.d = x.d /\ y.at = h
      BY <2>5, <2>6, <2>8
    <3>2. F[h] = <<h>>
      BY <2>1, <2>8 DEF Keep, F
    <3>3. FlatMap(F, s) = Append(k, h) \o FlatMap(F, t)
      <4>1. Append(k, h) = k \o <<h>> /\ <<h>> \in Seq(Nodes)
        BY <2>1, AppendIsConcat
      <4>2. (k \o <<h>>) \o FlatMap(F, t) = k \o (<<h>> \o FlatMap(F, t))
        BY <2>3, <4>1, ConcatAssociative
      <4> QED
        BY <1>3, <2>3, <3>2, <4>1, <4>2
    <3>4. Chain(x.d, Append(k, h) \o t) /\ y.at = Stop(Append(k, h) \o t, Len(Append(k, h)))
          /\ \A b \in Range(Append(k, h) \o t) : x.d.holds[b] = d.holds[b]
      BY <1>1, <2>1, <2>2, <3>1 DEF c
    <3>5. Chain(y.d, Append(k, h) \o t) /\ \A b \in Range(Append(k, h) \o t) : y.d.holds[b] = d.holds[b]
      BY <3>1, <3>4
    <3>6. Removing(d, s, S, n + 1, y)
      BY <2>1, <2>4, <3>3, <3>4, <3>5 DEF Removing, F
    <3> QED
      BY <3>1, <3>6
  <2> QED
    BY <2>7, <2>8
<1> QED
  BY <1>4, <1>5

\* After the loop, what stays is linked, in its order, and holds what it held.
LEMMA RemoveFromIs ==
  ASSUME NEW d \in Deques, NEW s, Chain(d, s), NEW S
  PROVE  LET e == RemoveFrom(d, S)
             t == FlatMap(Keep(S), s)
         IN  /\ e \in Deques /\ Chain(e, t) /\ t \in Seq(Nodes)
             /\ \A a \in Range(t) : e.holds[a] = d.holds[a]
<1> DEFINE X == [d : Deques, at : Pointers]
           body == [x \in X |-> RemoveRound(x, DequeNext(x.d, x.at), S)]
           I == [n \in Nat |-> {x \in X : Removing(d, s, S, n, x)}]
           first == [d |-> d, at |-> Start]
           last == Iterate(body, first, Rounds)
           t == FlatMap(Keep(S), s)
<1>1. s \in Seq(Nodes) /\ Len(s) \in Nat /\ Len(s) <= Rounds /\ Rounds \in Nat
  BY SizeIs DEF Chain
<1>2. first \in X /\ Removing(d, s, S, 0, first)
  <2>1. first \in X /\ first.d = d /\ first.at = Start
    BY DEF Pointers, Addresses
  <2> HIDE DEF first, X
  <2>2. <<>> \in Seq(Nodes) /\ <<>> \o s = s /\ Len(<<>>) = 0 /\ Stop(s, 0) = Start
    BY <1>1, EmptySeq, ConcatEmptySeq, StopIs
  <2>3. FlatMap(Keep(S), s) = <<>> \o FlatMap(Keep(S), s)
    BY <1>1, KeepIs, ConcatEmptySeq
  <2>4. Len(s) + 0 <= Len(s)
    BY <1>1
  <2>5. /\ Chain(first.d, <<>> \o s) /\ first.at = Stop(<<>> \o s, Len(<<>>))
        /\ \A a \in Range(<<>> \o s) : first.d.holds[a] = d.holds[a]
    BY <2>1, <2>2
  <2> QED
    BY <1>1, <2>1, <2>2, <2>3, <2>4, <2>5 DEF Removing
<1>3. Leads(body, I)
  <2> SUFFICES ASSUME NEW n \in Nat, NEW x \in X, Removing(d, s, S, n, x)
               PROVE  body[x] \in X /\ Removing(d, s, S, n + 1, body[x])
    BY DEF Leads
  <2> DEFINE y == body[x]
  <2>1. y = RemoveRound(x, DequeNext(x.d, x.at), S)
    OBVIOUS
  <2> HIDE DEF y
  <2> QED
    BY <1>1, <2>1, RemoveRoundIs DEF y
<1>4. last \in X /\ Removing(d, s, S, Rounds, last)
  <2>1. first \in I[0]
    BY <1>2
  <2>2. \A x \in I[Rounds] : x \in X /\ Removing(d, s, S, Rounds, x)
    BY <1>1
  <2> HIDE DEF body, first, I
  <2>3. last \in I[Rounds]
    BY <1>1, <1>3, <2>1, IterateIn
  <2> QED
    BY <2>2, <2>3
<1>5. RemoveFrom(d, S) = last.d
  BY DEF RemoveFrom
<1> HIDE DEF last
<1>6. PICK k \in Seq(Nodes), r \in Seq(Nodes) :
        /\ Chain(last.d, k \o r)
        /\ t = k \o FlatMap(Keep(S), r)
        /\ \A a \in Range(k \o r) : last.d.holds[a] = d.holds[a]
        /\ r = <<>> \/ Len(r) + Rounds <= Len(s)
  BY <1>4 DEF Removing
<1>7. r = <<>>
  <2> SUFFICES ASSUME r # <<>> PROVE FALSE
    OBVIOUS
  <2>1. Len(r) \in Nat \ {0}
    BY EmptySeq
  <2> QED
    BY <1>1, <1>6, <2>1
<1>8. k \o r = k /\ t = k
  <2>1. k \o r = k /\ k \o <<>> = k
    BY <1>7, ConcatEmptySeq
  <2>2. FlatMap(Keep(S), r) = <<>>
    BY <1>7, KeepIs
  <2> QED
    BY <1>6, <2>1, <2>2
<1> QED
  BY <1>4, <1>5, <1>6, <1>8

-----------------------------------------------------------------------------
(* The merge sort: lists that end with NULL. *)

FirstOf(s) == IF s = <<>> THEN NULL ELSE s[1]
LastOf(s) == IF s = <<>> THEN NULL ELSE s[Len(s)]

Ends(d, s) == \A i \in 1 .. Len(s) : d.next[s[i]] = IF i = Len(s) THEN NULL ELSE s[i + 1]
Begins(d, s) == \A i \in 1 .. Len(s) : d.prev[s[i]] = IF i = 1 THEN NULL ELSE s[i - 1]

Strand(d, s) == s \in Seq(Nodes) /\ Apart(s) /\ Ends(d, s) /\ Begins(d, s)

\* What happened from d to e happened to the links of the nodes of S.
Within(d, e, S) ==
  /\ e \in Deques /\ e.holds = d.holds /\ e.live = d.live /\ e.size = d.size
  /\ \A a \in Addresses \ S : e.next[a] = d.next[a] /\ e.prev[a] = d.prev[a]

\* A list stays when only the links of other nodes change.
LEMMA StrandStays ==
  ASSUME NEW d, NEW e, NEW S, NEW s, Strand(d, s), Within(d, e, S), Range(s) \cap S = {}
  PROVE  Strand(e, s)
<1>1. s \in Seq(Nodes) /\ Apart(s)
  BY DEF Strand
<1>2. \A i \in 1 .. Len(s) : s[i] \in Addresses \ S
  <2> TAKE i \in 1 .. Len(s)
  <2>1. s[i] \in Nodes /\ s[i] \in Range(s)
    BY <1>1, RangeIs
  <2> QED
    BY <2>1 DEF Addresses
<1>3. Ends(e, s)
  BY <1>2 DEF Strand, Ends, Within
<1>4. Begins(e, s)
  BY <1>2 DEF Strand, Begins, Within
<1> QED
  BY <1>1, <1>3, <1>4 DEF Strand

\* The slow pointer gets to the middle.
LEMMA MiddleIs ==
  ASSUME NEW d \in Deques, NEW s, Strand(d, s), Len(s) > 1
  PROVE  \E k \in 1 .. Len(s) - 1 : Middle(d, s[1]) = s[k + 1]
<1> DEFINE m == Len(s)
           k == m \div 2
           at(j) == IF j < m THEN s[j + 1] ELSE NULL
           turn(i) == IF i <= k THEN i ELSE k
           v == [i \in Nat |-> <<at(turn(i)), at(2 * turn(i))>>]
           body == [p \in Pointers \X Pointers |->
                      IF p[2] = NULL \/ d.next[p[2]] = NULL THEN p
                      ELSE <<d.next[p[1]], d.next[d.next[p[2]]]>>]
<1>1. s \in Seq(Nodes) /\ m \in Nat /\ m > 1 /\ m <= Rounds /\ Rounds \in Nat
  BY SizeIs DEF Strand
<1>2. k \in 1 .. m - 1 /\ k \in Nat /\ 2 * k <= m /\ 2 * k >= m - 1 /\ k <= Rounds
  BY <1>1
<1>3. \A j \in Nat : at(j) \in Pointers /\ (j < m => at(j) # NULL) /\ (j >= m => at(j) = NULL)
  <2> TAKE j \in Nat
  <2>1. CASE j < m
    <3>1. j + 1 \in 1 .. m
      BY <1>1, <2>1
    <3>2. s[j + 1] \in Nodes
      BY <1>1, <3>1
    <3> QED
      BY <2>1, <3>2, NodesApart DEF Pointers, Addresses
  <2>2. CASE ~(j < m)
    BY <1>1, <2>2 DEF Pointers
  <2> QED
    BY <2>1, <2>2
<1>4. \A j \in Nat : j < m => d.next[at(j)] = at(j + 1)
  <2> SUFFICES ASSUME NEW j \in Nat, j < m PROVE d.next[at(j)] = at(j + 1)
    OBVIOUS
  <2>1. j + 1 \in 1 .. m /\ (j + 1 = m <=> ~(j + 1 < m)) /\ (j + 1) + 1 = j + 2
    BY <1>1
  <2>2. d.next[s[j + 1]] = IF j + 1 = m THEN NULL ELSE s[j + 2]
    BY <2>1 DEF Strand, Ends
  <2> QED
    BY <2>1, <2>2
<1>5. \A i \in Nat : turn(i) \in 0 .. k
                     /\ turn(i + 1) = IF turn(i) = k THEN k ELSE turn(i) + 1
  BY <1>2
<1>6. ASSUME NEW t \in 0 .. k
      PROVE  body[<<at(t), at(2 * t)>>] = IF t = k THEN <<at(k), at(2 * k)>>
                                          ELSE <<at(t + 1), at(2 * (t + 1))>>
  <2>1. t \in Nat /\ 2 * t \in Nat /\ t < m /\ (t # k => 2 * t < m /\ 2 * t + 1 < m /\ 2 * t + 1 \in Nat)
        /\ 2 * (t + 1) = (2 * t + 1) + 1
    BY <1>1, <1>2
  <2>2. t = k => 2 * t >= m \/ (2 * t < m /\ 2 * t + 1 >= m /\ 2 * t + 1 \in Nat)
    BY <1>1, <1>2
  <2> DEFINE p == <<at(t), at(2 * t)>>
  <2>3. p \in Pointers \X Pointers /\ p[1] = at(t) /\ p[2] = at(2 * t)
    BY <1>3, <2>1
  <2>4. body[p] = IF p[2] = NULL \/ d.next[p[2]] = NULL THEN p
                  ELSE <<d.next[p[1]], d.next[d.next[p[2]]]>>
    BY <2>3
  <2> HIDE DEF at, body, m, k
  <2>5. CASE t = k
    <3>1. p[2] = NULL \/ d.next[p[2]] = NULL
      BY <1>3, <1>4, <2>1, <2>2, <2>3, <2>5
    <3> QED
      BY <2>4, <2>5, <3>1
  <2>6. CASE t # k
    <3>1. p[2] # NULL /\ d.next[p[2]] = at(2 * t + 1) /\ at(2 * t + 1) # NULL
      BY <1>3, <1>4, <2>1, <2>3, <2>6
    <3>2. d.next[p[1]] = at(t + 1) /\ d.next[at(2 * t + 1)] = at(2 * (t + 1))
      BY <1>4, <2>1, <2>3, <2>6
    <3> QED
      BY <2>4, <2>6, <3>1, <3>2
  <2> QED
    BY <2>5, <2>6
<1>7. Goes(body, v)
  <2> SUFFICES ASSUME NEW i \in Nat PROVE body[v[i]] = v[i + 1]
    BY DEF Goes
  <2>1. v[i] = <<at(turn(i)), at(2 * turn(i))>> /\ v[i + 1] = <<at(turn(i + 1)), at(2 * turn(i + 1))>>
    <3>1. i + 1 \in Nat
      OBVIOUS
    <3> HIDE DEF at, turn, body
    <3>2. \A j \in Nat : v[j] = <<at(turn(j)), at(2 * turn(j))>>
      OBVIOUS
    <3> HIDE DEF v
    <3> QED
      BY <3>1, <3>2
  <2> HIDE DEF v, body, at, turn, k, m
  <2> QED
    BY <1>5, <1>6, <2>1
<1>8. v[0] = <<s[1], s[1]>> /\ v[Rounds][1] = s[k + 1]
  <2>1. turn(0) = 0 /\ 2 * 0 = 0 /\ at(0) = s[1] /\ 0 \in Nat
    BY <1>1, <1>2
  <2>2. turn(Rounds) = k /\ at(k) = s[k + 1] /\ Rounds \in Nat
    BY <1>1, <1>2
  <2>3. v[0] = <<at(turn(0)), at(2 * turn(0))>> /\ v[Rounds] = <<at(turn(Rounds)), at(2 * turn(Rounds))>>
    BY <1>1
  <2> HIDE DEF v, at, turn, k
  <2> QED
    BY <2>1, <2>2, <2>3
<1>9. Middle(d, s[1]) = Iterate(body, <<s[1], s[1]>>, Rounds)[1]
  BY DEF Middle
<1>10. \A n \in Nat : Iterate(body, v[0], n) = v[n]
  <2> HIDE DEF body, v
  <2> QED
    BY <1>7, IterateIs
<1> HIDE DEF body, v
<1>11. Iterate(body, <<s[1], s[1]>>, Rounds) = v[Rounds]
  BY <1>1, <1>8, <1>10
<1> QED
  BY <1>2, <1>8, <1>9, <1>11

-----------------------------------------------------------------------------
(* The calls that deque_sort makes of itself. *)

SortOf(f, n) == [y \in Lists |-> IF n = 0 THEN y ELSE SortList(f[n - 1], y)]
Depths(f, n) == f = [i \in 0 .. n |-> SortOf(f, i)]
Depth(f) == f = [i \in Nat |-> SortOf(f, i)]

\* What a function is that goes to some depth.
LEMMA DepthsAt ==
  ASSUME NEW f, NEW n \in Nat
  PROVE  Depths(f, n) <=> f = [i \in 0 .. n |-> f[i]] /\ \A i \in 0 .. n : f[i] = SortOf(f, i)
BY DEF Depths

\* It is the same for two that agree before.
LEMMA SortOfSame ==
  ASSUME NEW f, NEW g, NEW n, n = 0 \/ f[n - 1] = g[n - 1]
  PROVE  SortOf(f, n) = SortOf(g, n)
<1>1. CASE n = 0
  BY <1>1 DEF SortOf
<1>2. CASE n # 0
  <2>1. f[n - 1] = g[n - 1]
    BY <1>2
  <2> QED
    BY <1>2, <2>1, Zenon DEF SortOf
<1> QED
  BY <1>1, <1>2

\* There is one for every depth.
LEMMA DepthsExist == \A n \in Nat : \E f : Depths(f, n)
<1> DEFINE L == {n \in Nat : \E f : Depths(f, n)}
<1>1. 0 \in L
  <2> DEFINE f == [i \in 0 .. 0 |-> SortOf(<<>>, 0)]
  <2>1. f = [i \in 0 .. 0 |-> f[i]] /\ \A i \in 0 .. 0 : i = 0 /\ f[i] = SortOf(<<>>, 0)
    OBVIOUS
  <2> HIDE DEF f
  <2>2. SortOf(f, 0) = SortOf(<<>>, 0)
    BY SortOfSame
  <2>3. Depths(f, 0)
    BY <2>1, <2>2, DepthsAt
  <2> QED
    BY <2>3
<1>2. ASSUME NEW n \in Nat, n \in L PROVE n + 1 \in L
  <2>1. PICK f : Depths(f, n)
    BY <1>2
  <2> DEFINE g == [i \in 0 .. n + 1 |-> IF i <= n THEN f[i] ELSE SortOf(f, n + 1)]
  <2>2. \A i \in 0 .. n : f[i] = SortOf(f, i)
    BY <2>1, DepthsAt
  <2>3. g = [i \in 0 .. n + 1 |-> g[i]] /\ \A i \in 0 .. n : g[i] = f[i] /\ i \in Int
    OBVIOUS
  <2>4. g[n + 1] = SortOf(f, n + 1)
    OBVIOUS
  <2> HIDE DEF g
  <2>5. \A i \in 0 .. n + 1 : g[i] = SortOf(g, i)
    <3> TAKE i \in 0 .. n + 1
    <3>1. i = 0 \/ f[i - 1] = g[i - 1]
      <4>1. i # 0 => i - 1 \in 0 .. n
        OBVIOUS
      <4> QED
        BY <2>3, <4>1
    <3>2. SortOf(f, i) = SortOf(g, i)
      BY <3>1, SortOfSame
    <3>3. i \in 0 .. n \/ i = n + 1
      OBVIOUS
    <3> QED
      BY <2>2, <2>3, <2>4, <3>2, <3>3
  <2>6. Depths(g, n + 1)
    <3>1. n + 1 \in Nat
      OBVIOUS
    <3> QED
      BY <2>3, <2>5, <3>1, DepthsAt
  <2> QED
    BY <2>6
<1> HIDE DEF L
<1>3. Nat \subseteq L
  BY <1>1, <1>2, SetInduction
<1> QED
  BY <1>3 DEF L

\* Two of them agree.
LEMMA DepthsSame ==
  ASSUME NEW f, NEW g, NEW n \in Nat, NEW m \in Nat, Depths(f, n), Depths(g, m)
  PROVE  \A i \in Nat : i <= n /\ i <= m => f[i] = g[i]
<1> DEFINE L == {i \in Nat : i <= n /\ i <= m => f[i] = g[i]}
<1>1. \A i \in 0 .. n : f[i] = SortOf(f, i)
  BY DepthsAt
<1>2. \A i \in 0 .. m : g[i] = SortOf(g, i)
  BY DepthsAt
<1>3. 0 \in L
  <2>1. SortOf(f, 0) = SortOf(g, 0)
    BY SortOfSame
  <2> QED
    BY <1>1, <1>2, <2>1
<1>4. ASSUME NEW i \in Nat, i \in L PROVE i + 1 \in L
  <2> SUFFICES ASSUME i + 1 <= n, i + 1 <= m PROVE f[i + 1] = g[i + 1]
    OBVIOUS
  <2>1. i + 1 \in 0 .. n /\ i + 1 \in 0 .. m /\ (i + 1) - 1 = i
    OBVIOUS
  <2>2. f[(i + 1) - 1] = g[(i + 1) - 1]
    BY <1>4, <2>1
  <2>3. SortOf(f, i + 1) = SortOf(g, i + 1)
    BY <2>2, SortOfSame
  <2> QED
    BY <1>1, <1>2, <2>1, <2>3
<1> HIDE DEF L
<1>5. Nat \subseteq L
  BY <1>3, <1>4, SetInduction
<1> QED
  BY <1>5 DEF L

\* What deque_sort does with a list, by how deep its calls may go.
LEMMA SortSteps ==
  \E f : /\ \A n \in Nat : f[n] = SortOf(f, n)
         /\ \A x : Sorted(x) = f[Rounds][x]
<1> DEFINE to(n) == CHOOSE f : Depths(f, n)
           h == [n \in Nat |-> to(n)[n]]
           sort == CHOOSE f : Depth(f)
<1>1. \A n \in Nat : Depths(to(n), n)
  BY DepthsExist
<1> HIDE DEF to
<1>2. \A n \in Nat : h[n] = to(n)[n]
  OBVIOUS
<1>3. h = [n \in Nat |-> h[n]]
  OBVIOUS
<1> HIDE DEF h
<1>4. \A n \in Nat : h[n] = SortOf(h, n)
  <2> TAKE n \in Nat
  <2>1. to(n)[n] = SortOf(to(n), n)
    <3>1. n \in 0 .. n
      OBVIOUS
    <3> QED
      BY <1>1, <3>1, DepthsAt
  <2>2. n = 0 \/ to(n)[n - 1] = h[n - 1]
    <3> SUFFICES ASSUME n # 0 PROVE to(n)[n - 1] = h[n - 1]
      OBVIOUS
    <3>1. n - 1 \in Nat /\ n - 1 <= n /\ n - 1 <= n - 1
      OBVIOUS
    <3>2. Depths(to(n), n) /\ Depths(to(n - 1), n - 1)
      BY <1>1, <3>1
    <3> QED
      BY <1>2, <3>1, <3>2, DepthsSame
  <2>3. SortOf(to(n), n) = SortOf(h, n)
    BY <2>2, SortOfSame
  <2> QED
    BY <1>2, <2>1, <2>3
<1>5. Depth(h)
  BY <1>3, <1>4 DEF Depth
<1>6. Depth(sort)
  BY <1>5
<1>7. \A x : Sorted(x) = sort[Rounds][x]
  BY DEF Sorted, sort, Depth, SortOf
<1> HIDE DEF sort
<1>8. \A n \in Nat : sort[n] = SortOf(sort, n)
  BY <1>6 DEF Depth
<1> QED
  BY <1>7, <1>8

-----------------------------------------------------------------------------
(* Merging: the shape of the lists. *)

\* A sequence and one more element.
LEMMA OneMore ==
  ASSUME NEW m \in Seq(Nodes), NEW h \in Nodes
  PROVE  /\ Append(m, h) \in Seq(Nodes) /\ Len(Append(m, h)) = Len(m) + 1
         /\ Append(m, h)[Len(m) + 1] = h /\ \A i \in 1 .. Len(m) : Append(m, h)[i] = m[i]
         /\ Range(Append(m, h)) = Range(m) \union {h}
         /\ Apart(m) /\ h \notin Range(m) => Apart(Append(m, h))
<1> DEFINE a == Append(m, h)
           n == Len(m)
<1>1. a \in Seq(Nodes) /\ Len(a) = n + 1 /\ a[n + 1] = h /\ (\A i \in 1 .. n : a[i] = m[i])
      /\ DOMAIN a = 1 .. n + 1 /\ DOMAIN m = 1 .. n /\ n \in Nat
  OBVIOUS
<1>2. \A x : x \in Range(m) <=> \E i \in 1 .. n : x = m[i]
  BY RangeIs
<1>3. \A x : x \in Range(a) <=> \E i \in 1 .. n + 1 : x = a[i]
  <2> HIDE DEF a, n
  <2>1. \A x : x \in Range(a) <=> \E i \in 1 .. Len(a) : x = a[i]
    BY <1>1, RangeIs
  <2> QED
    BY <1>1, <2>1
<1>4. \A i \in 1 .. n + 1 : i \in 1 .. n \/ i = n + 1
  BY <1>1
<1>5. n + 1 \in 1 .. n + 1 /\ \A i \in 1 .. n : i \in 1 .. n + 1
  BY <1>1
<1> HIDE DEF a, n
<1>6. \A x : x \in Range(a) <=> x \in Range(m) \/ x = h
  BY <1>1, <1>2, <1>3, <1>4, <1>5
<1>7. ASSUME Apart(m), h \notin Range(m) PROVE Apart(a)
  <2> SUFFICES ASSUME NEW i \in 1 .. n + 1, NEW j \in 1 .. n + 1, a[i] = a[j] PROVE i = j
    BY <1>1 DEF Apart
  <2>1. \A k \in 1 .. n : a[k] # h
    BY <1>1, <1>2, <1>7
  <2>2. CASE i \in 1 .. n /\ j \in 1 .. n
    BY <1>1, <1>7, <2>2 DEF Apart
  <2> QED
    BY <1>1, <1>4, <2>1, <2>2
<1>8. Range(a) = Range(m) \union {h}
  BY <1>6
<1> QED
  BY <1>1, <1>7, <1>8 DEF a, n

\* A sequence without its first element.
LEMMA OneLess ==
  ASSUME NEW l \in Seq(Nodes), l # <<>>, Apart(l)
  PROVE  /\ Head(l) \in Nodes /\ Tail(l) \in Seq(Nodes) /\ Len(Tail(l)) = Len(l) - 1 /\ Head(l) = l[1]
         /\ \A i \in 1 .. Len(l) - 1 : Tail(l)[i] = l[i + 1]
         /\ Range(l) = {Head(l)} \union Range(Tail(l)) /\ Head(l) \notin Range(Tail(l)) /\ Apart(Tail(l))
<1> DEFINE t == Tail(l)
           n == Len(l)
<1>1. /\ t \in Seq(Nodes) /\ Len(t) = n - 1 /\ Head(l) = l[1] /\ Head(l) \in Nodes
      /\ \A i \in 1 .. n - 1 : t[i] = l[i + 1]
  OBVIOUS
<1>2. n \in Nat \ {0} /\ DOMAIN t = 1 .. n - 1
  BY <1>1, EmptySeq
<1>3. \A x : x \in Range(l) <=> \E i \in 1 .. n : x = l[i]
  BY RangeIs
<1>4. \A x : x \in Range(t) <=> \E i \in 1 .. n - 1 : x = t[i]
  <2> HIDE DEF t, n
  <2>1. \A x : x \in Range(t) <=> \E i \in 1 .. Len(t) : x = t[i]
    BY <1>1, RangeIs
  <2> QED
    BY <1>1, <2>1
<1>5. \A i \in 1 .. n - 1 : i + 1 \in 1 .. n /\ i + 1 # 1
  BY <1>2
<1>6. 1 \in 1 .. n /\ \A i \in 1 .. n : i = 1 \/ (i - 1 \in 1 .. n - 1 /\ (i - 1) + 1 = i)
  BY <1>2
<1>7. \A i, j \in 1 .. n : l[i] = l[j] => i = j
  BY DEF Apart
<1>8. \A i, j \in 1 .. n - 1 : i + 1 = j + 1 => i = j
  BY <1>2
<1> HIDE DEF t, n
<1>9. Apart(t)
  <2> SUFFICES ASSUME NEW i \in 1 .. n - 1, NEW j \in 1 .. n - 1, t[i] = t[j] PROVE i = j
    BY <1>2 DEF Apart
  <2> QED
    BY <1>1, <1>5, <1>7, <1>8
<1>10. Head(l) \notin Range(t)
  <2> SUFFICES ASSUME Head(l) \in Range(t) PROVE FALSE
    OBVIOUS
  <2>1. PICK i \in 1 .. n - 1 : l[1] = l[i + 1]
    BY <1>1, <1>4
  <2>2. 1 \in 1 .. n /\ i + 1 \in 1 .. n /\ i + 1 # 1
    BY <1>5, <1>6
  <2> QED
    BY <1>7, <2>1, <2>2
<1>11. \A x : x \in Range(l) <=> x = Head(l) \/ x \in Range(t)
  <2> TAKE x
  <2>1. ASSUME x \in Range(l) PROVE x = Head(l) \/ x \in Range(t)
    <3>1. PICK i \in 1 .. n : x = l[i]
      BY <1>3, <2>1
    <3>2. CASE i - 1 \in 1 .. n - 1 /\ (i - 1) + 1 = i
      <4>1. t[i - 1] = l[i]
        BY <1>1, <3>2
      <4> QED
        BY <1>4, <3>1, <3>2, <4>1
    <3> QED
      BY <1>1, <1>6, <3>1, <3>2
  <2>2. ASSUME x \in Range(t) PROVE x \in Range(l)
    <3>1. PICK i \in 1 .. n - 1 : x = l[i + 1]
      BY <1>1, <1>4, <2>2
    <3> QED
      BY <1>3, <1>5, <3>1
  <2>3. Head(l) \in Range(l)
    BY <1>1, <1>3, <1>6
  <2> QED
    BY <2>1, <2>2, <2>3
<1>12. Range(l) = {Head(l)} \union Range(t)
  BY <1>11
<1> QED
  BY <1>1, <1>9, <1>10, <1>12 DEF t, n

\* What putting a node behind the last one does to the links.
LEMMA BehindAt ==
  ASSUME NEW d \in Deques, NEW p \in Nodes \union {NULL}, NEW n \in Nodes, NEW o \in Pointers, p # n
  PROVE  LET e == Behind(d, p, n, o)
         IN  /\ e \in Deques /\ e.holds = d.holds /\ e.live = d.live /\ e.size = d.size
             /\ \A x \in Addresses :
                  /\ e.next[x] = IF x = n THEN (IF o = NULL THEN d.next[n] ELSE NULL)
                                 ELSE IF x = p THEN n ELSE d.next[x]
                  /\ e.prev[x] = IF x = n THEN p ELSE d.prev[x]
<1> DEFINE c == IF p = NULL THEN [d EXCEPT !.prev[n] = NULL] ELSE Link(d, p, n)
           e == IF o = NULL THEN c ELSE [c EXCEPT !.next[n] = NULL]
<1>1. n \in Addresses /\ (p # NULL => p \in Addresses) /\ NULL \in Pointers /\ NULL \notin Addresses
  BY NodesApart DEF Addresses, Pointers
<1>2. /\ c \in Deques /\ c.holds = d.holds /\ c.live = d.live /\ c.size = d.size
      /\ \A x \in Addresses : /\ c.next[x] = IF x = p THEN n ELSE d.next[x]
                              /\ c.prev[x] = IF x = n THEN p ELSE d.prev[x]
  <2>1. CASE p = NULL
    <3>1. c = [d EXCEPT !.prev[n] = NULL]
      BY <2>1
    <3>2. /\ c \in Deques /\ c.holds = d.holds /\ c.live = d.live /\ c.size = d.size
          /\ c.next = d.next /\ c.prev = [d.prev EXCEPT ![n] = NULL]
      BY <1>1, <3>1 DEF Deques
    <3> HIDE DEF c
    <3> QED
      BY <1>1, <2>1, <3>2 DEF Deques
  <2>2. CASE p # NULL
    <3>1. p \in Addresses /\ n \in Addresses /\ c = Link(d, p, n)
      BY <1>1, <2>2
    <3> HIDE DEF c
    <3> QED
      BY <3>1, LinkAt DEF Deques
  <2> QED
    BY <2>1, <2>2
<1> HIDE DEF c
<1>3. /\ e \in Deques /\ e.holds = c.holds /\ e.live = c.live /\ e.size = c.size
      /\ \A x \in Addresses : /\ e.next[x] = IF x = n /\ o # NULL THEN NULL ELSE c.next[x]
                              /\ e.prev[x] = c.prev[x]
  <2>1. CASE o = NULL
    BY <1>2, <2>1
  <2>2. CASE o # NULL
    <3>1. e = [c EXCEPT !.next[n] = NULL]
      BY <2>2
    <3>2. /\ e \in Deques /\ e.holds = c.holds /\ e.live = c.live /\ e.size = c.size
          /\ e.prev = c.prev /\ e.next = [c.next EXCEPT ![n] = NULL]
      BY <1>1, <1>2, <3>1 DEF Deques
    <3> HIDE DEF e
    <3> QED
      BY <1>2, <2>2, <3>2 DEF Deques
  <2> QED
    BY <2>1, <2>2
<1>4. Behind(d, p, n, o) = e
  BY DEF Behind, c
<1> HIDE DEF e
<1> QED
  BY <1>1, <1>2, <1>3, <1>4

\* The merged nodes m, linked both ways, and what is left of the two lists, linked by next.
Shape(d, m, l, r) ==
  /\ m \in Seq(Nodes) /\ l \in Seq(Nodes) /\ r \in Seq(Nodes)
  /\ Apart(m) /\ Apart(l) /\ Apart(r)
  /\ Range(m) \cap Range(l) = {} /\ Range(m) \cap Range(r) = {} /\ Range(l) \cap Range(r) = {}
  /\ Ends(d, l) /\ Ends(d, r) /\ Begins(d, m)
  /\ \A i \in 1 .. Len(m) - 1 : d.next[m[i]] = m[i + 1]
  /\ l = <<>> /\ r = <<>> /\ m # <<>> => d.next[LastOf(m)] = NULL

\* A list of which the links of its nodes stay as they are.
LEMMA EndsStay ==
  ASSUME NEW d, NEW e, NEW s \in Seq(Nodes), \A x \in Range(s) : e.next[x] = d.next[x], Ends(d, s)
  PROVE  Ends(e, s)
<1>1. \A i \in 1 .. Len(s) : s[i] \in Range(s)
  BY RangeIs
<1> QED
  BY <1>1 DEF Ends

\* The first node of one of the lists is merged.
LEMMA MergeShape ==
  ASSUME NEW d \in Deques, NEW m, NEW l, NEW r, Shape(d, m, l, r), l # <<>>
  PROVE  LET h == Head(l)
             e == Behind(d, LastOf(m), h, FirstOf(r))
         IN  /\ Shape(e, Append(m, h), Tail(l), r) /\ d.next[h] = FirstOf(Tail(l))
             /\ Within(d, e, Range(m) \union {h}) /\ LastOf(Append(m, h)) = h
<1> DEFINE h == Head(l)
           t == Tail(l)
           w == Append(m, h)
           n == Len(m)
           p == LastOf(m)
           o == FirstOf(r)
           e == Behind(d, p, h, o)
<1>1. /\ m \in Seq(Nodes) /\ l \in Seq(Nodes) /\ r \in Seq(Nodes) /\ n \in Nat
      /\ Apart(m) /\ Apart(l) /\ Apart(r)
      /\ Range(m) \cap Range(l) = {} /\ Range(m) \cap Range(r) = {} /\ Range(l) \cap Range(r) = {}
  BY DEF Shape
<1>2. /\ h \in Nodes /\ t \in Seq(Nodes) /\ Len(t) = Len(l) - 1 /\ h = l[1]
      /\ \A i \in 1 .. Len(l) - 1 : t[i] = l[i + 1]
      /\ Range(l) = {h} \union Range(t) /\ h \notin Range(t) /\ Apart(t)
  BY <1>1, OneLess
<1>3. h \notin Range(m) /\ h \notin Range(r) /\ Range(t) \cap Range(m) = {} /\ Range(t) \cap Range(r) = {}
  BY <1>1, <1>2
<1>4. /\ w \in Seq(Nodes) /\ Len(w) = n + 1 /\ w[n + 1] = h /\ (\A i \in 1 .. n : w[i] = m[i])
      /\ Range(w) = Range(m) \union {h} /\ Apart(w)
  BY <1>1, <1>2, <1>3, OneMore
<1>5. /\ (n = 0 => p = NULL) /\ (n # 0 => p = m[n] /\ p \in Range(m) /\ p \in Nodes)
      /\ p \in Nodes \union {NULL} /\ p # h
  <2>1. CASE n = 0
    BY <1>1, <1>2, <2>1, NodesApart DEF LastOf
  <2>2. CASE n # 0
    <3>1. n \in 1 .. n /\ m # <<>>
      BY <1>1, <2>2
    <3>2. p = m[n] /\ p \in Nodes
      BY <1>1, <3>1 DEF LastOf
    <3>3. p \in Range(m)
      BY <1>1, <3>1, <3>2, RangeIs
    <3> QED
      BY <1>3, <2>2, <3>2, <3>3
  <2> QED
    BY <2>1, <2>2
<1>6. o \in Pointers /\ (o = NULL <=> r = <<>>)
  <2>1. CASE r = <<>>
    BY <2>1 DEF FirstOf, Pointers
  <2>2. CASE r # <<>>
    <3>1. o \in Nodes
      BY <1>1, <2>2 DEF FirstOf
    <3> QED
      BY <2>2, <3>1, NodesApart DEF Pointers, Addresses
  <2> QED
    BY <2>1, <2>2
<1>7. d.next[h] = FirstOf(t)
  <2>1. 1 \in 1 .. Len(l) /\ Len(l) \in Nat
    BY <1>1, EmptySeq
  <2>2. d.next[l[1]] = IF 1 = Len(l) THEN NULL ELSE l[1 + 1]
    BY <2>1 DEF Shape, Ends
  <2>3. CASE Len(l) = 1
    <3>1. t = <<>>
      <4>1. t \in Seq(Nodes) /\ Len(t) = 0
        BY <1>2, <2>3
      <4> HIDE DEF t
      <4> QED
        BY <4>1, EmptySeq
    <3> QED
      BY <1>2, <2>2, <2>3, <3>1 DEF FirstOf
  <2>4. CASE Len(l) # 1
    <3>1. 1 \in 1 .. Len(l) - 1 /\ Len(t) # 0
      BY <1>2, <2>1, <2>4
    <3>2. t # <<>> /\ t[1] = l[1 + 1]
      BY <1>2, <3>1, EmptySeq
    <3> QED
      BY <1>2, <2>2, <2>4, <3>2 DEF FirstOf
  <2> QED
    BY <2>3, <2>4
<1> HIDE DEF h, t, w, n, p, o
<1>8. /\ e \in Deques /\ e.holds = d.holds /\ e.live = d.live /\ e.size = d.size
      /\ \A x \in Addresses :
           /\ e.next[x] = IF x = h THEN (IF o = NULL THEN d.next[h] ELSE NULL)
                          ELSE IF x = p THEN h ELSE d.next[x]
           /\ e.prev[x] = IF x = h THEN p ELSE d.prev[x]
  <2>1. p \in Nodes \union {NULL} /\ h \in Nodes /\ o \in Pointers /\ p # h
    BY <1>2, <1>5, <1>6
  <2> HIDE DEF e
  <2>2. e = Behind(d, p, h, o)
    BY DEF e
  <2> QED
    BY <2>1, <2>2, BehindAt
<1> HIDE DEF e
<1>9. \A x : x \in Range(t) \/ x \in Range(r) \/ x \in Range(m) => x \in Addresses
  <2>1. Range(t) \in SUBSET Nodes /\ Range(r) \in SUBSET Nodes /\ Range(m) \in SUBSET Nodes
    BY <1>1, <1>2, RangeOfSeq
  <2> QED
    BY <2>1 DEF Addresses
<1>10. p \notin Range(t) /\ p \notin Range(r)
  <2>1. NULL \notin Range(t) /\ NULL \notin Range(r)
    BY <1>9, NodesApart
  <2> QED
    BY <1>1, <1>3, <1>5, <2>1
<1>11. Ends(e, t) /\ Ends(e, r)
  <2>1. \A x \in Range(t) \union Range(r) : e.next[x] = d.next[x]
    BY <1>2, <1>3, <1>8, <1>9, <1>10
  <2>2. Ends(d, t)
    <3>1. Ends(d, l) /\ Len(l) \in Nat
      BY <1>1 DEF Shape
    <3> SUFFICES ASSUME NEW i \in 1 .. Len(l) - 1
                 PROVE  d.next[t[i]] = IF i = Len(l) - 1 THEN NULL ELSE t[i + 1]
      BY <1>2 DEF Ends
    <3>2. i + 1 \in 1 .. Len(l) /\ (i = Len(l) - 1 <=> i + 1 = Len(l))
      BY <3>1
    <3>3. d.next[l[i + 1]] = IF i + 1 = Len(l) THEN NULL ELSE l[(i + 1) + 1]
      BY <3>1, <3>2 DEF Ends
    <3>4. i # Len(l) - 1 => i + 1 \in 1 .. Len(l) - 1
      BY <3>1
    <3> QED
      BY <1>2, <3>2, <3>3, <3>4
  <2>3. Ends(d, r)
    BY DEF Shape
  <2> QED
    BY <1>1, <1>2, <2>1, <2>2, <2>3, EndsStay
<1>12. h \in Addresses
  BY <1>2 DEF Addresses
<1>13. \A i \in 1 .. n : m[i] \in Range(m) /\ m[i] \in Addresses /\ m[i] # h
  <2>1. \A i \in 1 .. n : m[i] \in Range(m)
    BY <1>1, RangeIs DEF n
  <2> QED
    BY <1>3, <1>9, <2>1
<1>14. Begins(e, w)
  <2> SUFFICES ASSUME NEW i \in 1 .. n + 1
               PROVE  e.prev[w[i]] = IF i = 1 THEN NULL ELSE w[i - 1]
    BY <1>4 DEF Begins
  <2>1. CASE i \in 1 .. n
    <3>1. d.prev[m[i]] = IF i = 1 THEN NULL ELSE m[i - 1]
      BY <2>1 DEF Shape, Begins, n
    <3>2. i # 1 => i - 1 \in 1 .. n
      BY <1>1, <2>1
    <3> QED
      BY <1>4, <1>8, <1>13, <2>1, <3>1, <3>2
  <2>2. CASE i = n + 1
    <3>1. e.prev[w[i]] = p
      BY <1>4, <1>8, <1>12, <2>2
    <3>2. CASE n = 0
      BY <1>5, <2>2, <3>1, <3>2
    <3>3. CASE n # 0
      <4>1. n \in 1 .. n /\ i - 1 = n /\ i # 1
        BY <1>1, <2>2, <3>3
      <4> QED
        BY <1>4, <1>5, <3>1, <3>3, <4>1
    <3> QED
      BY <3>2, <3>3
  <2> QED
    BY <1>1, <2>1, <2>2
<1>15. \A i \in 1 .. n : e.next[w[i]] = w[i + 1]
  <2> TAKE i \in 1 .. n
  <2>1. e.next[w[i]] = IF m[i] = p THEN h ELSE d.next[m[i]]
    BY <1>4, <1>8, <1>13
  <2>2. CASE i = n
    <3>1. n # 0
      BY <1>1, <2>2
    <3> QED
      BY <1>4, <1>5, <2>1, <2>2, <3>1
  <2>3. CASE i # n
    <3>1. i \in 1 .. n - 1 /\ i + 1 \in 1 .. n /\ n \in 1 .. n /\ n # 0
      BY <1>1, <2>3
    <3>2. d.next[m[i]] = m[i + 1]
      BY <3>1 DEF Shape, n
    <3>3. m[i] # p
      <4>1. DOMAIN m = 1 .. n
        BY <1>1 DEF n
      <4> QED
        BY <1>1, <1>5, <2>3, <3>1, <4>1 DEF Apart
    <3> QED
      BY <1>4, <2>1, <3>1, <3>2, <3>3
  <2> QED
    BY <2>2, <2>3
<1>16. t = <<>> /\ r = <<>> => e.next[h] = NULL
  BY <1>6, <1>7, <1>8, <1>12 DEF FirstOf
<1>17. LastOf(w) = h
  <2>1. w # <<>>
    BY <1>1, <1>4, EmptySeq
  <2> QED
    BY <1>4, <2>1 DEF LastOf
<1>18. Shape(e, w, t, r)
  <2>1. Range(w) \cap Range(t) = {} /\ Range(w) \cap Range(r) = {} /\ Range(t) \cap Range(r) = {}
    BY <1>1, <1>2, <1>3, <1>4
  <2>2. \A i \in 1 .. Len(w) - 1 : e.next[w[i]] = w[i + 1]
    <3>1. Len(w) - 1 = n
      BY <1>1, <1>4
    <3> QED
      BY <1>15, <3>1
  <2> QED
    BY <1>1, <1>2, <1>4, <1>11, <1>14, <1>16, <1>17, <2>1, <2>2 DEF Shape
<1>19. Within(d, e, Range(m) \union {h})
  <2>1. \A a \in Addresses \ (Range(m) \union {h}) : e.next[a] = d.next[a] /\ e.prev[a] = d.prev[a]
    <3> TAKE a \in Addresses \ (Range(m) \union {h})
    <3>1. a # h /\ a # p
      BY <1>5, NodesApart
    <3> QED
      BY <1>8, <3>1
  <2> QED
    BY <1>8, <2>1 DEF Within
<1> QED
  BY <1>7, <1>17, <1>18, <1>19 DEF h, t, w, p, o, e

\* What happens in two steps.
LEMMA WithinTwo ==
  ASSUME NEW d, NEW c, NEW e, NEW S, NEW T, Within(d, c, S), Within(c, e, T)
  PROVE  Within(d, e, S \union T)
<1>1. \A a \in Addresses \ (S \union T) : e.next[a] = d.next[a] /\ e.prev[a] = d.prev[a]
  <2> TAKE a \in Addresses \ (S \union T)
  <2>1. a \in Addresses \ S /\ a \in Addresses \ T
    OBVIOUS
  <2> QED
    BY <2>1 DEF Within
<1> QED
  BY <1>1 DEF Within

\* What was taken and the two lists that are left: when J holds it, it holds what one
\* more round makes of it.
Merges(d, J) ==
  \A m, l, r \in Seq(Nodes) : <<m, l, r>> \in J =>
    IF l # <<>> /\ (r = <<>> \/ NotAfter(d, Head(l), Head(r)))
    THEN <<Append(m, Head(l)), Tail(l), r>> \in J
    ELSE r # <<>> => <<Append(m, Head(r)), l, Tail(r)>> \in J

\* Where the loop of deque_merge is after n rounds.
MergedSoFar(d, S, most, n, x, m, l, r) ==
  /\ Shape(x.d, m, l, r)
  /\ x.node = LastOf(m) /\ x.left = FirstOf(l) /\ x.right = FirstOf(r)
  /\ Within(d, x.d, S) /\ Range(m) \union Range(l) \union Range(r) = S
  /\ (l = <<>> /\ r = <<>>) \/ Len(l) + Len(r) + n <= most

MergeStates == [d : Deques, node : Pointers, left : Pointers, right : Pointers]

\* A node of the left list, and one of the right list, is merged.
LEMMA MergeLeft ==
  ASSUME NEW d, NEW S, NEW most \in Nat, NEW n \in Nat, NEW x \in MergeStates,
         NEW m, NEW l, NEW r, MergedSoFar(d, S, most, n, x, m, l, r), l # <<>>
  PROVE  LET y == [d |-> Behind(x.d, x.node, x.left, x.right), node |-> x.left,
                   left |-> x.d.next[x.left], right |-> x.right]
         IN  y \in MergeStates /\ MergedSoFar(d, S, most, n + 1, y, Append(m, Head(l)), Tail(l), r)
<1> DEFINE h == Head(l)
           t == Tail(l)
           w == Append(m, h)
           c == x.d
           e == Behind(c, LastOf(m), h, FirstOf(r))
           y == [d |-> Behind(x.d, x.node, x.left, x.right), node |-> x.left,
                 left |-> x.d.next[x.left], right |-> x.right]
<1>1. Shape(c, m, l, r) /\ c \in Deques /\ x.right \in Pointers
  BY DEF MergedSoFar, MergeStates
<1>2. m \in Seq(Nodes) /\ l \in Seq(Nodes) /\ r \in Seq(Nodes) /\ Apart(l)
  BY <1>1 DEF Shape
<1>3. /\ h \in Nodes /\ t \in Seq(Nodes) /\ Len(t) = Len(l) - 1 /\ Len(l) \in Nat
      /\ Range(l) = {h} \union Range(t) /\ h = l[1]
  BY <1>2, OneLess
<1>4. Range(w) = Range(m) \union {h}
  BY <1>2, <1>3, OneMore
<1>5. /\ Shape(e, w, t, r) /\ c.next[h] = FirstOf(t)
      /\ Within(c, e, Range(m) \union {h}) /\ LastOf(w) = h
  <2> HIDE DEF c
  <2> QED
    BY <1>1, MergeShape
<1>6. FirstOf(l) = h
  BY <1>3 DEF FirstOf
<1>7. x.node = LastOf(m) /\ x.left = h /\ x.right = FirstOf(r)
  BY <1>6 DEF MergedSoFar
<1>8. y.d = e /\ y.node = h /\ y.left = FirstOf(t) /\ y.right = x.right
  BY <1>5, <1>7
<1>9. h \in Pointers /\ FirstOf(t) \in Pointers
  <2> HIDE DEF t, h
  <2>1. t # <<>> => t[1] \in Nodes
    BY <1>3
  <2> QED
    BY <1>3, <2>1 DEF FirstOf, Pointers, Addresses
<1>10. y \in MergeStates
  <2>1. e \in Deques
    BY <1>5 DEF Within
  <2>2. y = [d |-> e, node |-> h, left |-> FirstOf(t), right |-> x.right]
    BY <1>5, <1>7
  <2>3. x.right \in Pointers
    BY <1>1
  <2> HIDE DEF e, c, h, t, y
  <2> QED
    BY <1>9, <2>1, <2>2, <2>3 DEF MergeStates
<1>11. Within(d, e, S) /\ Range(w) \union Range(t) \union Range(r) = S
  <2>1. Within(d, c, S) /\ Range(m) \union Range(l) \union Range(r) = S
    BY DEF MergedSoFar
  <2>2. S \union (Range(m) \union {h}) = S
    BY <1>3, <2>1
  <2> HIDE DEF c, e
  <2>3. Within(d, e, S \union (Range(m) \union {h}))
    BY <1>5, <2>1, WithinTwo
  <2> QED
    BY <1>3, <1>4, <2>1, <2>2, <2>3
<1>12. Len(t) + Len(r) + (n + 1) <= most
  <2>1. Len(r) \in Nat
    BY <1>2
  <2>2. Len(l) + Len(r) + n <= most
    BY DEF MergedSoFar
  <2> QED
    BY <1>3, <2>1, <2>2
<1> HIDE DEF h, t, w, c, e, y
<1>14. MergedSoFar(d, S, most, n + 1, y, w, t, r)
  BY <1>5, <1>7, <1>8, <1>11, <1>12 DEF MergedSoFar
<1> QED
  BY <1>10, <1>14 DEF y, w, h, t

\* The two lists may change places.
LEMMA MergeRight ==
  ASSUME NEW d, NEW S, NEW most \in Nat, NEW n \in Nat, NEW x \in MergeStates,
         NEW m, NEW l, NEW r, MergedSoFar(d, S, most, n, x, m, l, r), r # <<>>
  PROVE  LET y == [d |-> Behind(x.d, x.node, x.right, x.left), node |-> x.right,
                   left |-> x.left, right |-> x.d.next[x.right]]
         IN  y \in MergeStates /\ MergedSoFar(d, S, most, n + 1, y, Append(m, Head(r)), l, Tail(r))
<1> DEFINE o == [d |-> x.d, node |-> x.node, left |-> x.right, right |-> x.left]
           z == [d |-> Behind(o.d, o.node, o.left, o.right), node |-> o.left,
                 left |-> o.d.next[o.left], right |-> o.right]
           y == [d |-> Behind(x.d, x.node, x.right, x.left), node |-> x.right,
                 left |-> x.left, right |-> x.d.next[x.right]]
           w == Append(m, Head(r))
           t == Tail(r)
<1>1. o \in MergeStates /\ o.d = x.d /\ o.node = x.node /\ o.left = x.right /\ o.right = x.left
  BY DEF MergeStates
<1>2. y.d = z.d /\ y.node = z.node /\ y.left = z.right /\ y.right = z.left
  OBVIOUS
<1>3. y = [d |-> z.d, node |-> z.node, left |-> z.right, right |-> z.left]
  OBVIOUS
<1> HIDE DEF o
<1>4. MergedSoFar(d, S, most, n, o, m, r, l)
  <2>1. Len(l) \in Nat /\ Len(r) \in Nat
    BY DEF MergedSoFar, Shape
  <2> QED
    BY <1>1, <2>1 DEF MergedSoFar, Shape
<1>5. z \in MergeStates /\ MergedSoFar(d, S, most, n + 1, z, w, t, l)
  BY <1>1, <1>4, MergeLeft
<1> HIDE DEF z, y, w, t
<1>6. y \in MergeStates
  BY <1>3, <1>5 DEF MergeStates
<1>7. MergedSoFar(d, S, most, n + 1, y, w, l, t)
  <2>1. Len(l) \in Nat /\ Len(t) \in Nat
    BY <1>5 DEF MergedSoFar, Shape
  <2> QED
    BY <1>2, <1>5, <2>1 DEF MergedSoFar, Shape
<1> QED
  BY <1>6, <1>7 DEF y, w, t

\* What the loop has merged, and the lists that are left, are in J.
Merging(d, J, S, most, n, x) ==
  \E m, l, r : <<m, l, r>> \in J /\ MergedSoFar(d, S, most, n, x, m, l, r)

\* The head of the left list is compared with the head of the right one.
LEMMA HeadsAt ==
  ASSUME NEW d, NEW S, NEW most, NEW n, NEW x \in MergeStates, NEW m, NEW l, NEW r,
         MergedSoFar(d, S, most, n, x, m, l, r)
  PROVE  /\ m \in Seq(Nodes) /\ l \in Seq(Nodes) /\ r \in Seq(Nodes)
         /\ (x.left = NULL <=> l = <<>>) /\ (x.right = NULL <=> r = <<>>)
         /\ l # <<>> => x.left = Head(l)
         /\ r # <<>> => x.right = Head(r)
         /\ \A a, b : NotAfter(x.d, a, b) <=> NotAfter(d, a, b)
<1>1. m \in Seq(Nodes) /\ l \in Seq(Nodes) /\ r \in Seq(Nodes)
  BY DEF MergedSoFar, Shape
<1>2. x.left = FirstOf(l) /\ x.right = FirstOf(r)
  BY DEF MergedSoFar
<1>3. ASSUME NEW s \in Seq(Nodes)
      PROVE  (FirstOf(s) = NULL <=> s = <<>>) /\ (s # <<>> => FirstOf(s) = Head(s))
  <2>1. CASE s = <<>>
    BY <2>1 DEF FirstOf
  <2>2. CASE s # <<>>
    <3>1. FirstOf(s) = s[1] /\ s[1] = Head(s) /\ s[1] \in Nodes
      BY <2>2 DEF FirstOf
    <3> QED
      BY <2>2, <3>1, NodesApart
  <2> QED
    BY <2>1, <2>2
<1>4. x.d.holds = d.holds
  BY DEF MergedSoFar, Within
<1>5. \A a, b : NotAfter(x.d, a, b) <=> NotAfter(d, a, b)
  BY <1>4 DEF NotAfter
<1> QED
  BY <1>1, <1>2, <1>3, <1>5

\* One more round.
LEMMA MergeRoundIs ==
  ASSUME NEW d, NEW J, NEW S, NEW most \in Nat, NEW n \in Nat, NEW x \in MergeStates,
         Merging(d, J, S, most, n, x), Merges(d, J), NEW y, y = MergeRound(x)
  PROVE  y \in MergeStates /\ Merging(d, J, S, most, n + 1, y)
<1>1. PICK m, l, r : <<m, l, r>> \in J /\ MergedSoFar(d, S, most, n, x, m, l, r)
  BY DEF Merging
<1>2. /\ m \in Seq(Nodes) /\ l \in Seq(Nodes) /\ r \in Seq(Nodes)
      /\ (x.left = NULL <=> l = <<>>) /\ (x.right = NULL <=> r = <<>>)
      /\ l # <<>> => x.left = Head(l)
      /\ r # <<>> => x.right = Head(r)
      /\ \A a, b : NotAfter(x.d, a, b) <=> NotAfter(d, a, b)
  BY <1>1, HeadsAt
<1>3. CASE l = <<>> /\ r = <<>>
  <2>1. y = x
    BY <1>2, <1>3 DEF MergeRound
  <2>2. MergedSoFar(d, S, most, n + 1, x, m, l, r)
    BY <1>1, <1>3 DEF MergedSoFar
  <2> QED
    BY <1>1, <2>1, <2>2 DEF Merging
<1>4. CASE l # <<>> /\ (r = <<>> \/ NotAfter(d, Head(l), Head(r)))
  <2> DEFINE z == [d |-> Behind(x.d, x.node, x.left, x.right), node |-> x.left,
                   left |-> x.d.next[x.left], right |-> x.right]
  <2>1. x.right = NULL \/ (x.left # NULL /\ NotAfter(x.d, x.left, x.right))
    BY <1>2, <1>4
  <2>2. y = z
    BY <1>2, <1>4, <2>1 DEF MergeRound
  <2>3. <<Append(m, Head(l)), Tail(l), r>> \in J
    BY <1>1, <1>2, <1>4 DEF Merges
  <2>4. z \in MergeStates /\ MergedSoFar(d, S, most, n + 1, z, Append(m, Head(l)), Tail(l), r)
    BY <1>1, <1>4, MergeLeft
  <2> HIDE DEF z
  <2> QED
    BY <2>2, <2>3, <2>4 DEF Merging
<1>5. CASE r # <<>> /\ ~ (l # <<>> /\ (r = <<>> \/ NotAfter(d, Head(l), Head(r))))
  <2> DEFINE z == [d |-> Behind(x.d, x.node, x.right, x.left), node |-> x.right,
                   left |-> x.left, right |-> x.d.next[x.right]]
  <2>1. ~ (x.right = NULL \/ (x.left # NULL /\ NotAfter(x.d, x.left, x.right)))
    BY <1>2, <1>5
  <2>2. y = z
    BY <1>2, <1>5, <2>1 DEF MergeRound
  <2>3. <<Append(m, Head(r)), l, Tail(r)>> \in J
    BY <1>1, <1>2, <1>5 DEF Merges
  <2>4. z \in MergeStates /\ MergedSoFar(d, S, most, n + 1, z, Append(m, Head(r)), l, Tail(r))
    BY <1>1, <1>5, MergeRight
  <2> HIDE DEF z
  <2> QED
    BY <2>2, <2>3, <2>4 DEF Merging
<1> QED
  BY <1>3, <1>4, <1>5

\* Two lists are merged: J has what comes of them.
LEMMA MergeIs ==
  ASSUME NEW d \in Deques, NEW l, NEW r, Strand(d, l), Strand(d, r), l # <<>>, r # <<>>,
         Range(l) \cap Range(r) = {}, NEW J, <<<<>>, l, r>> \in J, Merges(d, J)
  PROVE  LET e == Merge(d, l[1], r[1])
         IN  \E t : /\ <<t, <<>>, <<>>>> \in J /\ Strand(e, t)
                    /\ Range(t) = Range(l) \union Range(r)
                    /\ Within(d, e, Range(t))
<1> DEFINE S == Range(l) \union Range(r)
           most == Len(l) + Len(r)
           body == [x \in MergeStates |-> MergeRound(x)]
           I == [n \in Nat |-> {x \in MergeStates : Merging(d, J, S, most, n, x)}]
           x0 == [d |-> d, node |-> NULL, left |-> l[1], right |-> r[1]]
           last == Iterate(body, x0, Rounds)
<1>1. /\ l \in Seq(Nodes) /\ r \in Seq(Nodes) /\ Apart(l) /\ Apart(r) /\ Ends(d, l) /\ Ends(d, r)
      /\ Len(l) \in Nat /\ Len(r) \in Nat /\ most \in Nat
  BY DEF Strand
<1>2. most <= Rounds /\ Rounds \in Nat
  <2>1. Cardinality(Range(l)) = Len(l) /\ Cardinality(Range(r)) = Len(r) /\ Rounds \in Nat
    BY <1>1, SizeIs
  <2>2. S \subseteq Nodes /\ Range(l) \subseteq Nodes /\ Range(r) \subseteq Nodes
    BY <1>1, RangeOfSeq
  <2>3. IsFiniteSet(Nodes) /\ IsFiniteSet(Range(l)) /\ IsFiniteSet(Range(r))
    BY <2>2, FS_Subset, DequeAssumption
  <2>4. Cardinality(S) = Len(l) + Len(r)
    <3>1. Cardinality(Range(l) \cap Range(r)) = 0
      BY FS_EmptySet
    <3>2. Cardinality(S) = Cardinality(Range(l)) + Cardinality(Range(r)) - Cardinality(Range(l) \cap Range(r))
      BY <2>3, FS_Union
    <3> QED
      BY <1>1, <2>1, <3>1, <3>2
  <2>5. Cardinality(S) <= Cardinality(Nodes)
    BY <2>2, <2>3, FS_Subset
  <2> QED
    BY <1>1, <2>1, <2>4, <2>5 DEF Rounds
<1>3. x0 \in MergeStates
  BY <1>1, NodesApart DEF MergeStates, Pointers, Addresses
<1>4. Merging(d, J, S, most, 0, x0)
  <2>1. Apart(<<>>) /\ Begins(d, <<>>) /\ Range(<<>>) = {} /\ <<>> \in Seq(Nodes) /\ Len(<<>>) = 0
    BY DEF Apart, Begins, Range
  <2>2. Shape(d, <<>>, l, r)
    BY <1>1, <2>1 DEF Shape
  <2>3. LastOf(<<>>) = NULL /\ FirstOf(l) = l[1] /\ FirstOf(r) = r[1]
    BY DEF LastOf, FirstOf
  <2>4. Within(d, d, S)
    BY DEF Within
  <2>5. x0.d = d /\ x0.node = NULL /\ x0.left = l[1] /\ x0.right = r[1]
    OBVIOUS
  <2>6. Range(<<>>) \union Range(l) \union Range(r) = S /\ Len(l) + Len(r) + 0 <= most
    BY <1>1, <2>1
  <2> HIDE DEF x0, S, most
  <2>7. MergedSoFar(d, S, most, 0, x0, <<>>, l, r)
    BY <2>2, <2>3, <2>4, <2>5, <2>6 DEF MergedSoFar
  <2> QED
    BY <2>7 DEF Merging
<1>5. Leads(body, I)
  <2>0. \A x \in MergeStates : body[x] = MergeRound(x)
    OBVIOUS
  <2> HIDE DEF body, S, most
  <2> SUFFICES ASSUME NEW n \in Nat, NEW x \in MergeStates, Merging(d, J, S, most, n, x)
               PROVE  body[x] \in MergeStates /\ Merging(d, J, S, most, n + 1, body[x])
    BY DEF Leads
  <2> DEFINE y == body[x]
  <2>1. y = MergeRound(x)
    BY <2>0
  <2> HIDE DEF y
  <2>2. most \in Nat
    BY <1>1 DEF most
  <2> QED
    BY <2>1, <2>2, MergeRoundIs DEF y
<1>6. last \in MergeStates /\ Merging(d, J, S, most, Rounds, last)
  <2>1. x0 \in I[0] /\ \A x \in I[Rounds] : x \in MergeStates /\ Merging(d, J, S, most, Rounds, x)
    BY <1>2, <1>3, <1>4
  <2> HIDE DEF body, x0, I
  <2>2. last \in I[Rounds]
    BY <1>2, <1>5, <2>1, IterateIn
  <2> QED
    BY <2>1, <2>2
<1>7. Merge(d, l[1], r[1]) = last.d
  BY DEF Merge, MergeStates
<1> HIDE DEF last, body
<1>8. PICK t, a, b : <<t, a, b>> \in J /\ MergedSoFar(d, S, most, Rounds, last, t, a, b)
  BY <1>6 DEF Merging
<1>9. a = <<>> /\ b = <<>>
  <2>1. a \in Seq(Nodes) /\ b \in Seq(Nodes) /\ Len(a) \in Nat /\ Len(b) \in Nat
    BY <1>8 DEF MergedSoFar, Shape
  <2>2. (a = <<>> /\ b = <<>>) \/ Len(a) + Len(b) + Rounds <= most
    BY <1>8 DEF MergedSoFar
  <2> QED
    BY <1>1, <1>2, <2>1, <2>2, EmptySeq
<1>10. Shape(last.d, t, <<>>, <<>>) /\ Within(d, last.d, S) /\ Range(t) \union {} \union {} = S
  <2>1. Range(<<>>) = {}
    BY DEF Range
  <2> QED
    BY <1>8, <1>9, <2>1 DEF MergedSoFar
<1>11. Strand(last.d, t)
  <2>1. t \in Seq(Nodes) /\ Apart(t) /\ Begins(last.d, t) /\ Len(t) \in Nat
    BY <1>10 DEF Shape
  <2>2. Ends(last.d, t)
    <3> SUFFICES ASSUME NEW i \in 1 .. Len(t)
                 PROVE  last.d.next[t[i]] = IF i = Len(t) THEN NULL ELSE t[i + 1]
      BY DEF Ends
    <3>1. i # Len(t) => i \in 1 .. Len(t) - 1
      BY <2>1
    <3>2. t # <<>>
      BY <2>1
    <3>3. last.d.next[LastOf(t)] = NULL /\ LastOf(t) = t[Len(t)]
      BY <1>10, <3>2 DEF Shape, LastOf
    <3> QED
      BY <1>10, <3>1, <3>3 DEF Shape
  <2> QED
    BY <2>1, <2>2 DEF Strand
<1>12. Range(t) = S
  BY <1>10
<1> HIDE DEF S
<1> QED
  BY <1>7, <1>8, <1>9, <1>10, <1>11, <1>12 DEF S

-----------------------------------------------------------------------------
(* Merging: the order of the nodes. *)

RankAt(d, a) == Rank(d.holds[a].tag)

\* The order that a stable sort gives: by rank, and by place where the ranks are the same.
Precedes(d, pos, a, b) ==
  RankAt(d, a) < RankAt(d, b) \/ (RankAt(d, a) = RankAt(d, b) /\ pos[a] < pos[b])

InOrder(d, pos, s) == \A i, j \in 1 .. Len(s) : i < j => Precedes(d, pos, s[i], s[j])

\* The rank of a tag is where it is in the order of the tags.
LEMMA RankIs ==
  \A tag \in Range(TagOrder) : Rank(tag) \in DOMAIN TagOrder /\ TagOrder[Rank(tag)] = tag
BY DEF Rank, Range

\* A node has the rank of its tag.
LEMMA RankOfNode ==
  ASSUME NEW d \in Deques, NEW a \in Nodes
  PROVE  RankAt(d, a) \in Nat
<1>1. d.holds[a].tag \in Range(TagOrder)
  BY DEF Deques, Elements
<1>2. TagOrder \in Seq(Range(Tags) \union {NoTag})
  <2>1. Tags \in Seq(Range(Tags) \union {NoTag})
    BY DequeAssumption
  <2> QED
    BY <2>1 DEF TagOrder
<1>3. DOMAIN TagOrder \subseteq Nat
  BY <1>2
<1> QED
  BY <1>1, <1>3, RankIs DEF RankAt

\* A list in order with one more node behind it.
LEMMA OrderMore ==
  ASSUME NEW d, NEW pos, NEW m \in Seq(Nodes), NEW h \in Nodes, InOrder(d, pos, m),
         \A a \in Range(m) : Precedes(d, pos, a, h)
  PROVE  InOrder(d, pos, Append(m, h))
<1> DEFINE w == Append(m, h)
           n == Len(m)
<1>1. /\ Len(w) = n + 1 /\ w[n + 1] = h /\ (\A i \in 1 .. n : w[i] = m[i]) /\ n \in Nat
  BY OneMore
<1>2. \A i \in 1 .. n : m[i] \in Range(m)
  BY RangeIs
<1> SUFFICES ASSUME NEW i \in 1 .. n + 1, NEW j \in 1 .. n + 1, i < j
             PROVE  Precedes(d, pos, w[i], w[j])
  BY <1>1 DEF InOrder
<1> HIDE DEF w, n
<1>3. i \in 1 .. n /\ (j \in 1 .. n \/ j = n + 1)
  BY <1>1
<1>4. j \in 1 .. n => Precedes(d, pos, m[i], m[j])
  BY <1>3 DEF InOrder, n
<1> QED
  BY <1>1, <1>2, <1>3, <1>4

\* A list in order without its first node.
LEMMA OrderLess ==
  ASSUME NEW d, NEW pos, NEW l \in Seq(Nodes), Apart(l), l # <<>>, InOrder(d, pos, l)
  PROVE  InOrder(d, pos, Tail(l)) /\ \A b \in Range(Tail(l)) : Precedes(d, pos, Head(l), b)
<1> DEFINE t == Tail(l)
           n == Len(l)
<1>1. /\ t \in Seq(Nodes) /\ Len(t) = n - 1 /\ Head(l) = l[1] /\ n \in Nat
      /\ \A i \in 1 .. n - 1 : t[i] = l[i + 1]
  BY OneLess
<1>2. \A i \in 1 .. n - 1 : i + 1 \in 1 .. n /\ 1 \in 1 .. n /\ 1 < i + 1
  BY <1>1
<1> HIDE DEF t, n
<1>3. InOrder(d, pos, t)
  <2> SUFFICES ASSUME NEW i \in 1 .. n - 1, NEW j \in 1 .. n - 1, i < j
               PROVE  Precedes(d, pos, t[i], t[j])
    BY <1>1 DEF InOrder
  <2>1. i + 1 < j + 1
    BY <1>1
  <2> QED
    BY <1>1, <1>2, <2>1 DEF InOrder, n
<1>4. \A b \in Range(t) : Precedes(d, pos, Head(l), b)
  <2> TAKE b \in Range(t)
  <2>1. PICK i \in 1 .. Len(t) : b = t[i]
    BY <1>1, RangeIs
  <2> QED
    BY <1>1, <1>2, <2>1 DEF InOrder, n
<1> QED
  BY <1>3, <1>4 DEF t

\* What was taken of l and r is in order and before what is left of them.
Taken(d, pos, l, r, m, x, y) ==
  /\ Apart(x) /\ Apart(y) /\ Range(x) \subseteq Range(l) /\ Range(y) \subseteq Range(r)
  /\ InOrder(d, pos, m) /\ InOrder(d, pos, x) /\ InOrder(d, pos, y)
  /\ \A a \in Range(m) : \A b \in Range(x) \union Range(y) : Precedes(d, pos, a, b)
  /\ m = <<>> => x = l /\ y = r
  /\ m # <<>> => m[1] = IF NotAfter(d, l[1], r[1]) THEN l[1] ELSE r[1]

Takes(d, pos, l, r) ==
  {u \in Seq(Nodes) \X Seq(Nodes) \X Seq(Nodes) : Taken(d, pos, l, r, u[1], u[2], u[3])}

\* A node that precedes the first one precedes them all.
LEMMA PrecedesAll ==
  ASSUME NEW d \in Deques, NEW pos \in [Nodes -> Nat], NEW h \in Nodes, NEW y \in Seq(Nodes),
         y # <<>>, Apart(y), InOrder(d, pos, y), \A b \in Range(y) : pos[h] < pos[b],
         RankAt(d, h) <= RankAt(d, y[1])
  PROVE  \A b \in Range(y) : Precedes(d, pos, h, b)
<1> TAKE b \in Range(y)
<1>1. y[1] \in Nodes /\ b \in Nodes /\ Head(y) = y[1]
  <2>1. Range(y) \subseteq Nodes
    BY RangeOfSeq
  <2> QED
    BY <2>1
<1>2. RankAt(d, h) \in Nat /\ RankAt(d, y[1]) \in Nat /\ RankAt(d, b) \in Nat
      /\ pos[h] \in Nat /\ pos[b] \in Nat
  BY <1>1, RankOfNode
<1>3. RankAt(d, y[1]) <= RankAt(d, b)
  <2>1. b = y[1] \/ b \in Range(Tail(y))
    BY <1>1, OneLess
  <2>2. b \in Range(Tail(y)) => Precedes(d, pos, y[1], b)
    BY <1>1, OrderLess
  <2> QED
    BY <1>2, <2>1, <2>2 DEF Precedes
<1> QED
  BY <1>2, <1>3 DEF Precedes

\* A node with a lower rank than the first one precedes them all.
LEMMA LowerPrecedesAll ==
  ASSUME NEW d \in Deques, NEW pos \in [Nodes -> Nat], NEW h \in Nodes, NEW y \in Seq(Nodes),
         y # <<>>, Apart(y), InOrder(d, pos, y), RankAt(d, h) < RankAt(d, y[1])
  PROVE  \A b \in Range(y) : Precedes(d, pos, h, b)
<1> TAKE b \in Range(y)
<1>1. y[1] \in Nodes /\ b \in Nodes /\ Head(y) = y[1]
  <2>1. Range(y) \subseteq Nodes
    BY RangeOfSeq
  <2> QED
    BY <2>1
<1>2. RankAt(d, h) \in Nat /\ RankAt(d, y[1]) \in Nat /\ RankAt(d, b) \in Nat
  BY <1>1, RankOfNode
<1>3. RankAt(d, y[1]) <= RankAt(d, b)
  <2>1. b = y[1] \/ b \in Range(Tail(y))
    BY <1>1, OneLess
  <2>2. b \in Range(Tail(y)) => Precedes(d, pos, y[1], b)
    BY <1>1, OrderLess
  <2> QED
    BY <1>2, <2>1, <2>2 DEF Precedes
<1> QED
  BY <1>2, <1>3 DEF Precedes

\* The first node of x is put behind m: w and t are what m and x become.
More(d, pos, m, x, y, w, t) ==
  /\ w \in Seq(Nodes) /\ t \in Seq(Nodes) /\ Apart(t) /\ Range(t) \subseteq Range(x)
  /\ InOrder(d, pos, w) /\ InOrder(d, pos, t)
  /\ \A a \in Range(w) : \A b \in Range(t) \union Range(y) : Precedes(d, pos, a, b)
  /\ w # <<>> /\ w[1] = IF m = <<>> THEN Head(x) ELSE m[1]

\* Everything stays in order when that node precedes what is left.
LEMMA TakenMore ==
  ASSUME NEW d, NEW pos, NEW m \in Seq(Nodes), NEW x \in Seq(Nodes), NEW y \in Seq(Nodes),
         x # <<>>, Apart(x), InOrder(d, pos, m), InOrder(d, pos, x),
         \A a \in Range(m) : \A b \in Range(x) \union Range(y) : Precedes(d, pos, a, b),
         \A b \in Range(y) : Precedes(d, pos, Head(x), b)
  PROVE  More(d, pos, m, x, y, Append(m, Head(x)), Tail(x))
<1> DEFINE h == Head(x)
           t == Tail(x)
           w == Append(m, h)
<1>1. h \in Nodes /\ t \in Seq(Nodes) /\ Range(x) = {h} \union Range(t) /\ Apart(t)
  BY OneLess
<1>2. w \in Seq(Nodes) /\ Range(w) = Range(m) \union {h} /\ Len(w) = Len(m) + 1
  BY <1>1, OneMore
<1>3. InOrder(d, pos, t) /\ \A b \in Range(t) : Precedes(d, pos, h, b)
  BY OrderLess
<1>4. InOrder(d, pos, w)
  <2>1. \A a \in Range(m) : Precedes(d, pos, a, h)
    BY <1>1
  <2> HIDE DEF h
  <2> QED
    BY <1>1, <2>1, OrderMore
<1>5. w # <<>> /\ w[1] = IF m = <<>> THEN h ELSE m[1]
  <2> HIDE DEF h
  <2>1. Len(m) \in Nat /\ (m # <<>> => Len(m) # 0)
    BY EmptySeq
  <2>2. w[Len(m) + 1] = h /\ (\A i \in 1 .. Len(m) : w[i] = m[i]) /\ (m = <<>> => Len(m) = 0)
    BY <1>1, OneMore
  <2>3. m # <<>> => 1 \in 1 .. Len(m)
    BY <2>1
  <2>4. w # <<>>
    BY <1>2, <2>1, EmptySeq
  <2> HIDE DEF w
  <2> QED
    BY <2>1, <2>2, <2>3, <2>4
<1> HIDE DEF h, t, w
<1>6. \A a \in Range(w) : \A b \in Range(t) \union Range(y) : Precedes(d, pos, a, b)
  BY <1>1, <1>2, <1>3 DEF h
<1> QED
  BY <1>1, <1>2, <1>3, <1>4, <1>5, <1>6 DEF h, t, w, More

\* Taking always the node that deque_merge takes keeps it so.
LEMMA MergeOrder ==
  ASSUME NEW d \in Deques, NEW pos \in [Nodes -> Nat], NEW l \in Seq(Nodes), NEW r \in Seq(Nodes),
         l # <<>>, r # <<>>, Apart(l), Apart(r), InOrder(d, pos, l), InOrder(d, pos, r),
         \A a \in Range(l) : \A b \in Range(r) : pos[a] < pos[b]
  PROVE  <<<<>>, l, r>> \in Takes(d, pos, l, r) /\ Merges(d, Takes(d, pos, l, r))
<1> DEFINE J == Takes(d, pos, l, r)
           f == IF NotAfter(d, l[1], r[1]) THEN l[1] ELSE r[1]
<1>1. \A m, x, y \in Seq(Nodes) : <<m, x, y>> \in J <=> Taken(d, pos, l, r, m, x, y)
  BY DEF Takes
<1>2. <<<<>>, l, r>> \in J
  <2>1. <<>> \in Seq(Nodes) /\ Range(<<>>) = {} /\ InOrder(d, pos, <<>>)
    BY DEF Range, InOrder
  <2>2. Taken(d, pos, l, r, <<>>, l, r)
    BY <2>1 DEF Taken
  <2> HIDE DEF J
  <2> QED
    BY <1>1, <2>1, <2>2
<1> HIDE DEF J
<1>3. \A a, b : NotAfter(d, a, b) <=> RankAt(d, a) <= RankAt(d, b)
  BY DEF NotAfter, RankAt
<1>4. \A s \in Seq(Nodes) : Range(s) \subseteq Nodes
  BY RangeOfSeq
<1>5. ASSUME NEW m \in Seq(Nodes), NEW x \in Seq(Nodes), NEW y \in Seq(Nodes), <<m, x, y>> \in J,
             x # <<>>, y = <<>> \/ NotAfter(d, Head(x), Head(y))
      PROVE  <<Append(m, Head(x)), Tail(x), y>> \in J
  <2>1. Taken(d, pos, l, r, m, x, y)
    BY <1>1, <1>5
  <2>2. /\ Apart(x) /\ Apart(y) /\ Range(x) \subseteq Range(l) /\ Range(y) \subseteq Range(r)
        /\ InOrder(d, pos, m) /\ InOrder(d, pos, x) /\ InOrder(d, pos, y)
        /\ \A a \in Range(m) : \A b \in Range(x) \union Range(y) : Precedes(d, pos, a, b)
        /\ m = <<>> => x = l /\ y = r
        /\ m # <<>> => m[1] = f
    BY <2>1 DEF Taken
  <2>3. Head(x) \in Nodes /\ Head(x) \in Range(x)
    <3>1. Apart(x) /\ x # <<>>
      BY <1>5, <2>2
    <3>2. Head(x) \in Nodes /\ Range(x) = {Head(x)} \union Range(Tail(x))
      BY <3>1, OneLess
    <3> QED
      BY <3>2
  <2>4. \A b \in Range(y) : Precedes(d, pos, Head(x), b)
    <3>1. CASE y = <<>>
      BY <3>1 DEF Range
    <3>2. CASE y # <<>>
      <4>1. RankAt(d, Head(x)) <= RankAt(d, y[1])
        BY <1>3, <1>5, <3>2
      <4>2. \A b \in Range(y) : pos[Head(x)] < pos[b]
        BY <2>2, <2>3
      <4> DEFINE h == Head(x)
      <4> HIDE DEF h
      <4>3. h = Head(x)
        BY DEF h
      <4> QED
        BY <2>2, <2>3, <3>2, <4>1, <4>2, <4>3, PrecedesAll
    <3> QED
      BY <3>1, <3>2
  <2>5. m = <<>> => Head(x) = f
    BY <1>5, <2>2
  <2>6. More(d, pos, m, x, y, Append(m, Head(x)), Tail(x))
    <3>1. \A a \in Range(m) : \A b \in Range(x) \union Range(y) : Precedes(d, pos, a, b)
      BY <2>2
    <3>2. Apart(x) /\ InOrder(d, pos, m) /\ InOrder(d, pos, x)
      BY <2>2
    <3> QED
      BY <1>5, <2>4, <3>1, <3>2, TakenMore
  <2>7. Append(m, Head(x)) \in Seq(Nodes) /\ Tail(x) \in Seq(Nodes)
        /\ Taken(d, pos, l, r, Append(m, Head(x)), Tail(x), y)
    <3> DEFINE w == Append(m, Head(x))
               t == Tail(x)
    <3>1. More(d, pos, m, x, y, w, t)
      BY <2>6
    <3> HIDE DEF w, t
    <3>2. /\ w \in Seq(Nodes) /\ t \in Seq(Nodes) /\ Apart(t) /\ Range(t) \subseteq Range(x)
          /\ InOrder(d, pos, w) /\ InOrder(d, pos, t)
          /\ \A a \in Range(w) : \A b \in Range(t) \union Range(y) : Precedes(d, pos, a, b)
          /\ w # <<>>
      BY <3>1 DEF More
    <3>3. w[1] = f
      <4> HIDE DEF f
      <4> QED
        BY <2>2, <2>5, <3>1 DEF More
    <3>4. Taken(d, pos, l, r, w, t, y)
      BY <2>2, <3>2, <3>3 DEF Taken
    <3> QED
      BY <3>2, <3>4 DEF w, t
  <2> QED
    BY <1>1, <2>7
<1>6. ASSUME NEW m \in Seq(Nodes), NEW x \in Seq(Nodes), NEW y \in Seq(Nodes), <<m, x, y>> \in J,
             y # <<>>, ~ (x # <<>> /\ (y = <<>> \/ NotAfter(d, Head(x), Head(y))))
      PROVE  <<Append(m, Head(y)), x, Tail(y)>> \in J
  <2>1. Taken(d, pos, l, r, m, x, y)
    BY <1>1, <1>6
  <2>2. /\ Apart(x) /\ Apart(y) /\ Range(x) \subseteq Range(l) /\ Range(y) \subseteq Range(r)
        /\ InOrder(d, pos, m) /\ InOrder(d, pos, x) /\ InOrder(d, pos, y)
        /\ \A a \in Range(m) : \A b \in Range(y) \union Range(x) : Precedes(d, pos, a, b)
        /\ m = <<>> => x = l /\ y = r
        /\ m # <<>> => m[1] = f
    BY <2>1 DEF Taken
  <2>3. Head(y) \in Nodes /\ Head(y) \in Range(y)
    <3>1. Apart(y) /\ y # <<>>
      BY <1>6, <2>2
    <3>2. Head(y) \in Nodes /\ Range(y) = {Head(y)} \union Range(Tail(y))
      BY <3>1, OneLess
    <3> QED
      BY <3>2
  <2>4. \A b \in Range(x) : Precedes(d, pos, Head(y), b)
    <3>1. CASE x = <<>>
      BY <3>1 DEF Range
    <3>2. CASE x # <<>>
      <4>1. ~ (RankAt(d, x[1]) <= RankAt(d, Head(y))) /\ x[1] \in Nodes
        BY <1>3, <1>6, <3>2
      <4>2. RankAt(d, Head(y)) < RankAt(d, x[1])
        <5>1. RankAt(d, Head(y)) \in Nat /\ RankAt(d, x[1]) \in Nat
          BY <2>3, <4>1, RankOfNode
        <5> QED
          BY <4>1, <5>1
      <4> DEFINE h == Head(y)
      <4> HIDE DEF h
      <4>3. h = Head(y)
        BY DEF h
      <4> QED
        BY <2>2, <2>3, <3>2, <4>2, <4>3, LowerPrecedesAll
    <3> QED
      BY <3>1, <3>2
  <2>5. m = <<>> => Head(y) = f
    BY <1>6, <2>2
  <2>6. More(d, pos, m, y, x, Append(m, Head(y)), Tail(y))
    <3>1. \A a \in Range(m) : \A b \in Range(y) \union Range(x) : Precedes(d, pos, a, b)
      BY <2>2
    <3>2. Apart(y) /\ InOrder(d, pos, m) /\ InOrder(d, pos, y)
      BY <2>2
    <3> QED
      BY <1>6, <2>4, <3>1, <3>2, TakenMore
  <2>7. Append(m, Head(y)) \in Seq(Nodes) /\ Tail(y) \in Seq(Nodes)
        /\ Taken(d, pos, l, r, Append(m, Head(y)), x, Tail(y))
    <3> DEFINE w == Append(m, Head(y))
               t == Tail(y)
    <3>1. More(d, pos, m, y, x, w, t)
      BY <2>6
    <3> HIDE DEF w, t
    <3>2. /\ w \in Seq(Nodes) /\ t \in Seq(Nodes) /\ Apart(t) /\ Range(t) \subseteq Range(y)
          /\ InOrder(d, pos, w) /\ InOrder(d, pos, t)
          /\ \A a \in Range(w) : \A b \in Range(t) \union Range(x) : Precedes(d, pos, a, b)
          /\ w # <<>>
      BY <3>1 DEF More
    <3>3. w[1] = f
      <4> HIDE DEF f
      <4> QED
        BY <2>2, <2>5, <3>1 DEF More
    <3>4. Taken(d, pos, l, r, w, x, t)
      BY <2>2, <3>2, <3>3 DEF Taken
    <3> QED
      BY <3>2, <3>4 DEF w, t
  <2> QED
    BY <1>1, <2>7
<1>7. Merges(d, J)
  BY <1>5, <1>6 DEF Merges
<1> QED
  BY <1>2, <1>7 DEF J

-----------------------------------------------------------------------------
(* The recursion of deque_sort. *)

\* The nodes are in the order of their places.
Rising(pos, s) == \A i, j \in 1 .. Len(s) : i < j => pos[s[i]] < pos[s[j]]

\* l and r are the first k elements of s and the others.
Halves(s, k, l, r) ==
  /\ l \in Seq(Nodes) /\ r \in Seq(Nodes) /\ Len(l) = k /\ Len(r) = Len(s) - k
  /\ (\A i \in 1 .. k : l[i] = s[i]) /\ (\A i \in 1 .. Len(s) - k : r[i] = s[k + i])

\* A sequence has such halves.
LEMMA HalvesAre ==
  ASSUME NEW s \in Seq(Nodes), NEW k \in 1 .. Len(s) - 1
  PROVE  Halves(s, k, SubSeq(s, 1, k), SubSeq(s, k + 1, Len(s)))
<1> DEFINE l == SubSeq(s, 1, k)
           r == SubSeq(s, k + 1, Len(s))
<1>1. Len(s) \in Nat /\ k \in Nat /\ k < Len(s)
  OBVIOUS
<1>2. l \in Seq(Nodes) /\ Len(l) = k /\ \A i \in 1 .. k : l[i] = s[i]
  OBVIOUS
<1>3. r \in Seq(Nodes) /\ Len(r) = Len(s) - k /\ \A i \in 1 .. Len(s) - k : r[i] = s[(k + 1) + i - 1]
  BY <1>1
<1>4. \A i \in 1 .. Len(s) - k : (k + 1) + i - 1 = k + i
  BY <1>1
<1> QED
  BY <1>2, <1>3, <1>4 DEF Halves

\* What they have in them.
LEMMA HalvesHave ==
  ASSUME NEW s \in Seq(Nodes), Apart(s), NEW k \in 1 .. Len(s) - 1, NEW l, NEW r, Halves(s, k, l, r)
  PROVE  /\ Apart(l) /\ Apart(r) /\ Range(l) \cap Range(r) = {} /\ Range(l) \union Range(r) = Range(s)
         /\ l # <<>> /\ r # <<>> /\ l[1] = s[1] /\ r[1] = s[k + 1]
<1> DEFINE n == Len(s)
<1>1. n \in Nat /\ k \in Nat /\ k < n /\ 1 <= k /\ DOMAIN s = 1 .. n
  OBVIOUS
<1>2. /\ l \in Seq(Nodes) /\ r \in Seq(Nodes) /\ Len(l) = k /\ Len(r) = n - k
      /\ (\A i \in 1 .. k : l[i] = s[i]) /\ (\A i \in 1 .. n - k : r[i] = s[k + i])
  BY DEF Halves
<1>3. DOMAIN l = 1 .. k /\ DOMAIN r = 1 .. n - k
  BY <1>2
<1>4. \A x : x \in Range(s) <=> \E i \in 1 .. n : x = s[i]
  BY RangeIs
<1>5. \A x : x \in Range(l) <=> \E i \in 1 .. k : x = l[i]
  <2>1. \A x : x \in Range(l) <=> \E i \in 1 .. Len(l) : x = l[i]
    BY <1>2, RangeIs
  <2> QED
    BY <1>2, <2>1
<1>6. \A x : x \in Range(r) <=> \E i \in 1 .. n - k : x = r[i]
  <2>1. \A x : x \in Range(r) <=> \E i \in 1 .. Len(r) : x = r[i]
    BY <1>2, RangeIs
  <2> QED
    BY <1>2, <2>1
<1> HIDE DEF n
<1>7. /\ \A i \in 1 .. k : i \in 1 .. n
      /\ \A i \in 1 .. n - k : k + i \in 1 .. n /\ k + i \notin 1 .. k
      /\ \A i \in 1 .. n : i \in 1 .. k \/ (i - k \in 1 .. n - k /\ k + (i - k) = i)
      /\ \A i, j \in 1 .. n - k : k + i = k + j => i = j
      /\ 1 \in 1 .. k /\ 1 \in 1 .. n - k
  BY <1>1
<1>8. \A i, j \in 1 .. n : s[i] = s[j] => i = j
  BY <1>1 DEF Apart
<1>9. Apart(l) /\ Apart(r)
  <2>1. ASSUME NEW i \in 1 .. k, NEW j \in 1 .. k, l[i] = l[j] PROVE i = j
    <3>1. i \in 1 .. n /\ j \in 1 .. n /\ s[i] = s[j]
      BY <1>2, <1>7, <2>1
    <3> QED
      BY <1>8, <3>1
  <2>2. ASSUME NEW i \in 1 .. n - k, NEW j \in 1 .. n - k, r[i] = r[j] PROVE i = j
    <3>1. k + i \in 1 .. n /\ k + j \in 1 .. n /\ s[k + i] = s[k + j]
      BY <1>2, <1>7, <2>2
    <3>2. k + i = k + j
      BY <1>8, <3>1
    <3> QED
      BY <1>7, <3>2
  <2> QED
    BY <1>3, <2>1, <2>2 DEF Apart
<1>10. Range(l) \cap Range(r) = {}
  <2> SUFFICES ASSUME NEW x, x \in Range(l), x \in Range(r) PROVE FALSE
    OBVIOUS
  <2>1. PICK i \in 1 .. k : x = s[i]
    BY <1>2, <1>5
  <2>2. PICK j \in 1 .. n - k : x = s[k + j]
    <3>1. PICK j \in 1 .. n - k : x = r[j]
      BY <1>6
    <3> QED
      BY <1>2, <3>1
  <2>3. i \in 1 .. n /\ k + j \in 1 .. n /\ k + j # i
    BY <1>7
  <2> QED
    BY <1>8, <2>1, <2>2, <2>3
<1>11. \A x : x \in Range(l) \/ x \in Range(r) <=> x \in Range(s)
  <2> TAKE x
  <2>1. ASSUME x \in Range(l) \/ x \in Range(r) PROVE x \in Range(s)
    <3>1. CASE x \in Range(l)
      <4>1. PICK i \in 1 .. k : x = s[i]
        BY <1>2, <1>5, <3>1
      <4> QED
        BY <1>4, <1>7, <4>1
    <3>2. CASE x \in Range(r)
      <4>1. PICK i \in 1 .. n - k : x = s[k + i]
        BY <1>2, <1>6, <3>2
      <4> QED
        BY <1>4, <1>7, <4>1
    <3> QED
      BY <2>1, <3>1, <3>2
  <2>2. ASSUME x \in Range(s) PROVE x \in Range(l) \/ x \in Range(r)
    <3>1. PICK i \in 1 .. n : x = s[i]
      BY <1>4, <2>2
    <3>2. CASE i \in 1 .. k
      BY <1>2, <1>5, <3>1, <3>2
    <3>3. CASE i - k \in 1 .. n - k /\ k + (i - k) = i
      BY <1>2, <1>6, <3>1, <3>3
    <3> QED
      BY <1>7, <3>2, <3>3
  <2> QED
    BY <2>1, <2>2
<1>12. l # <<>> /\ r # <<>>
  BY <1>1, <1>2, EmptySeq
<1>13. l[1] = s[1] /\ r[1] = s[k + 1]
  BY <1>2, <1>7
<1> QED
  BY <1>9, <1>10, <1>11, <1>12, <1>13

\* The places in the halves.
LEMMA HalvesRise ==
  ASSUME NEW s \in Seq(Nodes), NEW k \in 1 .. Len(s) - 1, NEW l, NEW r, Halves(s, k, l, r),
         NEW pos, Rising(pos, s)
  PROVE  Rising(pos, l) /\ Rising(pos, r) /\ \A a \in Range(l) : \A b \in Range(r) : pos[a] < pos[b]
<1> DEFINE n == Len(s)
<1>1. n \in Nat /\ k \in Nat /\ k < n /\ 1 <= k
  OBVIOUS
<1>2. /\ l \in Seq(Nodes) /\ r \in Seq(Nodes) /\ Len(l) = k /\ Len(r) = n - k
      /\ (\A i \in 1 .. k : l[i] = s[i]) /\ (\A i \in 1 .. n - k : r[i] = s[k + i])
  BY DEF Halves
<1>3. \A x : x \in Range(l) <=> \E i \in 1 .. k : x = l[i]
  <2>1. \A x : x \in Range(l) <=> \E i \in 1 .. Len(l) : x = l[i]
    BY <1>2, RangeIs
  <2> QED
    BY <1>2, <2>1
<1>4. \A x : x \in Range(r) <=> \E i \in 1 .. n - k : x = r[i]
  <2>1. \A x : x \in Range(r) <=> \E i \in 1 .. Len(r) : x = r[i]
    BY <1>2, RangeIs
  <2> QED
    BY <1>2, <2>1
<1>5. \A i, j \in 1 .. n : i < j => pos[s[i]] < pos[s[j]]
  BY DEF Rising
<1> HIDE DEF n
<1>6. /\ \A i \in 1 .. k : i \in 1 .. n
      /\ \A i \in 1 .. n - k : k + i \in 1 .. n
      /\ \A i \in 1 .. k : \A j \in 1 .. n - k : i < k + j
      /\ \A i, j \in 1 .. n - k : i < j => k + i < k + j
  BY <1>1
<1>7. Rising(pos, l)
  <2> SUFFICES ASSUME NEW i \in 1 .. k, NEW j \in 1 .. k, i < j PROVE pos[l[i]] < pos[l[j]]
    BY <1>2 DEF Rising
  <2>1. i \in 1 .. n /\ j \in 1 .. n /\ l[i] = s[i] /\ l[j] = s[j]
    BY <1>2, <1>6
  <2> QED
    BY <1>5, <2>1
<1>8. Rising(pos, r)
  <2> SUFFICES ASSUME NEW i \in 1 .. n - k, NEW j \in 1 .. n - k, i < j
               PROVE  pos[r[i]] < pos[r[j]]
    BY <1>2 DEF Rising
  <2>1. k + i \in 1 .. n /\ k + j \in 1 .. n /\ k + i < k + j
    BY <1>6
  <2>2. r[i] = s[k + i] /\ r[j] = s[k + j]
    BY <1>2
  <2> QED
    BY <1>5, <2>1, <2>2
<1>9. \A a \in Range(l) : \A b \in Range(r) : pos[a] < pos[b]
  <2> SUFFICES ASSUME NEW a \in Range(l), NEW b \in Range(r) PROVE pos[a] < pos[b]
    OBVIOUS
  <2>1. PICK i \in 1 .. k : a = s[i]
    BY <1>2, <1>3
  <2>2. PICK j \in 1 .. n - k : b = s[k + j]
    <3>1. PICK j \in 1 .. n - k : b = r[j]
      BY <1>4
    <3> QED
      BY <1>2, <3>1
  <2>3. i \in 1 .. n /\ k + j \in 1 .. n /\ i < k + j
    BY <1>6
  <2> QED
    BY <1>5, <2>1, <2>2, <2>3
<1> QED
  BY <1>7, <1>8, <1>9

\* A list that is cut.
LEMMA CutIs ==
  ASSUME NEW d \in Deques, NEW s, Strand(d, s), NEW k \in 1 .. Len(s) - 1, NEW l, NEW r,
         Halves(s, k, l, r)
  PROVE  LET e == Cut(d, s[k + 1])
         IN  Strand(e, l) /\ Strand(e, r) /\ Within(d, e, Range(s))
<1> DEFINE n == Len(s)
           e == Cut(d, s[k + 1])
<1>1. s \in Seq(Nodes) /\ Apart(s) /\ n \in Nat /\ k \in Nat /\ k < n /\ 1 <= k
  BY DEF Strand
<1>2. /\ l \in Seq(Nodes) /\ r \in Seq(Nodes) /\ Len(l) = k /\ Len(r) = n - k
      /\ (\A i \in 1 .. k : l[i] = s[i]) /\ (\A i \in 1 .. n - k : r[i] = s[k + i])
  BY DEF Halves
<1>3. Apart(l) /\ Apart(r)
  BY <1>1, HalvesHave
<1>4. \A i \in 1 .. n : /\ d.next[s[i]] = IF i = n THEN NULL ELSE s[i + 1]
                        /\ d.prev[s[i]] = IF i = 1 THEN NULL ELSE s[i - 1]
  BY DEF Strand, Ends, Begins
<1>5. \A i \in 1 .. n : s[i] \in Nodes /\ s[i] \in Addresses /\ s[i] \in Range(s)
  <2>1. \A i \in 1 .. n : s[i] \in Nodes /\ s[i] \in Range(s)
    BY <1>1, RangeIs
  <2> QED
    BY <2>1 DEF Addresses
<1>6. k \in 1 .. n /\ k + 1 \in 1 .. n /\ k + 1 # 1 /\ (k + 1) - 1 = k
  BY <1>1
<1>7. d.prev[s[k + 1]] = s[k]
  BY <1>4, <1>6
<1>8. \A i, j \in 1 .. n : s[i] = s[j] => i = j
  BY <1>1 DEF Apart
<1>9. /\ e \in Deques /\ e.holds = d.holds /\ e.live = d.live /\ e.size = d.size
      /\ \A x \in Addresses : /\ e.next[x] = IF x = s[k] THEN NULL ELSE d.next[x]
                              /\ e.prev[x] = IF x = s[k + 1] THEN NULL ELSE d.prev[x]
  <2> DEFINE a == s[k]
             b == s[k + 1]
  <2>1. a \in Addresses /\ b \in Addresses /\ NULL \in Pointers
    BY <1>5, <1>6 DEF Pointers
  <2>2. e = [d EXCEPT !.prev[b] = NULL, !.next[a] = NULL]
    BY <1>7 DEF Cut
  <2> HIDE DEF a, b, e
  <2>3. /\ e \in Deques /\ e.holds = d.holds /\ e.live = d.live /\ e.size = d.size
        /\ e.next = [d.next EXCEPT ![a] = NULL] /\ e.prev = [d.prev EXCEPT ![b] = NULL]
    BY <2>1, <2>2 DEF Deques
  <2>4. \A x \in Addresses : /\ e.next[x] = IF x = a THEN NULL ELSE d.next[x]
                             /\ e.prev[x] = IF x = b THEN NULL ELSE d.prev[x]
    BY <2>1, <2>3 DEF Deques
  <2> QED
    BY <2>3, <2>4 DEF a, b
<1> HIDE DEF e, n
<1>10. \A i \in 1 .. n : /\ e.next[s[i]] = IF i = k \/ i = n THEN NULL ELSE s[i + 1]
                         /\ e.prev[s[i]] = IF i = k + 1 \/ i = 1 THEN NULL ELSE s[i - 1]
  BY <1>4, <1>5, <1>6, <1>8, <1>9
<1>11. Strand(e, l)
  <2>1. \A i \in 1 .. k : i \in 1 .. n /\ i # k + 1 /\ (i = n => i = k) /\ (i # k => i + 1 \in 1 .. k)
                          /\ (i # 1 => i - 1 \in 1 .. k)
    BY <1>1
  <2>2. Ends(e, l)
    <3>1. SUFFICES ASSUME NEW i \in 1 .. k PROVE e.next[l[i]] = IF i = k THEN NULL ELSE l[i + 1]
      BY <1>2 DEF Ends
    <3>2. l[i] = s[i] /\ (i # k => l[i + 1] = s[i + 1])
      BY <1>2, <2>1
    <3>3. e.next[s[i]] = IF i = k \/ i = n THEN NULL ELSE s[i + 1]
      BY <1>10, <2>1
    <3> QED
      BY <2>1, <3>2, <3>3
  <2>3. Begins(e, l)
    <3>1. SUFFICES ASSUME NEW i \in 1 .. k PROVE e.prev[l[i]] = IF i = 1 THEN NULL ELSE l[i - 1]
      BY <1>2 DEF Begins
    <3>2. l[i] = s[i] /\ (i # 1 => l[i - 1] = s[i - 1])
      BY <1>2, <2>1
    <3>3. e.prev[s[i]] = IF i = k + 1 \/ i = 1 THEN NULL ELSE s[i - 1]
      BY <1>10, <2>1
    <3> QED
      BY <2>1, <3>2, <3>3
  <2> QED
    BY <1>2, <1>3, <2>2, <2>3 DEF Strand
<1>12. Strand(e, r)
  <2>1. \A i \in 1 .. n - k : k + i \in 1 .. n /\ k + i # k /\ k + i # 1
                              /\ (k + i = n <=> i = n - k) /\ (k + i = k + 1 <=> i = 1)
    BY <1>1
  <2>2. \A i \in 1 .. n - k : /\ i # n - k => i + 1 \in 1 .. n - k /\ k + (i + 1) = (k + i) + 1
                              /\ i # 1 => i - 1 \in 1 .. n - k /\ k + (i - 1) = (k + i) - 1
    BY <1>1
  <2>3. Ends(e, r)
    <3> SUFFICES ASSUME NEW i \in 1 .. n - k
                 PROVE  e.next[r[i]] = IF i = n - k THEN NULL ELSE r[i + 1]
      BY <1>2 DEF Ends
    <3>1. e.next[r[i]] = IF i = n - k THEN NULL ELSE s[(k + i) + 1]
      <4>1. r[i] = s[k + i] /\ k + i \in 1 .. n
        BY <1>2, <2>1
      <4>2. e.next[s[k + i]] = IF i = n - k THEN NULL ELSE s[(k + i) + 1]
        BY <1>10, <2>1, <4>1
      <4> QED
        BY <4>1, <4>2
    <3> QED
      BY <1>2, <2>2, <3>1
  <2>4. Begins(e, r)
    <3> SUFFICES ASSUME NEW i \in 1 .. n - k
                 PROVE  e.prev[r[i]] = IF i = 1 THEN NULL ELSE r[i - 1]
      BY <1>2 DEF Begins
    <3>1. e.prev[r[i]] = IF i = 1 THEN NULL ELSE s[(k + i) - 1]
      <4>1. r[i] = s[k + i] /\ k + i \in 1 .. n
        BY <1>2, <2>1
      <4>2. e.prev[s[k + i]] = IF i = 1 THEN NULL ELSE s[(k + i) - 1]
        BY <1>10, <2>1, <4>1
      <4> QED
        BY <4>1, <4>2
    <3> QED
      BY <1>2, <2>2, <3>1
  <2> QED
    BY <1>2, <1>3, <2>3, <2>4 DEF Strand
<1>13. Within(d, e, Range(s))
  <2>1. s[k] \in Range(s) /\ s[k + 1] \in Range(s)
    BY <1>5, <1>6
  <2> QED
    BY <1>9, <2>1 DEF Within
<1> QED
  BY <1>11, <1>12, <1>13 DEF e

\* The order of a list is a matter of what the nodes hold.
LEMMA OrderSame ==
  ASSUME NEW d, NEW e, NEW S, Within(d, e, S), NEW pos, NEW s
  PROVE  InOrder(d, pos, s) <=> InOrder(e, pos, s)
<1>1. d.holds = e.holds
  BY DEF Within
<1>2. \A a : RankAt(d, a) = RankAt(e, a)
  BY <1>1 DEF RankAt
<1>3. \A a, b : Precedes(d, pos, a, b) <=> Precedes(e, pos, a, b)
  BY <1>2 DEF Precedes
<1> QED
  BY <1>3 DEF InOrder

\* y, of which the list is s, becomes z, of which the list is t.
SortedAs(pos, y, s, z, t) ==
  /\ z \in Lists /\ Strand(z.d, t) /\ t # <<>> /\ z.first = t[1]
  /\ Range(t) = Range(s) /\ Within(y.d, z.d, Range(s)) /\ InOrder(y.d, pos, t)

IsList(pos, y, s) ==
  y \in Lists /\ Strand(y.d, s) /\ s # <<>> /\ y.first = s[1] /\ Rising(pos, s)

\* Two sorted lists become one.
LEMMA MergedIs ==
  ASSUME NEW d \in Deques, NEW pos \in [Nodes -> Nat], NEW l, NEW r, l # <<>>, r # <<>>,
         Strand(d, l), Strand(d, r), InOrder(d, pos, l), InOrder(d, pos, r),
         Range(l) \cap Range(r) = {}, \A a \in Range(l) : \A b \in Range(r) : pos[a] < pos[b],
         NEW x, x.first = l[1], NEW y, y.d = d, y.first = r[1]
  PROVE  LET z == Merged(x, y)
         IN  \E t : /\ z \in Lists /\ Strand(z.d, t) /\ t # <<>> /\ z.first = t[1]
                    /\ Range(t) = Range(l) \union Range(r)
                    /\ Within(d, z.d, Range(t)) /\ InOrder(d, pos, t)
<1> DEFINE J == Takes(d, pos, l, r)
           e == Merge(d, l[1], r[1])
           f == IF NotAfter(d, l[1], r[1]) THEN l[1] ELSE r[1]
           z == Merged(x, y)
<1>1. l \in Seq(Nodes) /\ r \in Seq(Nodes) /\ Apart(l) /\ Apart(r)
  BY DEF Strand
<1>2. <<<<>>, l, r>> \in J /\ Merges(d, J)
  BY <1>1, MergeOrder
<1>3. PICK t : /\ <<t, <<>>, <<>>>> \in J /\ Strand(e, t)
               /\ Range(t) = Range(l) \union Range(r)
               /\ Within(d, e, Range(t))
  <2> HIDE DEF J
  <2> QED
    BY <1>2, MergeIs
<1>4. Taken(d, pos, l, r, t, <<>>, <<>>)
  BY <1>3 DEF Takes
<1>5. z.d = e /\ z.first = f /\ z = [d |-> e, first |-> f]
  BY DEF Merged
<1> HIDE DEF J, e, z
<1>6. l[1] \in Range(l) /\ l[1] \in Nodes /\ r[1] \in Nodes
  <2>1. 1 \in 1 .. Len(l)
    BY <1>1, EmptySeq
  <2> QED
    BY <1>1, <2>1, RangeIs
<1>7. t # <<>>
  <2>1. Range(<<>>) = {}
    BY DEF Range
  <2> QED
    BY <1>3, <1>6, <2>1
<1>8. t[1] = f /\ InOrder(d, pos, t)
  BY <1>4, <1>7 DEF Taken
<1>9. z \in Lists
  <2>1. e \in Deques
    BY <1>3 DEF Within
  <2>2. f \in Pointers
    BY <1>6 DEF Pointers, Addresses
  <2> HIDE DEF f
  <2> QED
    BY <1>5, <2>1, <2>2 DEF Lists
<1> HIDE DEF f
<1> QED
  BY <1>3, <1>5, <1>7, <1>8, <1>9 DEF z

\* What sort does with lists of at most n nodes.
SortsUpTo(sort, pos, n) ==
  \A y, s : IsList(pos, y, s) /\ Len(s) <= n => \E t : SortedAs(pos, y, s, sort[y], t)

\* Sorting two halves and merging them.
LEMMA SortAtIs ==
  ASSUME NEW pos \in [Nodes -> Nat], NEW n \in Nat, NEW sort, SortsUpTo(sort, pos, n),
         NEW y, NEW s, IsList(pos, y, s), Len(s) <= n + 1, NEW k \in 1 .. Len(s) - 1
  PROVE  \E t : SortedAs(pos, y, s, SortAt(sort, y, s[k + 1]), t)
<1> DEFINE l == SubSeq(s, 1, k)
           r == SubSeq(s, k + 1, Len(s))
           d == y.d
           e == Cut(d, s[k + 1])
           y1 == [y EXCEPT !.d = e]
           z1 == sort[y1]
           y2 == [d |-> z1.d, first |-> s[k + 1]]
           z2 == sort[y2]
           z == Merged(z1, z2)
<1>1. y \in Lists /\ d \in Deques /\ Strand(d, s) /\ s \in Seq(Nodes) /\ Apart(s) /\ y.first = s[1]
      /\ Rising(pos, s) /\ Len(s) \in Nat
  BY DEF IsList, Lists, Strand
<1>2. Halves(s, k, l, r)
  BY <1>1, HalvesAre
<1> HIDE DEF l, r, d
<1>3. /\ Apart(l) /\ Apart(r) /\ Range(l) \cap Range(r) = {} /\ Range(l) \union Range(r) = Range(s)
      /\ l # <<>> /\ r # <<>> /\ l[1] = s[1] /\ r[1] = s[k + 1]
  BY <1>1, <1>2, HalvesHave
<1>4. Rising(pos, l) /\ Rising(pos, r) /\ \A a \in Range(l) : \A b \in Range(r) : pos[a] < pos[b]
  BY <1>1, <1>2, HalvesRise
<1>5. Strand(e, l) /\ Strand(e, r) /\ Within(d, e, Range(s))
  BY <1>1, <1>2, CutIs
<1>6. Len(l) <= n /\ Len(r) <= n /\ r[1] \in Nodes
  <2>1. Len(l) = k /\ Len(r) = Len(s) - k /\ r \in Seq(Nodes)
    BY <1>2 DEF Halves
  <2> QED
    BY <1>1, <1>3, <2>1
<1>7. y1.d = e /\ y1.first = s[1] /\ y1 \in Lists
  <2>1. e \in Deques
    BY <1>5 DEF Within
  <2>2. DOMAIN y = {"d", "first"} /\ y.first = s[1] /\ s[1] \in Pointers
    BY <1>1 DEF Lists
  <2> HIDE DEF e
  <2>3. DOMAIN y1 = {"d", "first"} /\ y1.d = e /\ y1.first = s[1]
    BY <2>2
  <2>4. y1 \in Lists
    BY <1>1, <2>1 DEF Lists
  <2> QED
    BY <2>3, <2>4
<1> HIDE DEF e, y1
<1>8. PICK t1 : SortedAs(pos, y1, l, z1, t1)
  <2>1. IsList(pos, y1, l)
    BY <1>3, <1>4, <1>5, <1>7 DEF IsList
  <2> QED
    BY <1>6, <2>1 DEF SortsUpTo
<1> HIDE DEF z1
<1>9. /\ z1.d \in Deques /\ Strand(z1.d, t1) /\ t1 # <<>> /\ z1.first = t1[1]
      /\ Range(t1) = Range(l) /\ Within(e, z1.d, Range(l)) /\ InOrder(e, pos, t1)
  BY <1>7, <1>8 DEF SortedAs, Lists
<1>10. y2.d = z1.d /\ y2.first = r[1] /\ y2 \in Lists
  BY <1>3, <1>6, <1>9 DEF Lists, Pointers, Addresses
<1> HIDE DEF y2
<1>11. Strand(z1.d, r)
  BY <1>3, <1>5, <1>9, StrandStays
<1>12. PICK t2 : SortedAs(pos, y2, r, z2, t2)
  <2>1. IsList(pos, y2, r)
    BY <1>3, <1>4, <1>10, <1>11 DEF IsList
  <2> QED
    BY <1>6, <2>1 DEF SortsUpTo
<1> HIDE DEF z2
<1>13. /\ z2.d \in Deques /\ Strand(z2.d, t2) /\ t2 # <<>> /\ z2.first = t2[1]
       /\ Range(t2) = Range(r) /\ Within(z1.d, z2.d, Range(r)) /\ InOrder(z1.d, pos, t2)
  BY <1>10, <1>12 DEF SortedAs, Lists
<1>14. Strand(z2.d, t1)
  <2>1. Range(t1) \cap Range(r) = {}
    BY <1>3, <1>9
  <2> QED
    BY <1>9, <1>13, <2>1, StrandStays
<1>15. InOrder(z2.d, pos, t1) /\ InOrder(z2.d, pos, t2)
  <2>1. InOrder(z1.d, pos, t1)
    BY <1>9, OrderSame
  <2> QED
    BY <1>13, <2>1, OrderSame
<1>16. PICK t : /\ z \in Lists /\ Strand(z.d, t) /\ t # <<>> /\ z.first = t[1]
                /\ Range(t) = Range(t1) \union Range(t2)
                /\ Within(z2.d, z.d, Range(t)) /\ InOrder(z2.d, pos, t)
  <2>1. Range(t1) \cap Range(t2) = {} /\ \A a \in Range(t1) : \A b \in Range(t2) : pos[a] < pos[b]
    BY <1>3, <1>4, <1>9, <1>13
  <2>2. /\ z2.d \in Deques /\ t1 # <<>> /\ t2 # <<>> /\ Strand(z2.d, t1) /\ Strand(z2.d, t2)
        /\ InOrder(z2.d, pos, t1) /\ InOrder(z2.d, pos, t2)
        /\ z1.first = t1[1] /\ z2.first = t2[1]
    BY <1>9, <1>13, <1>14, <1>15
  <2> QED
    BY <2>1, <2>2, MergedIs
<1> HIDE DEF z
<1>17. Range(t) = Range(s)
  BY <1>3, <1>9, <1>13, <1>16
<1>18. Within(d, z2.d, Range(s)) /\ Within(d, z.d, Range(s))
  <2>1. /\ Range(s) \union Range(l) = Range(s) /\ Range(s) \union Range(r) = Range(s)
        /\ Range(s) \union Range(t) = Range(s)
    BY <1>3, <1>17
  <2>2. Within(d, z1.d, Range(s))
    BY <1>5, <1>9, <2>1, WithinTwo
  <2>3. Within(d, z2.d, Range(s))
    BY <1>13, <2>1, <2>2, WithinTwo
  <2>4. Within(d, z.d, Range(s))
    BY <1>16, <2>1, <2>3, WithinTwo
  <2> QED
    BY <2>3, <2>4
<1>19. InOrder(d, pos, t)
  BY <1>16, <1>18, OrderSame
<1>20. SortAt(sort, y, s[k + 1]) = z
  BY DEF SortAt, SortHalves, z, z2, y2, z1, y1, e, d
<1>21. SortedAs(pos, y, s, z, t)
  BY <1>16, <1>17, <1>18, <1>19 DEF SortedAs, d
<1> QED
  BY <1>20, <1>21

\* A list of one node is left as it is, and a longer one is cut and merged.
LEMMA SortListIs ==
  ASSUME NEW pos \in [Nodes -> Nat], NEW n \in Nat, NEW sort, SortsUpTo(sort, pos, n),
         NEW y, NEW s, IsList(pos, y, s), Len(s) <= n + 1
  PROVE  \E t : SortedAs(pos, y, s, SortList(sort, y), t)
<1>1. /\ y \in Lists /\ y.d \in Deques /\ Strand(y.d, s) /\ s \in Seq(Nodes) /\ y.first = s[1]
      /\ Len(s) \in Nat \ {0} /\ s # <<>>
  BY EmptySeq DEF IsList, Lists, Strand
<1>2. s[1] \in Nodes /\ y.d.next[s[1]] = IF 1 = Len(s) THEN NULL ELSE s[2]
  <2>1. 1 \in 1 .. Len(s)
    BY <1>1
  <2>2. y.d.next[s[1]] = IF 1 = Len(s) THEN NULL ELSE s[1 + 1]
    BY <1>1, <2>1 DEF Strand, Ends
  <2>3. s[1] \in Nodes /\ 1 + 1 = 2
    BY <1>1, <2>1
  <2> QED
    BY <2>2, <2>3
<1>3. y.first # NULL
  BY <1>1, <1>2, NodesApart
<1>4. CASE Len(s) = 1
  <2>1. SortList(sort, y) = y
    BY <1>1, <1>2, <1>4 DEF SortList
  <2>2. InOrder(y.d, pos, s)
    BY <1>4 DEF InOrder
  <2>3. Within(y.d, y.d, Range(s))
    BY <1>1 DEF Within
  <2>4. SortedAs(pos, y, s, y, s)
    BY <1>1, <2>2, <2>3 DEF SortedAs
  <2> QED
    BY <2>1, <2>4
<1>5. CASE Len(s) # 1
  <2>0. Len(s) > 1 /\ 2 \in 1 .. Len(s)
    <3>1. Len(s) \in Nat /\ Len(s) # 0 /\ Len(s) # 1
      BY <1>1, <1>5
    <3>2. \A m \in Nat : m # 0 /\ m # 1 => m > 1 /\ 2 \in 1 .. m
      OBVIOUS
    <3> QED
      BY <3>1, <3>2
  <2>1. Len(s) > 1 /\ s[2] \in Nodes
    BY <1>1, <2>0
  <2>2. y.d.next[s[1]] # NULL
    BY <1>2, <1>5, <2>1, NodesApart
  <2>3. PICK k \in 1 .. Len(s) - 1 : Middle(y.d, s[1]) = s[k + 1]
    BY <1>1, <2>1, MiddleIs
  <2>4. SortList(sort, y) = SortAt(sort, y, s[k + 1])
    BY <1>1, <1>3, <2>2, <2>3 DEF SortList
  <2>5. \E t : SortedAs(pos, y, s, SortAt(sort, y, s[k + 1]), t)
    BY SortAtIs
  <2> QED
    BY <2>4, <2>5
<1> QED
  BY <1>4, <1>5

\* deque_sort: the nodes of a list in the order of their tags, those with the same tag in
\* the order they had.
LEMMA SortedIs ==
  ASSUME NEW pos \in [Nodes -> Nat], NEW y, NEW s, IsList(pos, y, s)
  PROVE  \E t : SortedAs(pos, y, s, Sorted(y), t)
<1>1. PICK f : (\A n \in Nat : f[n] = SortOf(f, n)) /\ \A x : Sorted(x) = f[Rounds][x]
  BY SortSteps
<1> DEFINE L == {n \in Nat : SortsUpTo(f[n], pos, n)}
<1>2. 0 \in L
  <2> SUFFICES ASSUME NEW x, NEW u, IsList(pos, x, u), Len(u) <= 0 PROVE FALSE
    BY DEF SortsUpTo
  <2>1. u \in Seq(Nodes) /\ u # <<>>
    BY DEF IsList, Strand
  <2> QED
    BY <2>1, EmptySeq
<1>3. ASSUME NEW n \in Nat, n \in L PROVE n + 1 \in L
  <2>1. SortsUpTo(f[n], pos, n)
    BY <1>3
  <2> SUFFICES ASSUME NEW x, NEW u, IsList(pos, x, u), Len(u) <= n + 1
               PROVE  \E t : SortedAs(pos, x, u, f[n + 1][x], t)
    BY DEF SortsUpTo
  <2>2. \E t : SortedAs(pos, x, u, SortList(f[n], x), t)
    BY <2>1, SortListIs
  <2>3. f[n + 1][x] = SortList(f[n], x)
    <3>1. n + 1 \in Nat /\ n + 1 # 0 /\ (n + 1) - 1 = n /\ x \in Lists
      BY DEF IsList
    <3>2. f[n + 1] = SortOf(f, n + 1)
      BY <1>1, <3>1
    <3>3. SortOf(f, n + 1)[x] = SortList(f[(n + 1) - 1], x)
      BY <3>1 DEF SortOf
    <3> QED
      BY <3>1, <3>2, <3>3
  <2> QED
    BY <2>2, <2>3
<1> HIDE DEF L
<1>4. Nat \subseteq L
  BY <1>2, <1>3, SetInduction
<1>5. s \in Seq(Nodes) /\ Apart(s)
  BY DEF IsList, Strand
<1>6. Len(s) <= Rounds /\ Rounds \in Nat
  BY <1>5, SizeIs
<1>7. SortsUpTo(f[Rounds], pos, Rounds)
  BY <1>4, <1>6 DEF L
<1> QED
  BY <1>1, <1>6, <1>7 DEF SortsUpTo

\* The last node of a list.
LEMMA LastFromIs ==
  ASSUME NEW d \in Deques, NEW s, Strand(d, s), s # <<>>
  PROVE  LastFrom(d, s[1]) = s[Len(s)]
<1> DEFINE m == Len(s)
           at(i) == IF i + 1 <= m THEN i + 1 ELSE m
           v == [i \in Nat |-> s[at(i)]]
           body == [n \in Pointers |-> IF d.next[n] = NULL THEN n ELSE d.next[n]]
<1>1. s \in Seq(Nodes) /\ Apart(s) /\ m \in Nat \ {0}
  BY EmptySeq DEF Strand
<1>2. m <= Rounds /\ Rounds \in Nat
  BY <1>1, SizeIs
<1>3. /\ \A i \in Nat : at(i) \in 1 .. m /\ at(i + 1) = IF at(i) = m THEN m ELSE at(i) + 1
      /\ at(0) = 1 /\ at(Rounds) = m
  BY <1>1, <1>2
<1>4. \A i \in 1 .. m : d.next[s[i]] = IF i = m THEN NULL ELSE s[i + 1]
  BY DEF Strand, Ends
<1>5. \A i \in 1 .. m : s[i] \in Nodes /\ s[i] \in Pointers /\ s[i] # NULL /\ (i # m => i + 1 \in 1 .. m)
  BY <1>1, NodesApart DEF Pointers, Addresses
<1>6. \A n \in Pointers : body[n] = IF d.next[n] = NULL THEN n ELSE d.next[n]
  OBVIOUS
<1>7. \A i \in Nat : v[i] = s[at(i)]
  OBVIOUS
<1>8. v[0] = s[1] /\ v[Rounds] = s[m]
  BY <1>2, <1>3, <1>7
<1> HIDE DEF v, body, at
<1>9. Goes(body, v)
  <2> SUFFICES ASSUME NEW i \in Nat PROVE body[v[i]] = v[i + 1]
    BY DEF Goes
  <2>1. at(i) \in 1 .. m /\ v[i] = s[at(i)] /\ v[i + 1] = s[at(i + 1)]
    <3>1. i + 1 \in Nat
      OBVIOUS
    <3> QED
      BY <1>3, <1>7, <3>1
  <2>2. body[s[at(i)]] = IF at(i) = m THEN s[m] ELSE s[at(i) + 1]
    BY <1>4, <1>5, <1>6, <2>1
  <2> QED
    BY <1>3, <2>1, <2>2
<1>10. Iterate(body, v[0], Rounds) = v[Rounds]
  BY <1>2, <1>9, IterateIs
<1>11. LastFrom(d, s[1]) = Iterate(body, s[1], Rounds)
  BY DEF LastFrom, body
<1> QED
  BY <1>8, <1>10, <1>11

-----------------------------------------------------------------------------
(* Sorting a deque. *)

\* Without its sentinels, and with them again.
CutOff(d) ==
  [d EXCEPT !.prev = [@ EXCEPT ![d.next[Start]] = NULL, ![End] = NULL],
            !.next = [@ EXCEPT ![d.prev[End]] = NULL, ![Start] = NULL]]

PutBack(z) == Link(Link(z.d, Start, z.first), LastFrom(z.d, z.first), End)

SortDeque(d) == PutBack(Sorted([d |-> CutOff(d), first |-> d.next[Start]]))

\* Where a node is in a list.
PlaceIn(s) == [n \in Nodes |-> IF n \in Range(s) THEN CHOOSE i \in 1 .. Len(s) : s[i] = n ELSE 0]

\* The nodes of a list are in the order of their places in it.
LEMMA PlacesRise ==
  ASSUME NEW s \in Seq(Nodes), Apart(s)
  PROVE  /\ PlaceIn(s) \in [Nodes -> Nat] /\ Rising(PlaceIn(s), s)
         /\ \A i \in 1 .. Len(s) : PlaceIn(s)[s[i]] = i
<1> DEFINE pos == PlaceIn(s)
<1>1. DOMAIN s = 1 .. Len(s) /\ Len(s) \in Nat
  OBVIOUS
<1>2. \A x : x \in Range(s) <=> \E i \in 1 .. Len(s) : x = s[i]
  BY RangeIs
<1>3. pos \in [Nodes -> Nat]
  <2> SUFFICES ASSUME NEW n \in Nodes, n \in Range(s)
               PROVE  (CHOOSE i \in 1 .. Len(s) : s[i] = n) \in Nat
    BY DEF PlaceIn
  <2>1. \E i \in 1 .. Len(s) : s[i] = n
    BY <1>2
  <2>2. (CHOOSE i \in 1 .. Len(s) : s[i] = n) \in 1 .. Len(s)
    BY <2>1
  <2> QED
    BY <2>2
<1>4. \A i \in 1 .. Len(s) : pos[s[i]] = i
  <2> TAKE i \in 1 .. Len(s)
  <2> DEFINE n == s[i]
             k == CHOOSE j \in 1 .. Len(s) : s[j] = n
  <2>1. n \in Nodes /\ n \in Range(s)
    BY <1>2
  <2>2. k \in 1 .. Len(s) /\ s[k] = n
    OBVIOUS
  <2>3. pos[n] = k
    BY <2>1 DEF PlaceIn
  <2> HIDE DEF k, pos
  <2>4. k = i
    BY <1>1, <2>2 DEF Apart
  <2> QED
    BY <2>3, <2>4
<1> HIDE DEF pos
<1>5. Rising(pos, s)
  BY <1>4 DEF Rising
<1> QED
  BY <1>3, <1>4, <1>5 DEF pos

\* The list without the sentinels.
LEMMA CutOffIs ==
  ASSUME NEW d \in Deques, NEW s, Chain(d, s), s # <<>>
  PROVE  LET c == CutOff(d)
         IN  /\ c \in Deques /\ Strand(c, s) /\ d.next[Start] = s[1]
             /\ c.holds = d.holds /\ c.live = d.live /\ c.size = d.size
<1> DEFINE m == Len(s)
           c == CutOff(d)
<1>1. s \in Seq(Nodes) /\ Apart(s) /\ m \in Nat \ {0}
  BY EmptySeq DEF Chain
<1>2. \A i \in 0 .. m : d.next[Stop(s, i)] = Stop(s, i + 1) /\ d.prev[Stop(s, i + 1)] = Stop(s, i)
  BY DEF Chain
<1>3. /\ Stop(s, 0) = Start /\ Stop(s, m + 1) = End
      /\ \A i \in 1 .. m : Stop(s, i) = s[i] /\ s[i] \in Nodes
  BY <1>1, StopIs
<1>4. 0 \in 0 .. m /\ m \in 0 .. m /\ 0 + 1 = 1 /\ 1 \in 1 .. m /\ m \in 1 .. m
  BY <1>1
<1>5. d.next[Start] = s[1] /\ d.prev[End] = s[m]
  BY <1>2, <1>3, <1>4
<1>6. \A i \in 1 .. m : s[i] \in Addresses /\ s[i] # Start /\ s[i] # End
  BY <1>3, NodesApart DEF Addresses
<1>7. Start \in Addresses /\ End \in Addresses /\ NULL \in Pointers
  BY DEF Addresses, Pointers
<1>8. /\ c \in Deques /\ c.holds = d.holds /\ c.live = d.live /\ c.size = d.size
      /\ \A x \in Addresses : /\ c.next[x] = IF x = s[m] \/ x = Start THEN NULL ELSE d.next[x]
                              /\ c.prev[x] = IF x = s[1] \/ x = End THEN NULL ELSE d.prev[x]
  <2> DEFINE a == s[1]
             b == s[m]
             p == [d.prev EXCEPT ![a] = NULL, ![End] = NULL]
             n == [d.next EXCEPT ![b] = NULL, ![Start] = NULL]
  <2>1. a \in Addresses /\ b \in Addresses
    BY <1>4, <1>6
  <2> HIDE DEF a, b
  <2>2. c = [d EXCEPT !.prev = p, !.next = n]
    BY <1>5 DEF CutOff, a, b
  <2>3. p \in [Addresses -> Pointers] /\ n \in [Addresses -> Pointers]
        /\ \A x \in Addresses : /\ p[x] = IF x = End \/ x = a THEN NULL ELSE d.prev[x]
                                /\ n[x] = IF x = Start \/ x = b THEN NULL ELSE d.next[x]
    BY <1>7, <2>1 DEF Deques
  <2> HIDE DEF p, n, c
  <2>4. c \in Deques /\ c.holds = d.holds /\ c.live = d.live /\ c.size = d.size /\ c.prev = p /\ c.next = n
    BY <2>2, <2>3 DEF Deques
  <2> QED
    BY <2>3, <2>4 DEF a, b
<1> HIDE DEF c, m
<1>9. \A i, j \in 1 .. m : s[i] = s[j] => i = j
  <2>1. DOMAIN s = 1 .. m
    BY <1>1 DEF m
  <2> QED
    BY <1>1, <2>1 DEF Apart
<1>10. Ends(c, s)
  <2> SUFFICES ASSUME NEW i \in 1 .. m PROVE c.next[s[i]] = IF i = m THEN NULL ELSE s[i + 1]
    BY DEF Ends, m
  <2>1. c.next[s[i]] = IF i = m THEN NULL ELSE d.next[s[i]]
    BY <1>4, <1>6, <1>8, <1>9
  <2>2. i # m => i \in 0 .. m /\ i + 1 \in 1 .. m
    BY <1>1
  <2>3. i # m => d.next[s[i]] = s[i + 1]
    BY <1>2, <1>3, <2>2
  <2> QED
    BY <2>1, <2>3
<1>11. Begins(c, s)
  <2> SUFFICES ASSUME NEW i \in 1 .. m PROVE c.prev[s[i]] = IF i = 1 THEN NULL ELSE s[i - 1]
    BY DEF Begins, m
  <2>1. c.prev[s[i]] = IF i = 1 THEN NULL ELSE d.prev[s[i]]
    BY <1>4, <1>6, <1>8, <1>9
  <2>2. i # 1 => i - 1 \in 0 .. m /\ i - 1 \in 1 .. m /\ (i - 1) + 1 = i
    BY <1>1
  <2>3. i # 1 => d.prev[s[i]] = s[i - 1]
    BY <1>2, <1>3, <2>2
  <2> QED
    BY <2>1, <2>3
<1> QED
  BY <1>1, <1>5, <1>8, <1>10, <1>11 DEF Strand, c

\* The list with the sentinels.
LEMMA PutBackIs ==
  ASSUME NEW z \in Lists, NEW t, Strand(z.d, t), t # <<>>, z.first = t[1],
         Range(t) = z.d.live, Len(t) = z.d.size
  PROVE  PutBack(z) \in Deques /\ Chain(PutBack(z), t) /\ PutBack(z).holds = z.d.holds
<1> DEFINE d == z.d
           m == Len(t)
           c == Link(d, Start, t[1])
           e == Link(c, t[m], End)
<1>1. d \in Deques /\ t \in Seq(Nodes) /\ Apart(t) /\ m \in Nat \ {0} /\ Ends(d, t) /\ Begins(d, t)
  BY EmptySeq DEF Lists, Strand
<1>2. \A i \in 1 .. m : t[i] \in Nodes /\ t[i] \in Addresses /\ t[i] # Start /\ t[i] # End
  BY <1>1, NodesApart DEF Addresses
<1>3. Start \in Addresses /\ End \in Addresses /\ Start # End
  BY NodesApart DEF Addresses
<1>4. 1 \in 1 .. m /\ m \in 1 .. m
  BY <1>1
<1>5. PutBack(z) = e
  <2>1. LastFrom(d, t[1]) = t[m]
    BY <1>1, LastFromIs DEF Strand
  <2> QED
    BY <2>1 DEF PutBack
<1>6. /\ c \in Deques /\ c.holds = d.holds /\ c.live = d.live /\ c.size = d.size
      /\ \A x \in Addresses : /\ c.next[x] = IF x = Start THEN t[1] ELSE d.next[x]
                              /\ c.prev[x] = IF x = t[1] THEN Start ELSE d.prev[x]
  <2>1. d \in Deques /\ Start \in Addresses /\ t[1] \in Addresses
    BY <1>1, <1>2, <1>3, <1>4
  <2> HIDE DEF d, c
  <2>2. c = Link(d, Start, t[1])
    BY DEF c
  <2> QED
    BY <2>1, <2>2, LinkAt DEF Deques
<1> HIDE DEF c
<1>7. /\ e \in Deques /\ e.holds = c.holds /\ e.live = c.live /\ e.size = c.size
      /\ \A x \in Addresses : /\ e.next[x] = IF x = t[m] THEN End ELSE c.next[x]
                              /\ e.prev[x] = IF x = End THEN t[m] ELSE c.prev[x]
  <2>1. c \in Deques /\ End \in Addresses /\ t[m] \in Addresses
    BY <1>2, <1>3, <1>4, <1>6
  <2> HIDE DEF m, e
  <2>2. e = Link(c, t[m], End)
    BY DEF e
  <2> QED
    BY <2>1, <2>2, LinkAt DEF Deques
<1> HIDE DEF e, d, m
<1>8. \A x \in Addresses :
        /\ e.next[x] = IF x = t[m] THEN End ELSE IF x = Start THEN t[1] ELSE d.next[x]
        /\ e.prev[x] = IF x = End THEN t[m] ELSE IF x = t[1] THEN Start ELSE d.prev[x]
  BY <1>6, <1>7
<1>9. \A i, j \in 1 .. m : t[i] = t[j] => i = j
  <2>1. DOMAIN t = 1 .. m
    BY <1>1 DEF m
  <2> QED
    BY <1>1, <2>1 DEF Apart
<1>10. \A i \in 1 .. m : /\ d.next[t[i]] = IF i = m THEN NULL ELSE t[i + 1]
                         /\ d.prev[t[i]] = IF i = 1 THEN NULL ELSE t[i - 1]
  BY <1>1 DEF Ends, Begins, m
<1>11. /\ Stop(t, 0) = Start /\ Stop(t, m + 1) = End
       /\ \A i \in 1 .. m : Stop(t, i) = t[i]
  BY <1>1, StopIs DEF m
<1>12. \A i \in 0 .. m : e.next[Stop(t, i)] = Stop(t, i + 1)
  <2> TAKE i \in 0 .. m
  <2>1. CASE i = 0
    <3>1. Stop(t, i) = Start /\ Stop(t, i + 1) = t[1]
      BY <1>4, <1>11, <2>1
    <3> QED
      BY <1>2, <1>3, <1>4, <1>8, <3>1
  <2>2. CASE i # 0
    <3>1. i \in 1 .. m /\ (i # m => i + 1 \in 1 .. m)
      BY <1>1, <2>2
    <3>2. e.next[t[i]] = IF t[i] = t[m] THEN End ELSE d.next[t[i]]
      BY <1>2, <1>8, <3>1
    <3>3. (t[i] = t[m] <=> i = m) /\ (i # m => d.next[t[i]] = t[i + 1])
      BY <1>4, <1>9, <1>10, <3>1
    <3> QED
      BY <1>11, <3>1, <3>2, <3>3
  <2> QED
    BY <2>1, <2>2
<1>13. \A i \in 0 .. m : e.prev[Stop(t, i + 1)] = Stop(t, i)
  <2> TAKE i \in 0 .. m
  <2>1. CASE i = m
    <3>1. Stop(t, i) = t[m] /\ Stop(t, i + 1) = End
      BY <1>4, <1>11, <2>1
    <3> QED
      BY <1>3, <1>8, <3>1
  <2>2. CASE i # m
    <3>1. i + 1 \in 1 .. m /\ (i + 1) - 1 = i /\ (i # 0 => i \in 1 .. m /\ i + 1 # 1) /\ (i = 0 => i + 1 = 1)
      BY <1>1, <2>2
    <3>2. e.prev[t[i + 1]] = IF t[i + 1] = t[1] THEN Start ELSE d.prev[t[i + 1]]
      BY <1>2, <1>8, <3>1
    <3>3. (t[i + 1] = t[1] <=> i + 1 = 1) /\ (i # 0 => d.prev[t[i + 1]] = t[i])
      BY <1>4, <1>9, <1>10, <3>1
    <3> QED
      BY <1>11, <3>1, <3>2, <3>3
  <2> QED
    BY <2>1, <2>2
<1>14. Chain(e, t)
  <2>1. Range(t) = e.live /\ Len(t) = e.size
    BY <1>6, <1>7 DEF d
  <2> QED
    BY <1>1, <1>12, <1>13, <2>1 DEF Chain, m
<1> QED
  BY <1>5, <1>6, <1>7, <1>14 DEF d

\* A deque that is sorted: the same nodes, in the order of their tags, those with the same
\* tag in the order they had.
LEMMA SortDequeIs ==
  ASSUME NEW d \in Deques, NEW s, Chain(d, s), s # <<>>
  PROVE  LET e == SortDeque(d)
         IN  \E t : /\ e \in Deques /\ Chain(e, t) /\ e.holds = d.holds
                    /\ Range(t) = Range(s) /\ InOrder(d, PlaceIn(s), t)
<1> DEFINE c == CutOff(d)
           y == [d |-> c, first |-> d.next[Start]]
           z == Sorted(y)
           pos == PlaceIn(s)
<1>1. s \in Seq(Nodes) /\ Apart(s) /\ Range(s) = d.live /\ Len(s) = d.size
  BY DEF Chain
<1>2. /\ c \in Deques /\ Strand(c, s) /\ d.next[Start] = s[1]
      /\ c.holds = d.holds /\ c.live = d.live /\ c.size = d.size
  BY CutOffIs
<1>3. pos \in [Nodes -> Nat] /\ Rising(pos, s)
  BY <1>1, PlacesRise
<1> HIDE DEF c, pos
<1>4. y.d = c /\ y.first = s[1] /\ y \in Lists
  <2>1. d.next[Start] \in Pointers
    BY DEF Deques, Addresses
  <2> QED
    BY <1>2, <2>1 DEF Lists
<1> HIDE DEF y
<1>5. IsList(pos, y, s)
  BY <1>2, <1>3, <1>4 DEF IsList
<1>6. PICK t : SortedAs(pos, y, s, z, t)
  BY <1>3, <1>5, SortedIs
<1> HIDE DEF z
<1>7. /\ z \in Lists /\ Strand(z.d, t) /\ t # <<>> /\ z.first = t[1]
      /\ Range(t) = Range(s) /\ Within(c, z.d, Range(s)) /\ InOrder(c, pos, t)
  BY <1>4, <1>6 DEF SortedAs
<1>8. z.d.holds = d.holds /\ z.d.live = d.live /\ z.d.size = d.size
  BY <1>2, <1>7 DEF Within
<1>9. Len(t) = Len(s)
  <2>1. t \in Seq(Nodes) /\ Apart(t)
    BY <1>7 DEF Strand
  <2>2. Cardinality(Range(t)) = Len(t) /\ Cardinality(Range(s)) = Len(s)
    BY <1>1, <2>1, SizeIs
  <2> QED
    BY <1>7, <2>2
<1>10. PutBack(z) \in Deques /\ Chain(PutBack(z), t) /\ PutBack(z).holds = z.d.holds
  BY <1>1, <1>7, <1>8, <1>9, PutBackIs
<1>11. InOrder(d, pos, t)
  <2>1. \A a : RankAt(c, a) = RankAt(d, a)
    BY <1>2 DEF RankAt
  <2>2. \A a, b : Precedes(c, pos, a, b) <=> Precedes(d, pos, a, b)
    BY <2>1 DEF Precedes
  <2> QED
    BY <1>7, <2>2 DEF InOrder
<1>12. SortDeque(d) = PutBack(z)
  BY DEF SortDeque, z, y, c
<1> QED
  BY <1>7, <1>8, <1>10, <1>11, <1>12 DEF pos

-----------------------------------------------------------------------------
(* What each call does to the list. *)

\* An element is offered.
LEMMA AddStep ==
  ASSUME NEW s, q \in Deques, Chain(q, s), NEW tag \in Range(TagOrder), NEW v \in Values, Add(tag, v)
  PROVE  \E n \in Nodes \ q.live :
           /\ q' \in Deques /\ Chain(q', Append(s, n))
           /\ q'.holds = [q.holds EXCEPT ![n] = [tag |-> tag, val |-> v]]
           /\ q'.live = q.live \union {n} /\ iter' = iter
<1> DEFINE n == CHOOSE a \in Nodes \ q.live : \A b \in Nodes \ q.live : a <= b
           d == [q EXCEPT !.holds[n] = [tag |-> tag, val |-> v],
                          !.live = @ \union {n}, !.size = @ + 1]
<1>1. n \in Nodes \ q.live
  <2>1. Nodes \ q.live \subseteq Nat /\ Nodes \ q.live # {}
    BY DequeAssumption DEF Add, Deques
  <2>2. \E a \in Nodes \ q.live : \A b \in Nodes \ q.live : a <= b
    BY <2>1, LeastNatural
  <2> QED
    BY <2>2
<1>2. q' = Link(Link(d, d.prev[End], n), n, End) /\ iter' = iter
  BY DEF Add
<1> HIDE DEF n
<1>3. [tag |-> tag, val |-> v] \in Elements
  BY DEF Elements
<1>4. /\ d.next = q.next /\ d.prev = q.prev /\ d.live = q.live \union {n} /\ d.size = q.size + 1
      /\ d.holds = [q.holds EXCEPT ![n] = [tag |-> tag, val |-> v]]
  BY DEF Deques
<1>5. d \in Deques
  <2> DEFINE w == [tag |-> tag, val |-> v]
             h == [q.holds EXCEPT ![n] = w]
             a == q.live \union {n}
             k == q.size + 1
  <2>1. w \in Elements
    BY <1>3
  <2>2. d = [q EXCEPT !.holds = h, !.live = a, !.size = k]
    BY DEF Deques
  <2> HIDE DEF w, d
  <2>3. h \in [Nodes -> Elements] /\ a \in SUBSET Nodes /\ k \in Nat
    BY <1>1, <2>1 DEF Deques
  <2> HIDE DEF h, a, k
  <2> QED
    BY <2>2, <2>3 DEF Deques
<1> HIDE DEF d
<1>6. q' \in Deques /\ Chain(q', Append(s, n)) /\ q'.holds = d.holds
  BY <1>1, <1>2, <1>4, <1>5, ChainAdd
<1>7. q'.live = q.live \union {n}
  <2>1. s \in Seq(Nodes) /\ Range(s) = q.live
    BY DEF Chain
  <2>2. Range(Append(s, n)) = Range(s) \union {n}
    BY <1>1, <2>1, OneMore
  <2> QED
    BY <1>6, <2>1, <2>2 DEF Chain
<1> QED
  BY <1>1, <1>2, <1>4, <1>6, <1>7

\* A node is taken out, and the others stay as they are.
Out(s, i) ==
  /\ q' \in Deques /\ Chain(q', RemoveAt(s, i))
  /\ \A x \in Nodes : x # s[i] => q'.holds[x] = q.holds[x]

\* The first and the last node are taken.
LEMMA PollStep ==
  ASSUME NEW s, q \in Deques, Chain(q, s)
  PROVE  /\ Poll => IF s = <<>> THEN q' = q ELSE q.next[Start] = s[1] /\ Out(s, 1)
         /\ PollLast => IF s = <<>> THEN q' = q ELSE q.prev[End] = s[Len(s)] /\ Out(s, Len(s))
<1>1. s \in Seq(Nodes) /\ q.size = Len(s) /\ Len(s) \in Nat /\ (s = <<>> <=> Len(s) = 0)
  BY EmptySeq DEF Chain
<1>2. CASE s = <<>>
  BY <1>1, <1>2 DEF Poll, PollLast, Take
<1>3. CASE s # <<>>
  <2>1. q.next[Start] = s[1] /\ q.prev[End] = s[Len(s)]
    <3>1. 0 \in 0 .. Len(s) /\ Len(s) \in 0 .. Len(s) /\ 1 \in 1 .. Len(s) /\ Len(s) \in 1 .. Len(s) /\ 0 + 1 = 1
      BY <1>1, <1>3
    <3>2. q.next[Stop(s, 0)] = Stop(s, 0 + 1) /\ q.prev[Stop(s, Len(s) + 1)] = Stop(s, Len(s))
      BY <3>1 DEF Chain
    <3>3. Stop(s, 0) = Start /\ Stop(s, Len(s) + 1) = End /\ Stop(s, 1) = s[1] /\ Stop(s, Len(s)) = s[Len(s)]
      BY <1>1, <3>1, StopIs
    <3> QED
      BY <3>1, <3>2, <3>3
  <2>2. 1 \in 1 .. Len(s) /\ Len(s) \in 1 .. Len(s) /\ q.size # 0
    BY <1>1, <1>3
  <2>3. (Poll => q' = Unlink(q, s[1])) /\ (PollLast => q' = Unlink(q, s[Len(s)]))
    BY <2>1, <2>2 DEF Poll, PollLast, Take
  <2>4. \A i \in 1 .. Len(s) : q' = Unlink(q, s[i]) => Out(s, i)
    <3> SUFFICES ASSUME NEW i \in 1 .. Len(s), q' = Unlink(q, s[i]) PROVE Out(s, i)
      OBVIOUS
    <3> DEFINE e == Unlink(q, s[i])
    <3>1. /\ e \in Deques /\ Chain(e, RemoveAt(s, i))
          /\ \A x \in Nodes : x # s[i] => e.holds[x] = q.holds[x]
      BY ChainUnlink DEF Deques
    <3>2. q' = e
      OBVIOUS
    <3> HIDE DEF e
    <3> QED
      BY <3>1, <3>2 DEF Out
  <2> QED
    BY <1>3, <2>1, <2>2, <2>3, <2>4
<1> QED
  BY <1>2, <1>3

\* What is in S is removed.
LEMMA RemoveStep ==
  ASSUME NEW s, q \in Deques, Chain(q, s), NEW S, q' = RemoveFrom(q, S)
  PROVE  /\ q' \in Deques /\ Chain(q', FlatMap(Keep(S), s))
         /\ \A a \in Range(FlatMap(Keep(S), s)) : q'.holds[a] = q.holds[a]
BY RemoveFromIs DEF Deques

\* The list is sorted, unless it has no two elements.
LEMMA SortStep ==
  ASSUME NEW s, q \in Deques, Chain(q, s), Sort
  PROVE  \E t : /\ q' \in Deques /\ Chain(q', t) /\ q'.holds = q.holds
                /\ Range(t) = Range(s) /\ InOrder(q, PlaceIn(s), t)
<1>1. s \in Seq(Nodes) /\ q.size = Len(s) /\ Len(s) \in Nat
  BY DEF Chain
<1>2. CASE q.size <= 1
  <2>1. q' = q
    BY <1>2 DEF Sort
  <2>2. \A i, j \in 1 .. Len(s) : ~ i < j
    BY <1>1, <1>2
  <2>3. InOrder(q, PlaceIn(s), s)
    BY <2>2 DEF InOrder
  <2> QED
    BY <2>1, <2>3
<1>3. CASE ~ q.size <= 1
  <2>1. q' = SortDeque(q)
    BY <1>3 DEF Sort, SortDeque, PutBack, CutOff
  <2>2. s # <<>>
    BY <1>1, <1>3
  <2> DEFINE e == SortDeque(q)
  <2>3. \E t : /\ e \in Deques /\ Chain(e, t) /\ e.holds = q.holds
               /\ Range(t) = Range(s) /\ InOrder(q, PlaceIn(s), t)
    BY <2>2, SortDequeIs
  <2>4. q' = e
    BY <2>1
  <2> HIDE DEF e
  <2> QED
    BY <2>3, <2>4
<1> QED
  BY <1>2, <1>3

\* A node in use is somewhere in the list.
LEMMA WhereIs ==
  ASSUME NEW d, NEW s, Chain(d, s), NEW a \in d.live
  PROVE  \E i \in 1 .. Len(s) : a = s[i] /\ a = Stop(s, i) /\ a \in Nodes
<1>1. s \in Seq(Nodes) /\ Range(s) = d.live
  BY DEF Chain
<1>2. PICK i \in 1 .. Len(s) : a = s[i]
  BY <1>1, RangeIs
<1> QED
  BY <1>1, <1>2, StopIs

\* The iterator goes on to the next node, or finds no more.
LEMMA IterNextStep ==
  ASSUME NEW s, q \in Deques, Chain(q, s), IterNext
  PROVE  /\ q' = q
         /\ iter = NULL => iter' = NULL
         /\ \A j \in 0 .. Len(s) : iter = Stop(s, j) => iter' = IF j = Len(s) THEN NULL ELSE s[j + 1]
<1>1. q' = q /\ iter' = DequeNext(q, iter)
  BY DEF IterNext
<1>2. iter = NULL => DequeNext(q, iter) = NULL
  BY DEF DequeNext
<1>3. \A j \in 0 .. Len(s) : DequeNext(q, Stop(s, j)) = IF j = Len(s) THEN NULL ELSE s[j + 1]
  BY NextIs
<1> QED
  BY <1>1, <1>2, <1>3

\* The node the iterator stands on is taken out, and the iterator is on the one before.
LEMMA IterRemoveStep ==
  ASSUME NEW s, q \in Deques, Chain(q, s), IterRemove, iter \in {NoIter, NULL, Start} \union q.live
  PROVE  \/ iter \notin Nodes /\ q' = q /\ iter' = iter
         \/ \E i \in 1 .. Len(s) :
              /\ iter = s[i] /\ iter \in Nodes /\ Out(s, i) /\ iter' = Stop(s, i - 1)
              /\ iter' \in {Start} \union q'.live
<1>1. CASE iter \notin Nodes
  BY <1>1 DEF IterRemove
<1>2. CASE iter \in Nodes
  <2>1. q' = Unlink(q, iter) /\ iter' = q.prev[iter]
    BY <1>2 DEF IterRemove
  <2>2. iter \in q.live
    BY <1>2, NodesApart
  <2>3. PICK i \in 1 .. Len(s) : iter = s[i]
    BY <2>2, WhereIs
  <2> DEFINE e == Unlink(q, s[i])
  <2>4. /\ e \in Deques /\ Chain(e, RemoveAt(s, i))
        /\ \A x \in Nodes : x # s[i] => e.holds[x] = q.holds[x]
        /\ q.prev[s[i]] = Stop(s, i - 1)
    BY ChainUnlink DEF Deques
  <2>5. q' = e /\ iter' = Stop(s, i - 1)
    BY <2>1, <2>3, <2>4
  <2> HIDE DEF e
  <2>6. Out(s, i)
    BY <2>4, <2>5 DEF Out
  <2>7. iter' \in {Start} \union q'.live
    <3>1. s \in Seq(Nodes) /\ Apart(s) /\ Len(s) \in Nat /\ DOMAIN s = 1 .. Len(s)
      BY DEF Chain
    <3>2. q'.live = Range(s) \ {s[i]}
      <4>1. Range(RemoveAt(s, i)) = Range(s) \ {s[i]}
        BY <3>1, WithoutIs
      <4>2. Range(RemoveAt(s, i)) = q'.live
        BY <2>6 DEF Out, Chain
      <4> QED
        BY <4>1, <4>2
    <3>3. CASE i = 1
      BY <2>5, <3>3 DEF Stop
    <3>4. CASE i # 1
      <4>1. i - 1 \in 1 .. Len(s) /\ i - 1 # i
        BY <3>1, <3>4
      <4>2. Stop(s, i - 1) = s[i - 1]
        BY <3>1, <4>1, StopIs
      <4>3. s[i - 1] # s[i] /\ s[i - 1] \in Range(s)
        BY <3>1, <4>1, RangeIs DEF Apart
      <4> QED
        BY <2>5, <3>2, <4>2, <4>3
    <3> QED
      BY <3>3, <3>4
  <2> QED
    BY <1>2, <2>3, <2>5, <2>6, <2>7
<1> QED
  BY <1>1, <1>2

\* The tags and their order.
LEMMA TagsAre ==
  /\ Tags \in Seq(Range(Tags)) /\ Len(Tags) \in Nat
  /\ Len(TagOrder) = Len(Tags) + 1 /\ DOMAIN TagOrder = 1 .. Len(Tags) + 1
  /\ TagOrder[Len(Tags) + 1] = NoTag /\ \A i \in 1 .. Len(Tags) : TagOrder[i] = Tags[i]
  /\ NoTag \in Range(TagOrder)
<1>1. Tags \in Seq(Range(Tags) \union {NoTag}) /\ Tags \in Seq(Range(Tags))
  BY DequeAssumption
<1>2. /\ Len(Tags) \in Nat /\ Len(TagOrder) = Len(Tags) + 1 /\ DOMAIN TagOrder = 1 .. Len(Tags) + 1
      /\ TagOrder[Len(Tags) + 1] = NoTag /\ \A i \in 1 .. Len(Tags) : TagOrder[i] = Tags[i]
  BY <1>1 DEF TagOrder
<1>3. Len(Tags) + 1 \in DOMAIN TagOrder
  BY <1>2
<1>4. NoTag \in Range(TagOrder)
  BY <1>2, <1>3 DEF Range
<1> QED
  BY <1>1, <1>2, <1>4

-----------------------------------------------------------------------------
(* The deque stays well linked. *)

\* A new deque.
LEMMA InitLinked == Init => DequeInv /\ Chain(q, <<>>)
<1> SUFFICES ASSUME Init PROVE DequeInv /\ Chain(q, <<>>)
  OBVIOUS
<1>1. <<>> \in Seq(Nodes) /\ Len(<<>>) = 0 /\ Range(<<>>) = {} /\ Apart(<<>>)
  BY DEF Range, Apart
<1>2. Start # End /\ End \in Addresses /\ Start \in Addresses
  BY NodesApart DEF Addresses
<1>3. q \in Deques
  <2>1. DOMAIN q.next = Addresses
    BY DEF Init
  <2>2. NULL \in Pointers /\ Start \in Pointers /\ End \in Pointers
    BY <1>2 DEF Pointers
  <2>3. Nodes # {} => Wiped \in Elements
    <3>1. PICK v : v \in Values
      BY DequeAssumption
    <3>2. NoTag \in Range(TagOrder)
      BY TagsAre
    <3>3. [tag |-> NoTag, val |-> v] \in Elements
      BY <3>1, <3>2 DEF Elements
    <3> QED
      BY <3>3, Zenon DEF Wiped
  <2> QED
    BY <2>2, <2>3 DEF Init, Deques
<1>4. Chain(q, <<>>)
  <2>1. Stop(<<>>, 0) = Start /\ Stop(<<>>, 0 + 1) = End
    BY <1>1 DEF Stop
  <2>2. q.next[Start] = End /\ q.prev[End] = Start /\ q.live = {} /\ q.size = 0
    BY <1>2 DEF Init
  <2>3. \A i \in 0 .. Len(<<>>) : i = 0
    OBVIOUS
  <2> QED
    BY <1>1, <2>1, <2>2, <2>3 DEF Chain
<1>5. iter = NoIter
  BY DEF Init
<1> QED
  BY <1>3, <1>4, <1>5 DEF DequeInv, Linked

\* The node of an iterator when nodes were added.
LEMMA StepLinked ==
  ASSUME DequeInv, [Next]_vars
  PROVE  DequeInv'
<1>1. PICK s : Chain(q, s)
  BY DEF DequeInv, Linked
<1>2. q \in Deques /\ iter \in {NoIter, NULL, Start} \union q.live /\ s \in Seq(Nodes)
  BY <1>1 DEF DequeInv, Linked, Chain
<1>3. ASSUME NEW t, q' \in Deques, Chain(q', t), iter' \in {NoIter, NULL, Start} \union q'.live
      PROVE  DequeInv'
  <2>1. Linked(q)'
    BY <1>3 DEF Linked, Chain, Apart, Stop, Deques, Range
  <2> QED
    BY <1>3, <2>1 DEF DequeInv
<1>4. ASSUME q' = q, iter' \in {NoIter, NULL, Start} \union q.live
      PROVE  DequeInv'
  BY <1>1, <1>2, <1>3, <1>4
<1>5. ASSUME NEW tag \in Range(TagOrder), NEW v \in Values, Add(tag, v)
      PROVE  DequeInv'
  <2>1. PICK n \in Nodes \ q.live :
           /\ q' \in Deques /\ Chain(q', Append(s, n))
           /\ q'.live = q.live \union {n} /\ iter' = iter
    BY <1>1, <1>2, <1>5, AddStep
  <2> QED
    BY <1>2, <1>3, <2>1
<1>6. ASSUME iter = NoIter, iter' = iter, NEW t, q' \in Deques, Chain(q', t)
      PROVE  DequeInv'
  BY <1>3, <1>6
<1>7. CASE Poll
  <2>1. iter = NoIter /\ iter' = iter
    BY <1>7 DEF Poll, Take
  <2>2. IF s = <<>> THEN q' = q ELSE Out(s, 1)
    BY <1>1, <1>2, <1>7, PollStep
  <2> QED
    BY <1>2, <1>4, <1>6, <2>1, <2>2 DEF Out
<1>8. CASE PollLast
  <2>1. iter = NoIter /\ iter' = iter
    BY <1>8 DEF PollLast, Take
  <2>2. IF s = <<>> THEN q' = q ELSE Out(s, Len(s))
    BY <1>1, <1>2, <1>8, PollStep
  <2> QED
    BY <1>2, <1>4, <1>6, <2>1, <2>2 DEF Out
<1>9. ASSUME NEW S, iter = NoIter, iter' = iter, q' = RemoveFrom(q, S)
      PROVE  DequeInv'
  <2>1. q' \in Deques /\ Chain(q', FlatMap(Keep(S), s))
    BY <1>1, <1>2, <1>9, RemoveStep
  <2> QED
    BY <1>6, <1>9, <2>1
<1>10. ASSUME NEW tag \in Range(TagOrder), RemoveTag(tag)
       PROVE  DequeInv'
  <2>1. iter = NoIter /\ iter' = iter
    BY <1>10 DEF RemoveTag
  <2>2. CASE tag = NoTag
    <3>1. q' = q
      BY <1>10, <2>2 DEF RemoveTag
    <3> QED
      BY <1>2, <1>4, <2>1, <3>1
  <2>3. CASE tag # NoTag
    <3>1. q' = RemoveFrom(q, {n \in q.live : q.holds[n].tag = tag})
      BY <1>10, <2>3 DEF RemoveTag
    <3> QED
      BY <1>9, <2>1, <3>1
  <2> QED
    BY <2>2, <2>3
<1>11. CASE Clear
  <2>1. iter = NoIter /\ iter' = iter /\ q' = RemoveFrom(q, q.live)
    BY <1>11 DEF Clear
  <2> QED
    BY <1>9, <2>1
<1>12. CASE Sort
  <2>1. iter = NoIter /\ iter' = iter
    BY <1>12 DEF Sort
  <2>2. \E t : q' \in Deques /\ Chain(q', t)
    BY <1>1, <1>2, <1>12, SortStep
  <2> QED
    BY <1>6, <2>1, <2>2
<1>13. CASE IterCreate \/ IterDestroy
  <2>1. q' = q /\ iter' \in {Start, NoIter}
    BY <1>13 DEF IterCreate, IterDestroy
  <2> QED
    BY <1>4, <2>1
<1>14. CASE IterNext
  <2>1. /\ q' = q
        /\ iter = NULL => iter' = NULL
        /\ \A j \in 0 .. Len(s) : iter = Stop(s, j) => iter' = IF j = Len(s) THEN NULL ELSE s[j + 1]
    BY <1>1, <1>2, <1>14, IterNextStep
  <2>2. iter = NULL \/ \E j \in 0 .. Len(s) : iter = Stop(s, j)
    <3>1. iter # NoIter
      BY <1>14 DEF IterNext
    <3>2. CASE iter = Start
      <4>1. 0 \in 0 .. Len(s) /\ Stop(s, 0) = Start
        BY <1>2, StopIs
      <4> QED
        BY <3>2, <4>1
    <3>3. CASE iter \in q.live
      <4>1. PICK i \in 1 .. Len(s) : iter = Stop(s, i)
        BY <1>1, <3>3, WhereIs
      <4> QED
        BY <4>1
    <3> QED
      BY <1>2, <3>1, <3>2, <3>3
  <2>3. \A j \in 0 .. Len(s) : j # Len(s) => s[j + 1] \in q.live
    <3> SUFFICES ASSUME NEW j \in 0 .. Len(s), j # Len(s) PROVE s[j + 1] \in q.live
      OBVIOUS
    <3>1. j + 1 \in 1 .. Len(s)
      BY <1>2
    <3>2. s[j + 1] \in Range(s)
      BY <1>2, <3>1, RangeIs
    <3> QED
      BY <1>1, <3>2 DEF Chain
  <2> QED
    BY <1>4, <2>1, <2>2, <2>3
<1>15. CASE IterRemove
  <2>1. \/ q' = q /\ iter' = iter
        \/ \E i \in 1 .. Len(s) : Out(s, i) /\ iter' \in {Start} \union q'.live
    BY <1>1, <1>2, <1>15, IterRemoveStep
  <2> QED
    BY <1>2, <1>3, <1>4, <2>1 DEF Out
<1>16. ASSUME UNCHANGED <<q, iter>> PROVE DequeInv'
  BY <1>2, <1>4, <1>16
<1>17. CASE Peek \/ PeekLast \/ Size \/ IterHasNext \/ \E tag \in Range(TagOrder) : Get(tag)
  BY <1>16, <1>17 DEF Peek, PeekLast, Size, IterHasNext, Get, Look
<1>18. CASE UNCHANGED vars
  BY <1>16, <1>18 DEF vars
<1> QED
  BY <1>5, <1>7, <1>8, <1>10, <1>11, <1>12, <1>13, <1>14, <1>15, <1>17, <1>18 DEF Next

\* Whatever the calls: next and prev lead over the same nodes in opposite orders, these are
\* the nodes in use, each once, and an iterator stands on one of them.
THEOREM LinksHold == Spec => []WellLinked
<1>1. DequeInv /\ [Next]_vars => DequeInv'
  BY StepLinked
<1>2. DequeInv => WellLinked
  BY LinkedIs
<1> QED
  BY <1>1, <1>2, InitLinked, PTL DEF Spec

-----------------------------------------------------------------------------
(* The list that a deque is: what its nodes hold, in their order. *)

Held(d, s) == [i \in DOMAIN s |-> d.holds[s[i]]]

\* What the nodes of a sequence hold.
LEMMA HeldAre ==
  ASSUME NEW d \in Deques, NEW s \in Seq(Nodes)
  PROVE  /\ Held(d, s) \in Seq(Elements) /\ Len(Held(d, s)) = Len(s)
         /\ \A i \in 1 .. Len(s) : Held(d, s)[i] = d.holds[s[i]] /\ d.holds[s[i]] \in Elements
         /\ DOMAIN Held(d, s) = 1 .. Len(s) /\ (Held(d, s) = <<>> <=> s = <<>>)
<1>1. d.holds \in [Nodes -> Elements]
  BY DEF Deques
<1>2. \A i \in 1 .. Len(s) : s[i] \in Nodes /\ d.holds[s[i]] \in Elements
  BY <1>1
<1> QED
  BY <1>2 DEF Held

\* Nodes that hold the same, one by one, are the same list.
LEMMA HeldSame ==
  ASSUME NEW d \in Deques, NEW e \in Deques, NEW s \in Seq(Nodes),
         \A a \in Range(s) : e.holds[a] = d.holds[a]
  PROVE  Held(e, s) = Held(d, s)
<1>1. \A i \in 1 .. Len(s) : s[i] \in Range(s)
  BY RangeIs
<1>2. \A i \in 1 .. Len(s) : Held(e, s)[i] = Held(d, s)[i]
  BY <1>1, HeldAre
<1> QED
  BY <1>2, HeldAre, SeqEqual

\* One more node.
LEMMA HeldMore ==
  ASSUME NEW d \in Deques, NEW s \in Seq(Nodes), NEW n \in Nodes
  PROVE  Held(d, Append(s, n)) = Append(Held(d, s), d.holds[n]) /\ d.holds[n] \in Elements
<1> DEFINE u == Append(s, n)
           v == Append(Held(d, s), d.holds[n])
<1>1. d.holds[n] \in Elements
  BY DEF Deques
<1>2. /\ u \in Seq(Nodes) /\ Len(u) = Len(s) + 1 /\ u[Len(s) + 1] = n
      /\ \A i \in 1 .. Len(s) : u[i] = s[i]
  OBVIOUS
<1>3. /\ v \in Seq(Elements) /\ Len(v) = Len(s) + 1 /\ v[Len(s) + 1] = d.holds[n]
      /\ \A i \in 1 .. Len(s) : v[i] = Held(d, s)[i]
  BY <1>1, HeldAre
<1> HIDE DEF u, v
<1>4. \A i \in 1 .. Len(s) + 1 : i \in 1 .. Len(s) \/ i = Len(s) + 1
  OBVIOUS
<1>5. Held(d, u) \in Seq(Elements) /\ Len(Held(d, u)) = Len(s) + 1
  BY <1>2, HeldAre
<1>6. \A i \in 1 .. Len(s) + 1 : Held(d, u)[i] = v[i]
  BY <1>2, <1>3, <1>4, HeldAre
<1>7. Held(d, u) = v
  BY <1>3, <1>5, <1>6, SeqEqual
<1> QED
  BY <1>1, <1>7 DEF u, v

\* Two sequences of nodes, one after the other.
LEMMA HeldConcat ==
  ASSUME NEW d \in Deques, NEW s \in Seq(Nodes), NEW t \in Seq(Nodes)
  PROVE  Held(d, s \o t) = Held(d, s) \o Held(d, t)
<1> DEFINE u == s \o t
           v == Held(d, s) \o Held(d, t)
<1>1. /\ u \in Seq(Nodes) /\ Len(u) = Len(s) + Len(t) /\ \A i \in 1 .. Len(s) : u[i] = s[i]
      /\ \A i \in 1 .. Len(t) : u[Len(s) + i] = t[i]
  OBVIOUS
<1>2. /\ v \in Seq(Elements) /\ Len(v) = Len(s) + Len(t)
      /\ \A i \in 1 .. Len(s) : v[i] = Held(d, s)[i]
      /\ \A i \in 1 .. Len(t) : v[Len(s) + i] = Held(d, t)[i]
  <2> DEFINE a == Held(d, s)
             b == Held(d, t)
  <2>1. a \in Seq(Elements) /\ b \in Seq(Elements) /\ Len(a) = Len(s) /\ Len(b) = Len(t)
    BY HeldAre
  <2>2. v = a \o b
    OBVIOUS
  <2> HIDE DEF a, b, v
  <2>3. /\ v \in Seq(Elements) /\ Len(v) = Len(a) + Len(b)
        /\ \A i \in 1 .. Len(a) : v[i] = a[i]
        /\ \A i \in 1 .. Len(b) : v[Len(a) + i] = b[i]
    <3>1. a \in Seq(Elements) /\ b \in Seq(Elements)
      BY <2>1
    <3> QED
      BY <3>1, <2>2, SMT
  <2> QED
    BY <2>1, <2>2, <2>3, Zenon DEF a, b
<1> HIDE DEF u, v
<1>3. Held(d, u) \in Seq(Elements) /\ Len(Held(d, u)) = Len(s) + Len(t)
  BY <1>1, HeldAre
<1>4. ASSUME NEW i \in 1 .. Len(s) + Len(t) PROVE Held(d, u)[i] = v[i]
  <2>1. Held(d, u)[i] = d.holds[u[i]]
    BY <1>1, HeldAre
  <2>2. CASE i \in 1 .. Len(s)
    BY <2>1, <2>2, <1>1, <1>2, HeldAre
  <2>3. CASE i \notin 1 .. Len(s)
    <3>1. i - Len(s) \in 1 .. Len(t) /\ i = Len(s) + (i - Len(s))
      <4>1. Len(s) \in Nat /\ Len(t) \in Nat
        OBVIOUS
      <4> QED
        BY <2>3, <4>1
    <3>2. u[i] = t[i - Len(s)] /\ v[i] = Held(d, t)[i - Len(s)]
      BY <3>1, <1>1, <1>2
    <3> QED
      BY <2>1, <3>1, <3>2, HeldAre
  <2> QED
    BY <2>2, <2>3
<1>5. Held(d, u) = v
  BY <1>2, <1>3, <1>4, SeqEqual
<1> QED
  BY <1>5 DEF u, v

\* One node less.
LEMMA HeldLess ==
  ASSUME NEW d \in Deques, NEW e \in Deques, NEW s \in Seq(Nodes), Apart(s), NEW i \in 1 .. Len(s),
         \A a \in Nodes : a # s[i] => e.holds[a] = d.holds[a]
  PROVE  Held(e, RemoveAt(s, i)) = RemoveAt(Held(d, s), i)
<1> DEFINE u == RemoveAt(s, i)
           w == Held(d, s)
           v == RemoveAt(w, i)
<1>1. /\ u \in Seq(Nodes) /\ Len(u) = Len(s) - 1 /\ s[i] \notin Range(u)
      /\ \A j \in 1 .. Len(s) - 1 : u[j] = IF j < i THEN s[j] ELSE s[j + 1]
  BY RemoveAtIs, WithoutIs
<1>2. /\ w \in Seq(Elements) /\ Len(w) = Len(s)
      /\ \A j \in 1 .. Len(s) : w[j] = d.holds[s[j]]
  BY HeldAre
<1>3. /\ v \in Seq(Elements) /\ Len(v) = Len(s) - 1
      /\ \A j \in 1 .. Len(s) - 1 : v[j] = IF j < i THEN w[j] ELSE w[j + 1]
  <2> HIDE DEF w
  <2>1. i \in 1 .. Len(w)
    BY <1>2
  <2> QED
    BY <1>2, <2>1, RemoveAtIs
<1> HIDE DEF u, v, w
<1>4. Held(e, u) \in Seq(Elements) /\ Len(Held(e, u)) = Len(s) - 1
  BY <1>1, HeldAre
<1>5. ASSUME NEW j \in 1 .. Len(s) - 1 PROVE Held(e, u)[j] = v[j]
  <2>1. Held(e, u)[j] = e.holds[u[j]]
    BY <1>1, HeldAre
  <2>2. u[j] \in Nodes /\ u[j] # s[i]
    BY <1>1, RangeIs
  <2>3. e.holds[u[j]] = d.holds[u[j]]
    BY <2>2
  <2>4. j \in 1 .. Len(s) /\ j + 1 \in 1 .. Len(s)
    OBVIOUS
  <2> QED
    BY <1>1, <1>2, <1>3, <2>1, <2>3, <2>4
<1>6. Held(e, u) = v
  BY <1>3, <1>4, <1>5, SeqEqual
<1> QED
  BY <1>6 DEF u, v, w

\* What is left without the first or the last element.
LEMMA RemoveEnds ==
  ASSUME NEW S, NEW l \in Seq(S), l # <<>>
  PROVE  /\ RemoveAt(l, 1) = Tail(l) /\ RemoveAt(l, Len(l)) = Front(l)
         /\ Head(l) = l[1] /\ Last(l) = l[Len(l)]
<1>1. 1 \in 1 .. Len(l) /\ Len(l) \in 1 .. Len(l)
  OBVIOUS
<1>2. /\ RemoveAt(l, 1) \in Seq(S) /\ Len(RemoveAt(l, 1)) = Len(l) - 1
      /\ \A j \in 1 .. Len(l) - 1 : RemoveAt(l, 1)[j] = l[j + 1]
  BY <1>1, RemoveAtIs
<1>3. /\ RemoveAt(l, Len(l)) \in Seq(S) /\ Len(RemoveAt(l, Len(l))) = Len(l) - 1
      /\ \A j \in 1 .. Len(l) - 1 : RemoveAt(l, Len(l))[j] = l[j]
  BY <1>1, RemoveAtIs
<1>4. Tail(l) \in Seq(S) /\ Len(Tail(l)) = Len(l) - 1 /\ \A j \in 1 .. Len(l) - 1 : Tail(l)[j] = l[j + 1]
  OBVIOUS
<1>5. Front(l) \in Seq(S) /\ Len(Front(l)) = Len(l) - 1 /\ \A j \in 1 .. Len(l) - 1 : Front(l)[j] = l[j]
  <2> DEFINE n == Len(l) - 1
  <2>1. n \in Int /\ 1 \in Int /\ n >= 0
    OBVIOUS
  <2>2. \A i \in 1 .. n : l[i] \in S
    OBVIOUS
  <2>3. Front(l) = SubSeq(l, 1, n)
    BY DEF Front
  <2> HIDE DEF n
  <2>4. /\ SubSeq(l, 1, n) \in Seq(S) /\ Len(SubSeq(l, 1, n)) = IF 1 <= n THEN n - 1 + 1 ELSE 0
        /\ \A i \in 1 .. n - 1 + 1 : SubSeq(l, 1, n)[i] = l[1 + i - 1]
    BY <2>1, <2>2, SubSeqProperties
  <2>5. Len(SubSeq(l, 1, n)) = n /\ \A i \in 1 .. n : SubSeq(l, 1, n)[i] = l[i]
    BY <2>1, <2>4
  <2> QED
    BY <2>3, <2>4, <2>5 DEF n
<1>6. RemoveAt(l, 1) = Tail(l)
  BY <1>2, <1>4, SeqEqual
<1>7. RemoveAt(l, Len(l)) = Front(l)
  BY <1>3, <1>5, SeqEqual
<1> QED
  BY <1>6, <1>7 DEF Last

\* The elements of a list that are in S, each as a sequence.
Pick(S) == [x \in Elements |-> IF x \in S THEN <<x>> ELSE <<>>]

LEMMA PickIs ==
  ASSUME NEW S
  PROVE  /\ Pick(S) \in [Elements -> Seq(Elements)]
         /\ \A l \in Seq(Elements) : List!Chosen(l, S) = FlatMap(Pick(S), l)
<1>1. Pick(S) \in [Elements -> Seq(Elements)]
  BY DEF Pick
<1>2. \A ss : List!FlattenSeq(ss) = FlattenSeq(ss)
  BY Zenon DEF List!FlattenSeq, FlattenSeq
<1>3. ASSUME NEW l \in Seq(Elements) PROVE List!Chosen(l, S) = FlatMap(Pick(S), l)
  <2> DEFINE chosen == [i \in DOMAIN l |-> IF l[i] \in S THEN <<l[i]>> ELSE <<>>]
  <2>1. \A i \in DOMAIN l : l[i] \in Elements
    OBVIOUS
  <2>2. chosen = Images(Pick(S), l)
    BY <2>1 DEF Pick, Images
  <2>3. List!Chosen(l, S) = List!FlattenSeq(chosen)
    BY Zenon DEF List!Chosen
  <2> HIDE DEF chosen
  <2> QED
    BY <1>2, <2>2, <2>3, Zenon DEF FlatMap
<1> QED
  BY <1>1, <1>3

\* FlatMap of two sequences, and of one more element.
Joins(F, S) ==
  /\ \A u \in Seq(S) : \A v \in Seq(S) : FlatMap(F, u \o v) = FlatMap(F, u) \o FlatMap(F, v)
  /\ \A u \in Seq(S) : \A x \in S : FlatMap(F, Append(u, x)) = FlatMap(F, u) \o F[x]

\* It is that of the one and that of the other.
LEMMA FlatMapJoins ==
  ASSUME NEW S, NEW T, NEW F \in [S -> Seq(T)]
  PROVE  Joins(F, S)
<1>1. \A u \in Seq(S) : \A v \in Seq(S) : FlatMap(F, u \o v) = FlatMap(F, u) \o FlatMap(F, v)
  BY FlatMapConcat
<1>2. \A u \in Seq(S) : \A x \in S : FlatMap(F, Append(u, x)) = FlatMap(F, u) \o F[x]
  BY FlatMapAppend
<1> QED
  BY <1>1, <1>2, Zenon DEF Joins

\* What is kept of one more node.
LEMMA KeepMore ==
  ASSUME NEW T, NEW s \in Seq(Nodes), NEW n \in Nodes
  PROVE  /\ FlatMap(Keep(T), s) \in Seq(Nodes)
         /\ FlatMap(Keep(T), Append(s, n)) =
              IF n \in T THEN FlatMap(Keep(T), s) ELSE Append(FlatMap(Keep(T), s), n)
<1>1. Keep(T) \in [Nodes -> Seq(Nodes)] /\ FlatMap(Keep(T), s) \in Seq(Nodes)
  BY KeepIs
<1>2. FlatMap(Keep(T), Append(s, n)) = FlatMap(Keep(T), s) \o Keep(T)[n]
  <2>1. Joins(Keep(T), Nodes)
    BY <1>1, FlatMapJoins
  <2> QED
    BY <2>1, Zenon DEF Joins
<1>3. Keep(T)[n] = IF n \in T THEN <<>> ELSE <<n>>
  BY DEF Keep
<1>4. \A x \in Seq(Nodes) : x \o <<>> = x /\ x \o <<n>> = Append(x, n)
  OBVIOUS
<1> QED
  BY <1>1, <1>2, <1>3, <1>4

\* What is kept of two sequences, one after the other.
LEMMA KeepConcat ==
  ASSUME NEW T
  PROVE  \A u \in Seq(Nodes) : \A v \in Seq(Nodes) :
           FlatMap(Keep(T), u \o v) = FlatMap(Keep(T), u) \o FlatMap(Keep(T), v)
<1> DEFINE F == Keep(T)
<1>1. F \in [Nodes -> Seq(Nodes)]
  BY KeepIs
<1> HIDE DEF F
<1>2. \A u \in Seq(Nodes) : \A v \in Seq(Nodes) : FlatMap(F, u \o v) = FlatMap(F, u) \o FlatMap(F, v)
  <2>1. Joins(F, Nodes)
    BY <1>1, FlatMapJoins
  <2> QED
    BY <2>1, Zenon DEF Joins
<1> QED
  BY <1>2 DEF F

\* The elements of a list in S are what the nodes that hold one hold.
LEMMA ChosenIs ==
  ASSUME NEW d \in Deques, NEW S, NEW T, \A n \in Nodes : n \in T <=> d.holds[n] \notin S
  PROVE  \A s \in Seq(Nodes) : List!Chosen(Held(d, s), S) = Held(d, FlatMap(Keep(T), s))
<1> DEFINE L == {s \in Seq(Nodes) : FlatMap(Pick(S), Held(d, s)) = Held(d, FlatMap(Keep(T), s))}
<1>0. Pick(S) \in [Elements -> Seq(Elements)]
  BY PickIs
<1>1. <<>> \in L
  <2>1. Held(d, <<>>) = <<>>
    BY EmptySeq, HeldAre
  <2>2. FlatMap(Pick(S), <<>>) = <<>>
    BY <1>0, FlatMapAppend
  <2>3. FlatMap(Keep(T), <<>>) = <<>>
    BY KeepIs
  <2> QED
    BY <2>1, <2>2, <2>3, EmptySeq
<1>2. ASSUME NEW s \in Seq(Nodes), NEW n \in Nodes, s \in L PROVE Append(s, n) \in L
  <2> DEFINE t == FlatMap(Keep(T), s)
             h == d.holds[n]
  <2>1. Append(s, n) \in Seq(Nodes)
    OBVIOUS
  <2>2. Held(d, Append(s, n)) = Append(Held(d, s), h) /\ h \in Elements /\ Held(d, s) \in Seq(Elements)
    BY HeldMore, HeldAre
  <2>3. FlatMap(Pick(S), Append(Held(d, s), h)) = FlatMap(Pick(S), Held(d, s)) \o Pick(S)[h]
    <3> DEFINE F == Pick(S)
               l == Held(d, s)
    <3>1. F \in [Elements -> Seq(Elements)] /\ l \in Seq(Elements) /\ h \in Elements
      BY <1>0, <2>2
    <3> HIDE DEF F, l, h
    <3>2. FlatMap(F, Append(l, h)) = FlatMap(F, l) \o F[h]
      <4>1. Joins(F, Elements)
        BY <3>1, FlatMapJoins
      <4> QED
        BY <3>1, <4>1, Zenon DEF Joins
    <3> QED
      BY <3>2 DEF F, l
  <2>4. Pick(S)[h] = IF n \in T THEN <<>> ELSE <<h>>
    BY <2>2 DEF Pick
  <2>5. t \in Seq(Nodes) /\ FlatMap(Keep(T), Append(s, n)) = IF n \in T THEN t ELSE Append(t, n)
    BY KeepMore
  <2>6. Held(d, Append(t, n)) = Append(Held(d, t), h) /\ Held(d, t) \in Seq(Elements)
    BY <2>5, HeldMore, HeldAre
  <2>7. FlatMap(Pick(S), Held(d, s)) = Held(d, t)
    BY <1>2
  <2> HIDE DEF t, h
  <2>8. \A x \in Seq(Elements) : x \o <<>> = x /\ x \o <<h>> = Append(x, h)
    BY <2>2
  <2>9. FlatMap(Pick(S), Held(d, Append(s, n))) = IF n \in T THEN Held(d, t) ELSE Append(Held(d, t), h)
    BY <2>2, <2>3, <2>4, <2>6, <2>7, <2>8
  <2> QED
    BY <2>1, <2>5, <2>6, <2>9
<1> HIDE DEF L
<1>3. Seq(Nodes) \subseteq L
  BY <1>1, <1>2, SeqInduction
<1>4. ASSUME NEW s \in Seq(Nodes) PROVE List!Chosen(Held(d, s), S) = Held(d, FlatMap(Keep(T), s))
  <2>1. s \in L
    BY <1>3
  <2>2. Held(d, s) \in Seq(Elements)
    BY HeldAre
  <2> QED
    BY <2>1, <2>2, PickIs DEF L
<1> QED
  BY <1>4

\* What is kept depends only on which nodes of the list are in the set.
LEMMA KeepSame ==
  ASSUME NEW s \in Seq(Nodes), NEW S, NEW T, \A a \in Range(s) : a \in S <=> a \in T
  PROVE  FlatMap(Keep(S), s) = FlatMap(Keep(T), s)
<1>1. \A i \in DOMAIN s : s[i] \in Nodes /\ s[i] \in Range(s)
  BY RangeIs
<1>2. [i \in DOMAIN s |-> Keep(S)[s[i]]] = [i \in DOMAIN s |-> Keep(T)[s[i]]]
  BY <1>1 DEF Keep
<1> QED
  BY <1>2, Zenon DEF FlatMap, Images

\* What is kept and what is not, together, is as long as the list.
LEMMA KeepCounts ==
  ASSUME NEW S
  PROVE  \A s \in Seq(Nodes) :
           Len(FlatMap(Keep(S), s)) + Len(FlatMap(Keep(Nodes \ S), s)) = Len(s)
<1> DEFINE kept(s) == FlatMap(Keep(S), s)
           gone(s) == FlatMap(Keep(Nodes \ S), s)
           L == {s \in Seq(Nodes) : Len(kept(s)) + Len(gone(s)) = Len(s)}
<1>0. kept(<<>>) = <<>> /\ gone(<<>>) = <<>>
  BY KeepIs
<1>1. ASSUME NEW s \in Seq(Nodes), NEW n \in Nodes
      PROVE  /\ kept(s) \in Seq(Nodes) /\ gone(s) \in Seq(Nodes)
             /\ kept(Append(s, n)) = IF n \in S THEN kept(s) ELSE Append(kept(s), n)
             /\ gone(Append(s, n)) = IF n \in S THEN Append(gone(s), n) ELSE gone(s)
  <2>1. n \in Nodes \ S <=> n \notin S
    OBVIOUS
  <2> QED
    BY <2>1, KeepMore
<1> HIDE DEF kept, gone
<1>2. <<>> \in L
  BY <1>0
<1>3. ASSUME NEW s \in Seq(Nodes), NEW n \in Nodes, s \in L PROVE Append(s, n) \in L
  <2> DEFINE k == kept(s)
             g == gone(s)
             k2 == kept(Append(s, n))
             g2 == gone(Append(s, n))
  <2>1. /\ k \in Seq(Nodes) /\ g \in Seq(Nodes) /\ k2 = (IF n \in S THEN k ELSE Append(k, n))
        /\ g2 = (IF n \in S THEN Append(g, n) ELSE g)
    BY <1>1
  <2>2. Len(k) + Len(g) = Len(s)
    BY <1>3
  <2> HIDE DEF k, g, k2, g2
  <2>3. \A x \in Seq(Nodes) : Len(x) \in Nat /\ Len(Append(x, n)) = Len(x) + 1
    OBVIOUS
  <2>4. Append(s, n) \in Seq(Nodes) /\ Len(Append(s, n)) = Len(s) + 1
    OBVIOUS
  <2>5. Len(k2) + Len(g2) = Len(Append(s, n))
    <3>1. Len(k) \in Nat /\ Len(g) \in Nat /\ Len(Append(k, n)) = Len(k) + 1 /\ Len(Append(g, n)) = Len(g) + 1
      BY <2>1, <2>3
    <3>2. n \in S => k2 = k /\ g2 = Append(g, n)
      BY <2>1
    <3>3. n \notin S => k2 = Append(k, n) /\ g2 = g
      BY <2>1
    <3>4. CASE n \in S
      BY <3>1, <3>2, <3>4, <2>2, <2>4
    <3>5. CASE n \notin S
      BY <3>1, <3>3, <3>5, <2>2, <2>4
    <3> QED
      BY <3>4, <3>5
  <2> QED
    BY <2>4, <2>5 DEF k2, g2
<1> HIDE DEF L
<1>4. Seq(Nodes) \subseteq L
  BY <1>2, <1>3, SeqInduction
<1> QED
  BY <1>4 DEF L, kept, gone

\* All of the list is kept, or nothing of it.
LEMMA KeepAll ==
  ASSUME NEW T
  PROVE  \A s \in Seq(Nodes) : /\ Range(s) \cap T = {} => FlatMap(Keep(T), s) = s
                               /\ Range(s) \subseteq T => FlatMap(Keep(T), s) = <<>>
<1> DEFINE L == {s \in Seq(Nodes) : /\ Range(s) \cap T = {} => FlatMap(Keep(T), s) = s
                                    /\ Range(s) \subseteq T => FlatMap(Keep(T), s) = <<>>}
<1>1. <<>> \in L
  BY KeepIs, EmptySeq
<1>2. ASSUME NEW s \in Seq(Nodes), NEW n \in Nodes, s \in L PROVE Append(s, n) \in L
  <2>1. Append(s, n) \in Seq(Nodes) /\ Range(Append(s, n)) = Range(s) \union {n}
    BY OneMore
  <2>2. FlatMap(Keep(T), Append(s, n)) =
          IF n \in T THEN FlatMap(Keep(T), s) ELSE Append(FlatMap(Keep(T), s), n)
    BY KeepMore
  <2>3. /\ Range(s) \cap T = {} => FlatMap(Keep(T), s) = s
        /\ Range(s) \subseteq T => FlatMap(Keep(T), s) = <<>>
    BY <1>2
  <2>4. Range(Append(s, n)) \cap T = {} => FlatMap(Keep(T), Append(s, n)) = Append(s, n)
    BY <2>1, <2>2, <2>3
  <2>5. Range(Append(s, n)) \subseteq T => FlatMap(Keep(T), Append(s, n)) = <<>>
    BY <2>1, <2>2, <2>3
  <2> QED
    BY <2>1, <2>4, <2>5
<1> HIDE DEF L
<1>3. Seq(Nodes) \subseteq L
  BY <1>1, <1>2, SeqInduction
<1> QED
  BY <1>3 DEF L

\* The first node that is kept.
LEMMA KeepFirst ==
  ASSUME NEW T, NEW s \in Seq(Nodes), NEW j \in 1 .. Len(s), s[j] \notin T,
         \A i \in 1 .. j - 1 : s[i] \in T
  PROVE  FlatMap(Keep(T), s) # <<>> /\ FlatMap(Keep(T), s)[1] = s[j]
<1> DEFINE a == SubSeq(s, 1, j - 1)
           b == SubSeq(s, j, Len(s))
           f == FlatMap(Keep(T), Tail(b))
<1>1. /\ a \in Seq(Nodes) /\ b \in Seq(Nodes) /\ Len(a) = j - 1 /\ Len(b) = Len(s) - j + 1
      /\ (\A i \in 1 .. j - 1 : a[i] = s[i]) /\ b # <<>> /\ Head(b) = s[j] /\ Tail(b) \in Seq(Nodes)
  <2>1. Len(s) \in Nat /\ j \in Int /\ 1 <= j /\ j <= Len(s)
    OBVIOUS
  <2>2. a \in Seq(Nodes) /\ Len(a) = j - 1 /\ \A i \in 1 .. j - 1 : a[i] = s[i]
    BY <2>1
  <2>3. b \in Seq(Nodes) /\ Len(b) = Len(s) - j + 1
    BY <2>1
  <2>4. Head(b) = s[j]
    BY <2>1, HeadTailOfSubSeq
  <2> HIDE DEF b
  <2>5. b # <<>> /\ Tail(b) \in Seq(Nodes)
    BY <2>1, <2>3
  <2> QED
    BY <2>2, <2>3, <2>4, <2>5
<1>2. s = a \o b
  OBVIOUS
<1> HIDE DEF a, b
<1>3. Range(a) \subseteq T
  BY <1>1, RangeIs
<1>4. FlatMap(Keep(T), a) = <<>>
  BY <1>1, <1>3, KeepAll
<1>5. FlatMap(Keep(T), s) = FlatMap(Keep(T), a) \o FlatMap(Keep(T), b)
  <2>1. Keep(T) \in [Nodes -> Seq(Nodes)]
    BY KeepIs
  <2>2. \A u \in Seq(Nodes) : \A v \in Seq(Nodes) :
          FlatMap(Keep(T), u \o v) = FlatMap(Keep(T), u) \o FlatMap(Keep(T), v)
    BY <2>1, KeepConcat
  <2> QED
    BY <1>1, <1>2, <2>2
<1>6. FlatMap(Keep(T), b) = Keep(T)[s[j]] \o f /\ f \in Seq(Nodes) /\ FlatMap(Keep(T), b) \in Seq(Nodes)
  BY <1>1, KeepIs
<1>7. Keep(T)[s[j]] = <<s[j]>> /\ s[j] \in Nodes
  BY DEF Keep
<1> HIDE DEF f
<1>8. \A x \in Seq(Nodes) : <<>> \o x = x
  OBVIOUS
<1>9. FlatMap(Keep(T), s) = <<s[j]>> \o f
  BY <1>4, <1>5, <1>6, <1>7, <1>8
<1>10. \A x \in Seq(Nodes), n \in Nodes : <<n>> \o x # <<>> /\ (<<n>> \o x)[1] = n
  OBVIOUS
<1> QED
  BY <1>6, <1>7, <1>9, <1>10

\* Where the loop of deque_find is after n rounds, when it looks for a node that is not in T.
Finding(s, T, n, a) ==
  \E j \in 1 .. Len(s) + 1 :
    /\ a = IF j = Len(s) + 1 THEN NULL ELSE s[j]
    /\ \A i \in 1 .. j - 1 : s[i] \in T
    /\ j <= Len(s) /\ s[j] \in T => n < j

\* One more round.
LEMMA FindRound ==
  ASSUME NEW d \in Deques, NEW s, Chain(d, s), NEW T, NEW n \in Nat, NEW a, Finding(s, T, n, a)
  PROVE  Finding(s, T, n + 1, IF a = NULL \/ a \notin T THEN a ELSE DequeNext(d, a))
<1> DEFINE b == IF a = NULL \/ a \notin T THEN a ELSE DequeNext(d, a)
<1>1. s \in Seq(Nodes) /\ Len(s) \in Nat /\ \A i \in 1 .. Len(s) : s[i] # NULL /\ Stop(s, i) = s[i]
  BY NodesApart, StopIs DEF Chain
<1>2. PICK j \in 1 .. Len(s) + 1 :
        /\ a = IF j = Len(s) + 1 THEN NULL ELSE s[j]
        /\ \A i \in 1 .. j - 1 : s[i] \in T
        /\ j <= Len(s) /\ s[j] \in T => n < j
  BY DEF Finding
<1>3. CASE j = Len(s) + 1
  <2>1. b = a /\ ~(j <= Len(s))
    BY <1>1, <1>2, <1>3
  <2> HIDE DEF b
  <2>2. Finding(s, T, n + 1, b)
    BY <1>2, <2>1 DEF Finding
  <2> QED
    BY <2>2 DEF b
<1>4. CASE j # Len(s) + 1 /\ s[j] \notin T
  <2>1. b = a
    BY <1>2, <1>4
  <2> HIDE DEF b
  <2>2. Finding(s, T, n + 1, b)
    BY <1>2, <1>4, <2>1 DEF Finding
  <2> QED
    BY <2>2 DEF b
<1>5. CASE j # Len(s) + 1 /\ s[j] \in T
  <2>1. j \in 1 .. Len(s) /\ j \in 0 .. Len(s) /\ j + 1 \in 1 .. Len(s) + 1
    BY <1>1, <1>5
  <2>2. a = Stop(s, j) /\ a # NULL /\ a \in T
    BY <1>1, <1>2, <1>5, <2>1
  <2>3. b = IF j = Len(s) THEN NULL ELSE s[j + 1]
    BY <2>1, <2>2, NextIs
  <2> HIDE DEF b
  <2>4. \A i \in 1 .. j + 1 - 1 : s[i] \in T
    <3>1. \A i \in 1 .. j + 1 - 1 : i \in 1 .. j - 1 \/ i = j
      BY <2>1
    <3> QED
      BY <1>2, <1>5, <3>1
  <2>5. n + 1 < j + 1
    BY <1>2, <1>5, <2>1
  <2>6. b = IF j + 1 = Len(s) + 1 THEN NULL ELSE s[j + 1]
    BY <1>1, <2>1, <2>3
  <2>7. Finding(s, T, n + 1, b)
    BY <2>1, <2>4, <2>5, <2>6 DEF Finding
  <2> QED
    BY <2>7 DEF b
<1> QED
  BY <1>3, <1>4, <1>5

\* What it has found when the loop ends.
LEMMA FindEnd ==
  ASSUME NEW s \in Seq(Nodes), NEW T, NEW n \in Nat, Len(s) <= n, NEW a, Finding(s, T, n, a)
  PROVE  a = FirstOf(FlatMap(Keep(T), s))
<1>1. PICK j \in 1 .. Len(s) + 1 :
        /\ a = IF j = Len(s) + 1 THEN NULL ELSE s[j]
        /\ \A i \in 1 .. j - 1 : s[i] \in T
        /\ j <= Len(s) /\ s[j] \in T => n < j
  BY DEF Finding
<1>2. CASE j = Len(s) + 1
  <2>1. \A i \in 1 .. Len(s) : s[i] \in T
    BY <1>1, <1>2
  <2>2. Range(s) \subseteq T
    BY <2>1, RangeIs
  <2> QED
    BY <1>1, <1>2, <2>2, KeepAll DEF FirstOf
<1>3. CASE j # Len(s) + 1
  <2>1. j \in 1 .. Len(s)
    BY <1>3
  <2>2. s[j] \notin T
    BY <1>1, <2>1
  <2>3. FlatMap(Keep(T), s) # <<>> /\ FlatMap(Keep(T), s)[1] = s[j]
    BY <1>1, <2>1, <2>2, KeepFirst
  <2> QED
    BY <1>1, <1>3, <2>3 DEF FirstOf
<1> QED
  BY <1>2, <1>3

\* deque_find: the first node with the tag.
LEMMA FindIs ==
  ASSUME NEW d \in Deques, NEW s, Chain(d, s), NEW tag, NEW T,
         \A n \in Nodes : n \in T <=> d.holds[n].tag # tag \/ tag = NoTag
  PROVE  Find(d, tag) = FirstOf(FlatMap(Keep(T), s))
<1>1. s \in Seq(Nodes) /\ Apart(s) /\ Len(s) \in Nat /\ Range(s) \subseteq Nodes
  BY RangeIs DEF Chain
<1>2. CASE tag = NoTag
  <2>1. Range(s) \subseteq T
    BY <1>1, <1>2
  <2>2. FlatMap(Keep(T), s) = <<>>
    BY <1>1, <2>1, KeepAll
  <2> QED
    BY <1>2, <2>2 DEF Find, FirstOf
<1>3. CASE tag # NoTag
  <2> DEFINE body == [n \in Pointers |-> IF n = NULL \/ d.holds[n].tag = tag THEN n ELSE DequeNext(d, n)]
             x == DequeNext(d, Start)
             I == [n \in Nat |-> {a \in Pointers : Finding(s, T, n, a)}]
  <2>1. \A j \in 0 .. Len(s) : Stop(s, j) \in Addresses /\
          DequeNext(d, Stop(s, j)) = IF j = Len(s) THEN NULL ELSE s[j + 1]
    BY <1>1, NextIs, StopIs
  <2>2. \A i \in 1 .. Len(s) : s[i] \in Nodes /\ s[i] \in Pointers /\ s[i] # NULL
    BY <1>1, NodesApart DEF Pointers, Addresses
  <2>3. NULL \in Pointers
    BY DEF Pointers
  <2>4. x \in I[0]
    <3>1. Stop(s, 0) = Start /\ 0 \in 0 .. Len(s)
      BY <1>1, StopIs
    <3>2. x = IF 0 = Len(s) THEN NULL ELSE s[0 + 1]
      BY <2>1, <3>1
    <3> HIDE DEF x
    <3>3. x = IF 1 = Len(s) + 1 THEN NULL ELSE s[1]
      BY <1>1, <3>2
    <3>4. x \in Pointers
      <4>1. Len(s) # 0 => 1 \in 1 .. Len(s)
        BY <1>1
      <4> QED
        BY <2>2, <2>3, <3>2, <4>1
    <3>5. 1 \in 1 .. Len(s) + 1 /\ (\A i \in 1 .. 1 - 1 : s[i] \in T) /\ 0 < 1
      BY <1>1
    <3>6. Finding(s, T, 0, x)
      BY <3>3, <3>5 DEF Finding
    <3> QED
      BY <3>4, <3>6
  <2>5. ASSUME NEW n \in Nat, NEW a \in I[n] PROVE body[a] \in I[n + 1]
    <3>1. a \in Pointers /\ Finding(s, T, n, a)
      OBVIOUS
    <3>2. a = NULL \/ \E j \in 1 .. Len(s) : a = s[j]
      <4>1. PICK j \in 1 .. Len(s) + 1 : a = IF j = Len(s) + 1 THEN NULL ELSE s[j]
        BY <3>1 DEF Finding
      <4>2. j # Len(s) + 1 => j \in 1 .. Len(s)
        BY <1>1
      <4> QED
        BY <4>1, <4>2
    <3>3. body[a] = IF a = NULL \/ a \notin T THEN a ELSE DequeNext(d, a)
      <4>1. a # NULL => a \in Nodes
        BY <2>2, <3>2
      <4>2. a # NULL => (a \notin T <=> d.holds[a].tag = tag)
        BY <1>3, <4>1
      <4> QED
        BY <3>1, <4>2
    <3>4. body[a] \in Pointers
      <4>1. CASE a = NULL
        BY <3>1, <3>3, <4>1
      <4>2. CASE a # NULL
        <5>1. PICK j \in 1 .. Len(s) : a = s[j]
          BY <3>2, <4>2
        <5>2. j \in 0 .. Len(s) /\ (j # Len(s) => j + 1 \in 1 .. Len(s))
          BY <1>1
        <5>3. a = Stop(s, j)
          BY <1>1, <5>1, StopIs
        <5>4. DequeNext(d, a) \in Pointers
          BY <2>1, <2>2, <2>3, <5>2, <5>3
        <5> QED
          BY <3>1, <3>3, <5>4
      <4> QED
        BY <4>1, <4>2
    <3>5. Finding(s, T, n + 1, body[a])
      BY <3>1, <3>3, FindRound
    <3> QED
      BY <3>4, <3>5
  <2>6. Find(d, tag) = Iterate(body, x, Rounds)
    BY <1>3, Zenon DEF Find
  <2> DEFINE J(n) == {a \in Pointers : Finding(s, T, n, a)}
  <2>7. \A n \in Nat : I[n] = J(n)
    OBVIOUS
  <2> HIDE DEF body, x, I
  <2>8. Leads(body, I)
    BY <2>5 DEF Leads
  <2>9. Rounds \in Nat /\ Len(s) <= Rounds
    BY <1>1, SizeIs
  <2>10. Iterate(body, x, Rounds) \in I[Rounds]
    BY <2>4, <2>8, <2>9, IterateIn
  <2>11. Finding(s, T, Rounds, Find(d, tag))
    BY <2>6, <2>7, <2>9, <2>10
  <2> QED
    BY <1>1, <2>9, <2>11, FindEnd
<1> QED
  BY <1>2, <1>3

-----------------------------------------------------------------------------
(* The list that sorting makes. *)

\* Where all of one sequence is before all of another, they are in order together.
LEMMA OrderConcat ==
  ASSUME NEW d, NEW pos, NEW a \in Seq(Nodes), NEW b \in Seq(Nodes),
         InOrder(d, pos, a), InOrder(d, pos, b),
         \A x \in Range(a) : \A y \in Range(b) : Precedes(d, pos, x, y)
  PROVE  InOrder(d, pos, a \o b)
<1> DEFINE c == a \o b
<1>1. /\ c \in Seq(Nodes) /\ Len(c) = Len(a) + Len(b) /\ \A i \in 1 .. Len(a) : c[i] = a[i]
      /\ \A i \in 1 .. Len(b) : c[Len(a) + i] = b[i]
  OBVIOUS
<1>2. Len(a) \in Nat /\ Len(b) \in Nat
  OBVIOUS
<1> HIDE DEF c
<1>3. ASSUME NEW i \in 1 .. Len(c) PROVE
        \/ i \in 1 .. Len(a) /\ c[i] = a[i] /\ c[i] \in Range(a)
        \/ i - Len(a) \in 1 .. Len(b) /\ c[i] = b[i - Len(a)] /\ c[i] \in Range(b) /\ i > Len(a)
  <2>1. CASE i <= Len(a)
    BY <1>1, <1>2, <2>1, RangeIs
  <2>2. CASE i > Len(a)
    <3>1. i - Len(a) \in 1 .. Len(b) /\ i = Len(a) + (i - Len(a))
      BY <1>1, <1>2, <2>2
    <3>2. c[i] = b[i - Len(a)]
      BY <1>1, <3>1
    <3> QED
      BY <2>2, <3>1, <3>2, RangeIs
  <2> QED
    BY <1>2, <2>1, <2>2
<1>4. ASSUME NEW i \in 1 .. Len(c), NEW j \in 1 .. Len(c), i < j PROVE Precedes(d, pos, c[i], c[j])
  <2>1. CASE i \in 1 .. Len(a) /\ j \in 1 .. Len(a)
    BY <1>1, <1>4, <2>1 DEF InOrder
  <2>2. CASE i \in 1 .. Len(a) /\ j \notin 1 .. Len(a)
    <3>1. c[i] \in Range(a) /\ c[j] \in Range(b)
      BY <1>2, <1>3, <2>2
    <3> QED
      BY <3>1
  <2>3. CASE i \notin 1 .. Len(a)
    <3>1. j \notin 1 .. Len(a)
      BY <1>2, <1>4, <2>3
    <3>2. /\ i - Len(a) \in 1 .. Len(b) /\ c[i] = b[i - Len(a)]
          /\ j - Len(a) \in 1 .. Len(b) /\ c[j] = b[j - Len(a)]
      BY <1>3, <2>3, <3>1
    <3>3. i - Len(a) < j - Len(a)
      BY <1>2, <1>4
    <3> QED
      BY <3>2, <3>3 DEF InOrder
  <2> QED
    BY <2>1, <2>2, <2>3
<1>5. InOrder(d, pos, c)
  BY <1>4 DEF InOrder
<1> QED
  BY <1>5 DEF c

\* No node precedes itself or one that precedes it.
LEMMA PrecedesOnce ==
  ASSUME NEW d \in Deques, NEW pos \in [Nodes -> Nat], NEW a \in Nodes, NEW b \in Nodes,
         Precedes(d, pos, a, b), Precedes(d, pos, b, a)
  PROVE  FALSE
<1>1. RankAt(d, a) \in Nat /\ RankAt(d, b) \in Nat /\ pos[a] \in Nat /\ pos[b] \in Nat
  BY RankOfNode
<1> QED
  BY <1>1 DEF Precedes

\* A node that is the i-th in order, where another sequence agrees with this one before.
LEMMA OrderNext ==
  ASSUME NEW t \in Seq(Nodes), NEW u \in Seq(Nodes), Apart(t), Range(t) \subseteq Range(u),
         NEW i \in 1 .. Len(t), \A j \in 1 .. i - 1 : t[j] = u[j]
  PROVE  \E j \in 1 .. Len(u) : j >= i /\ t[i] = u[j]
<1>0. t[i] \in Range(t)
  BY RangeIs
<1>1. PICK j \in 1 .. Len(u) : t[i] = u[j]
  <2>1. t[i] \in Range(u)
    BY <1>0
  <2> QED
    BY <2>1, RangeIs
<1>2. j >= i
  <2>1. SUFFICES ASSUME j < i PROVE FALSE
    OBVIOUS
  <2>2. j \in 1 .. i - 1 /\ j \in DOMAIN t /\ i \in DOMAIN t
    BY <2>1
  <2>3. t[j] = t[i]
    BY <1>1, <2>2
  <2> QED
    BY <2>1, <2>2, <2>3 DEF Apart
<1> QED
  BY <1>1, <1>2

\* There is one order of the same nodes.
LEMMA OrderOnce ==
  ASSUME NEW d \in Deques, NEW pos \in [Nodes -> Nat], NEW t \in Seq(Nodes), NEW u \in Seq(Nodes),
         Apart(t), Apart(u), Range(t) = Range(u), InOrder(d, pos, t), InOrder(d, pos, u)
  PROVE  t = u
<1>1. Len(t) = Len(u)
  <2>1. Cardinality(Range(t)) = Len(t) /\ Cardinality(Range(u)) = Len(u)
    BY SizeIs
  <2> QED
    BY <2>1
<1> DEFINE L == {n \in Nat : \A i \in 1 .. Len(t) : i <= n => t[i] = u[i]}
<1>2. 0 \in L
  OBVIOUS
<1>3. ASSUME NEW n \in Nat, n \in L PROVE n + 1 \in L
  <2>1. \A i \in 1 .. Len(t) : i <= n => t[i] = u[i]
    BY <1>3
  <2>2. ASSUME n + 1 \in 1 .. Len(t) PROVE t[n + 1] = u[n + 1]
    <3> DEFINE m == n + 1
    <3>1. m \in 1 .. Len(t) /\ m \in 1 .. Len(u) /\ \A j \in 1 .. m - 1 : t[j] = u[j] /\ u[j] = t[j]
      BY <1>1, <2>1, <2>2
    <3> HIDE DEF m
    <3>2. PICK j \in 1 .. Len(u) : j >= m /\ t[m] = u[j]
      BY <3>1, OrderNext
    <3>3. PICK k \in 1 .. Len(t) : k >= m /\ u[m] = t[k]
      BY <3>1, OrderNext
    <3>4. CASE j = m
      BY <3>2, <3>4 DEF m
    <3>5. CASE k = m
      BY <3>3, <3>5 DEF m
    <3>6. CASE j # m /\ k # m
      <4>1. m < j /\ m < k
        BY <3>1, <3>2, <3>3, <3>6
      <4>2. Precedes(d, pos, u[m], u[j]) /\ Precedes(d, pos, t[m], t[k])
        BY <3>1, <4>1 DEF InOrder
      <4>3. t[m] \in Nodes /\ u[m] \in Nodes
        BY <3>1
      <4>4. Precedes(d, pos, u[m], t[m]) /\ Precedes(d, pos, t[m], u[m])
        BY <3>2, <3>3, <4>2
      <4> QED
        BY <4>3, <4>4, PrecedesOnce
    <3> QED
      BY <3>4, <3>5, <3>6
  <2>3. \A i \in 1 .. Len(t) : i <= n + 1 => i <= n \/ i = n + 1
    OBVIOUS
  <2>4. \A i \in 1 .. Len(t) : i <= n + 1 => t[i] = u[i]
    BY <2>1, <2>2, <2>3
  <2> QED
    BY <2>4
<1> HIDE DEF L
<1>4. Nat \subseteq L
  BY <1>2, <1>3, SetInduction
<1>5. Len(t) \in L
  BY <1>4
<1>6. \A i \in 1 .. Len(t) : t[i] = u[i]
  BY <1>5 DEF L
<1> QED
  BY <1>1, <1>6, SeqEqual

\* What is kept is in the order of the list, and each node of the list that is not in T.
LEMMA KeepRises ==
  ASSUME NEW T, NEW pos
  PROVE  \A s \in Seq(Nodes) : Rising(pos, s) =>
           /\ Rising(pos, FlatMap(Keep(T), s)) /\ FlatMap(Keep(T), s) \in Seq(Nodes)
           /\ Range(FlatMap(Keep(T), s)) = Range(s) \ T
<1> DEFINE k(s) == FlatMap(Keep(T), s)
           L == {s \in Seq(Nodes) : Rising(pos, s) =>
                   Rising(pos, k(s)) /\ k(s) \in Seq(Nodes) /\ Range(k(s)) = Range(s) \ T}
<1>0. k(<<>>) = <<>>
  BY KeepIs
<1>1. \A s \in Seq(Nodes) : \A n \in Nodes :
        k(s) \in Seq(Nodes) /\ k(Append(s, n)) = IF n \in T THEN k(s) ELSE Append(k(s), n)
  BY KeepMore
<1> HIDE DEF k
<1>2. <<>> \in L
  <2>1. Range(<<>>) = {}
    BY DEF Range
  <2>2. Rising(pos, <<>>) /\ <<>> \in Seq(Nodes)
    BY DEF Rising
  <2> QED
    BY <1>0, <2>1, <2>2
<1>3. ASSUME NEW s \in Seq(Nodes), NEW n \in Nodes, s \in L PROVE Append(s, n) \in L
  <2> DEFINE u == Append(s, n)
  <2>1. /\ u \in Seq(Nodes) /\ Len(u) = Len(s) + 1 /\ u[Len(s) + 1] = n
        /\ (\A i \in 1 .. Len(s) : u[i] = s[i]) /\ Range(u) = Range(s) \union {n}
    BY OneMore
  <2>2. k(s) \in Seq(Nodes) /\ k(u) = IF n \in T THEN k(s) ELSE Append(k(s), n)
    BY <1>1
  <2> HIDE DEF u
  <2>3. SUFFICES ASSUME Rising(pos, u)
                 PROVE  Rising(pos, k(u)) /\ k(u) \in Seq(Nodes) /\ Range(k(u)) = Range(u) \ T
    BY <2>1 DEF u
  <2>4. Len(s) \in Nat
    OBVIOUS
  <2>5. Rising(pos, s)
    BY <2>1, <2>3, <2>4 DEF Rising
  <2>6. Rising(pos, k(s)) /\ Range(k(s)) = Range(s) \ T
    BY <1>3, <2>5
  <2>7. CASE n \in T
    BY <2>1, <2>2, <2>6, <2>7
  <2>8. CASE n \notin T
    <3> DEFINE m == k(s)
               w == Append(m, n)
    <3>1. /\ w \in Seq(Nodes) /\ Len(w) = Len(m) + 1 /\ w[Len(m) + 1] = n
          /\ (\A i \in 1 .. Len(m) : w[i] = m[i]) /\ Range(w) = Range(m) \union {n}
      BY <2>2, OneMore
    <3>2. \A a \in Range(s) : pos[a] < pos[n]
      <4>1. SUFFICES ASSUME NEW a \in Range(s) PROVE pos[a] < pos[n]
        OBVIOUS
      <4>2. PICK i \in 1 .. Len(s) : a = s[i]
        BY RangeIs
      <4>3. i \in 1 .. Len(u) /\ Len(s) + 1 \in 1 .. Len(u) /\ i < Len(s) + 1
        BY <2>1, <2>4
      <4> QED
        BY <2>1, <2>3, <4>2, <4>3 DEF Rising
    <3>3. \A i \in 1 .. Len(m) : m[i] \in Range(s)
      BY <2>2, <2>6, RangeIs
    <3>4. Len(m) \in Nat /\ m \in Seq(Nodes)
      BY <2>2
    <3>5. Rising(pos, m)
      BY <2>6
    <3>6. Range(m) = Range(s) \ T
      BY <2>6
    <3> HIDE DEF m, w
    <3>7. Rising(pos, w)
      <4>1. SUFFICES ASSUME NEW i \in 1 .. Len(w), NEW j \in 1 .. Len(w), i < j PROVE pos[w[i]] < pos[w[j]]
        BY DEF Rising
      <4>2. i \in 1 .. Len(m) /\ (j \in 1 .. Len(m) \/ j = Len(m) + 1)
        BY <3>1, <3>4, <4>1
      <4>3. w[i] = m[i] /\ m[i] \in Range(s)
        BY <3>1, <3>3, <4>2
      <4>4. CASE j \in 1 .. Len(m)
        BY <3>1, <3>5, <4>1, <4>2, <4>4 DEF Rising
      <4>5. CASE j = Len(m) + 1
        BY <3>1, <3>2, <4>3, <4>5
      <4> QED
        BY <4>2, <4>4, <4>5
    <3>8. k(u) = w
      BY <2>2, <2>8 DEF w, m
    <3>9. Range(w) = Range(u) \ T
      BY <2>1, <2>8, <3>1, <3>6
    <3> QED
      BY <3>1, <3>7, <3>8, <3>9
  <2> QED
    BY <2>7, <2>8
<1> HIDE DEF L
<1>4. Seq(Nodes) \subseteq L
  BY <1>2, <1>3, SeqInduction
<1> QED
  BY <1>4 DEF L, k

\* The nodes of s with rank k, in the order of s, and those with the ranks up to m.
OfRank(d, s, k) == FlatMap(Keep({n \in Nodes : RankAt(d, n) # k}), s)

ByRank(d, s) == [k \in Nat |-> OfRank(d, s, k)]

UpTo(m) == [i \in 1 .. m |-> i]

\* One number more.
LEMMA UpToMore ==
  /\ UpTo(0) = <<>>
  /\ \A m \in Nat : UpTo(m) \in Seq(Nat) /\ UpTo(m + 1) = Append(UpTo(m), m + 1)
<1>1. UpTo(0) = <<>>
  BY DEF UpTo
<1>2. ASSUME NEW m \in Nat PROVE UpTo(m) \in Seq(Nat) /\ UpTo(m + 1) = Append(UpTo(m), m + 1)
  <2>1. /\ UpTo(m) \in Seq(Nat) /\ Len(UpTo(m)) = m /\ \A i \in 1 .. m : UpTo(m)[i] = i
    BY DEF UpTo
  <2>2. /\ UpTo(m + 1) \in Seq(Nat) /\ Len(UpTo(m + 1)) = m + 1 /\ \A i \in 1 .. m + 1 : UpTo(m + 1)[i] = i
    BY DEF UpTo
  <2> DEFINE a == UpTo(m)
             b == UpTo(m + 1)
  <2>3. a \in Seq(Nat) /\ Len(a) = m /\ m + 1 \in Nat
    BY <2>1
  <2> HIDE DEF a, b
  <2>4. /\ Append(a, m + 1) \in Seq(Nat) /\ Len(Append(a, m + 1)) = m + 1
        /\ \A i \in 1 .. m : Append(a, m + 1)[i] = a[i]
        /\ Append(a, m + 1)[m + 1] = m + 1
    BY <2>3
  <2>5. \A i \in 1 .. m + 1 : i \in 1 .. m \/ i = m + 1
    OBVIOUS
  <2>6. \A i \in 1 .. m + 1 : b[i] = Append(a, m + 1)[i]
    BY <2>1, <2>2, <2>4, <2>5 DEF a, b
  <2>7. b \in Seq(Nat) /\ Len(b) = m + 1
    BY <2>2 DEF b
  <2>8. b = Append(a, m + 1)
    BY <2>4, <2>6, <2>7, SeqEqual
  <2> QED
    BY <2>1, <2>8 DEF a, b
<1> QED
  BY <1>1, <1>2

\* Those of one rank are in order.
LEMMA RankOrder ==
  ASSUME NEW d \in Deques, NEW pos, NEW s \in Seq(Nodes), Rising(pos, s), NEW k
  PROVE  LET f == OfRank(d, s, k)
         IN  /\ f \in Seq(Nodes) /\ InOrder(d, pos, f)
             /\ Range(f) = {a \in Range(s) : RankAt(d, a) = k}
<1> DEFINE T == {n \in Nodes : RankAt(d, n) # k}
           f == OfRank(d, s, k)
<1>1. f = FlatMap(Keep(T), s)
  BY Zenon DEF OfRank
<1>2. Rising(pos, f) /\ f \in Seq(Nodes) /\ Range(f) = Range(s) \ T
  <2> HIDE DEF T, f
  <2>1. /\ Rising(pos, FlatMap(Keep(T), s)) /\ FlatMap(Keep(T), s) \in Seq(Nodes)
        /\ Range(FlatMap(Keep(T), s)) = Range(s) \ T
    BY KeepRises, Zenon
  <2> QED
    BY <1>1, <2>1, Zenon
<1>3. Range(s) \subseteq Nodes
  BY RangeIs
<1> HIDE DEF f
<1>4. Range(f) = {a \in Range(s) : RankAt(d, a) = k}
  BY <1>2, <1>3
<1>5. \A i \in 1 .. Len(f) : RankAt(d, f[i]) = k
  BY <1>2, <1>4, RangeIs
<1>6. InOrder(d, pos, f)
  BY <1>2, <1>5 DEF InOrder, Precedes, Rising
<1> QED
  BY <1>2, <1>4, <1>6 DEF f

\* w has the nodes of s with the ranks up to m, in order.
Ranked(d, pos, s, m, w) ==
  /\ w \in Seq(Nodes) /\ InOrder(d, pos, w)
  /\ Range(w) = {a \in Range(s) : RankAt(d, a) \in 1 .. m}

\* Taking the nodes rank by rank gives them.
LEMMA RanksOrder ==
  ASSUME NEW d \in Deques, NEW pos \in [Nodes -> Nat], NEW s \in Seq(Nodes), Rising(pos, s)
  PROVE  \A m \in Nat : Ranked(d, pos, s, m, FlatMap(ByRank(d, s), UpTo(m)))
<1> DEFINE F == ByRank(d, s)
           w == [m \in Nat |-> FlatMap(F, UpTo(m))]
           L == {m \in Nat : Ranked(d, pos, s, m, w[m])}
<1>0. \A k : /\ OfRank(d, s, k) \in Seq(Nodes) /\ InOrder(d, pos, OfRank(d, s, k))
             /\ Range(OfRank(d, s, k)) = {a \in Range(s) : RankAt(d, a) = k}
  BY RankOrder
<1>1. F \in [Nat -> Seq(Nodes)] /\ \A k \in Nat : F[k] = OfRank(d, s, k)
  BY <1>0 DEF ByRank
<1>2. Range(s) \subseteq Nodes
  BY RangeIs
<1> HIDE DEF F
<1>3. w[0] = <<>> /\ \A m \in Nat : w[m + 1] = w[m] \o F[m + 1]
  <2>1. FlatMap(F, <<>>) = <<>>
    BY <1>1, FlatMapAppend
  <2>2. ASSUME NEW m \in Nat PROVE w[m + 1] = w[m] \o F[m + 1]
    <3>1. UpTo(m) \in Seq(Nat) /\ UpTo(m + 1) = Append(UpTo(m), m + 1)
      BY UpToMore, Zenon
    <3>2. m + 1 \in Nat
      OBVIOUS
    <3>3. FlatMap(F, Append(UpTo(m), m + 1)) = FlatMap(F, UpTo(m)) \o F[m + 1]
      <4>1. Joins(F, Nat)
        BY <1>1, FlatMapJoins
      <4> QED
        BY <3>1, <3>2, <4>1, Zenon DEF Joins
    <3>4. w[m + 1] = FlatMap(F, UpTo(m + 1)) /\ w[m] = FlatMap(F, UpTo(m))
      BY <3>2
    <3> HIDE DEF w
    <3> QED
      BY <3>1, <3>3, <3>4, Zenon
  <2> QED
    BY <2>1, <2>2, UpToMore
<1>4. \A m \in Nat : w[m] = FlatMap(ByRank(d, s), UpTo(m))
  BY DEF F
<1> HIDE DEF w
<1>5. 0 \in L
  <2>1. Range(<<>>) = {} /\ InOrder(d, pos, <<>>) /\ <<>> \in Seq(Nodes)
    BY DEF Range, InOrder
  <2>2. {a \in Range(s) : RankAt(d, a) \in 1 .. 0} = {}
    OBVIOUS
  <2>3. Ranked(d, pos, s, 0, w[0])
    BY <1>3, <2>1, <2>2 DEF Ranked
  <2> QED
    BY <2>3
<1>6. ASSUME NEW m \in Nat, m \in L PROVE m + 1 \in L
  <2> DEFINE a == w[m]
             b == OfRank(d, s, m + 1)
  <2>1. /\ a \in Seq(Nodes) /\ InOrder(d, pos, a)
        /\ Range(a) = {x \in Range(s) : RankAt(d, x) \in 1 .. m}
    BY <1>6 DEF Ranked
  <2>2. /\ b \in Seq(Nodes) /\ InOrder(d, pos, b)
        /\ Range(b) = {x \in Range(s) : RankAt(d, x) = m + 1}
    BY <1>0
  <2>3. w[m + 1] = a \o b
    <3>1. m + 1 \in Nat
      OBVIOUS
    <3>2. w[m + 1] = w[m] \o F[m + 1] /\ F[m + 1] = b
      BY <1>1, <1>3, <3>1
    <3> QED
      BY <3>2, Zenon
  <2> HIDE DEF a, b
  <2>4. ASSUME NEW x \in Range(a), NEW y \in Range(b) PROVE Precedes(d, pos, x, y)
    BY <2>1, <2>2 DEF Precedes
  <2>5. InOrder(d, pos, a \o b)
    BY <2>1, <2>2, <2>4, OrderConcat
  <2>6. a \o b \in Seq(Nodes) /\ Range(a \o b) = Range(a) \union Range(b)
    BY <2>1, <2>2, RangeConcatenation
  <2>7. \A x \in Range(s) : RankAt(d, x) \in Nat
    BY <1>2, RankOfNode
  <2>8. \A k \in Nat : k \in 1 .. m + 1 <=> k \in 1 .. m \/ k = m + 1
    OBVIOUS
  <2>9. Range(a \o b) = {x \in Range(s) : RankAt(d, x) \in 1 .. m + 1}
    BY <2>1, <2>2, <2>6, <2>7, <2>8
  <2>10. Ranked(d, pos, s, m + 1, w[m + 1])
    BY <2>3, <2>5, <2>6, <2>9, Zenon DEF Ranked
  <2> QED
    BY <2>10
<1> HIDE DEF L
<1>7. Nat \subseteq L
  BY <1>5, <1>6, SetInduction
<1> QED
  BY <1>4, <1>7 DEF L

\* What is in order has no node twice.
LEMMA OrderApart ==
  ASSUME NEW d \in Deques, NEW pos \in [Nodes -> Nat], NEW t \in Seq(Nodes), InOrder(d, pos, t)
  PROVE  Apart(t)
<1> SUFFICES ASSUME NEW i \in DOMAIN t, NEW j \in DOMAIN t, t[i] = t[j], i # j PROVE FALSE
  BY DEF Apart
<1>1. i \in 1 .. Len(t) /\ j \in 1 .. Len(t) /\ t[i] \in Nodes
  OBVIOUS
<1>2. i < j \/ j < i
  BY <1>1
<1>3. Precedes(d, pos, t[i], t[i])
  BY <1>1, <1>2 DEF InOrder
<1> QED
  BY <1>1, <1>3, PrecedesOnce

\* What is sorted is what comes of taking the nodes rank by rank.
LEMMA SortedByRank ==
  ASSUME NEW d \in Deques, NEW s \in Seq(Nodes), Apart(s), NEW t \in Seq(Nodes), Apart(t),
         Range(t) = Range(s), InOrder(d, PlaceIn(s), t)
  PROVE  t = FlatMap(ByRank(d, s), UpTo(Len(TagOrder)))
<1> DEFINE w == FlatMap(ByRank(d, s), UpTo(Len(TagOrder)))
           pos == PlaceIn(s)
<1>1. pos \in [Nodes -> Nat] /\ Rising(pos, s)
  BY PlacesRise
<1>2. Len(TagOrder) \in Nat /\ DOMAIN TagOrder = 1 .. Len(TagOrder)
  BY TagsAre
<1> HIDE DEF pos
<1>3. /\ w \in Seq(Nodes) /\ InOrder(d, pos, w)
      /\ Range(w) = {a \in Range(s) : RankAt(d, a) \in 1 .. Len(TagOrder)}
  <2>1. Ranked(d, pos, s, Len(TagOrder), w)
    BY <1>1, <1>2, RanksOrder
  <2> QED
    BY <2>1, Zenon DEF Ranked
<1> HIDE DEF w
<1>4. ASSUME NEW a \in Range(s) PROVE RankAt(d, a) \in 1 .. Len(TagOrder)
  <2>1. a \in Nodes
    BY RangeIs
  <2>2. d.holds[a] \in Elements
    BY <2>1 DEF Deques
  <2>3. d.holds[a].tag \in Range(TagOrder)
    BY <2>2 DEF Elements
  <2> QED
    BY <1>2, <2>3, RankIs DEF RankAt
<1>5. Range(w) = Range(t)
  BY <1>3, <1>4
<1>6. Apart(w)
  BY <1>1, <1>3, OrderApart
<1>7. InOrder(d, pos, t)
  BY DEF pos
<1>8. t = w
  BY <1>1, <1>3, <1>5, <1>6, <1>7, OrderOnce
<1> QED
  BY <1>8 DEF w

\* No tag is in the order twice.
LEMMA TagsApart ==
  \A i, j \in DOMAIN TagOrder : TagOrder[i] = TagOrder[j] => i = j
<1>1. SUFFICES ASSUME NEW i \in DOMAIN TagOrder, NEW j \in DOMAIN TagOrder, TagOrder[i] = TagOrder[j]
               PROVE  i = j
  OBVIOUS
<1> DEFINE n == Len(Tags)
<1>2. /\ n \in Nat /\ DOMAIN TagOrder = 1 .. n + 1 /\ TagOrder[n + 1] = NoTag
      /\ (\A k \in 1 .. n : TagOrder[k] = Tags[k]) /\ Tags \in Seq(Range(Tags))
  BY TagsAre
<1>3. \A k \in 1 .. n : Tags[k] \in Range(Tags) /\ k \in DOMAIN Tags
  BY <1>2
<1>4. NoTag \notin Range(Tags) /\ \A a, b \in DOMAIN Tags : Tags[a] = Tags[b] => a = b
  BY DequeAssumption DEF IsInjective
<1> HIDE DEF n
<1>5. (i \in 1 .. n \/ i = n + 1) /\ (j \in 1 .. n \/ j = n + 1)
  BY <1>2
<1>6. CASE i \in 1 .. n /\ j \in 1 .. n
  BY <1>1, <1>2, <1>3, <1>4, <1>6
<1>7. CASE i = n + 1 /\ j \in 1 .. n
  <2>1. Tags[j] = NoTag
    BY <1>1, <1>2, <1>7
  <2> QED
    BY <1>3, <1>4, <1>7, <2>1
<1>8. CASE i \in 1 .. n /\ j = n + 1
  <2>1. Tags[i] = NoTag
    BY <1>1, <1>2, <1>8
  <2> QED
    BY <1>3, <1>4, <1>8, <2>1
<1> QED
  BY <1>5, <1>6, <1>7, <1>8

\* The elements of a list that have one tag.
Tagged(l, k) == List!Chosen(l, {e \in Elements : e.tag = TagOrder[k]})

\* They are what the nodes of one rank hold.
LEMMA TaggedIs ==
  ASSUME NEW d \in Deques, NEW s \in Seq(Nodes)
  PROVE  /\ \A k : Tagged(Held(d, s), k) \in Seq(Elements)
         /\ \A k \in 1 .. Len(TagOrder) : Tagged(Held(d, s), k) = Held(d, OfRank(d, s, k))
<1>1. ASSUME NEW k PROVE Tagged(Held(d, s), k) \in Seq(Elements)
  <2> DEFINE S == {e \in Elements : e.tag = TagOrder[k]}
             l == Held(d, s)
  <2>1. l \in Seq(Elements)
    BY HeldAre
  <2>2. Tagged(l, k) = List!Chosen(l, S)
    BY Zenon DEF Tagged
  <2> HIDE DEF S, l
  <2>3. Pick(S) \in [Elements -> Seq(Elements)] /\ List!Chosen(l, S) = FlatMap(Pick(S), l)
    BY <2>1, PickIs
  <2>4. FlatMap(Pick(S), l) \in Seq(Elements)
    BY <2>1, <2>3, FlatMapType
  <2> QED
    BY <2>2, <2>3, <2>4 DEF l
<1>2. ASSUME NEW k \in 1 .. Len(TagOrder) PROVE Tagged(Held(d, s), k) = Held(d, OfRank(d, s, k))
  <2> DEFINE S == {e \in Elements : e.tag = TagOrder[k]}
             T == {n \in Nodes : RankAt(d, n) # k}
  <2>1. ASSUME NEW n \in Nodes PROVE n \in T <=> d.holds[n] \notin S
    <3> DEFINE tag == d.holds[n].tag
    <3>1. d.holds[n] \in Elements
      BY DEF Deques
    <3>2. tag \in Range(TagOrder)
      BY <3>1 DEF Elements
    <3>3. DOMAIN TagOrder = 1 .. Len(TagOrder)
      BY TagsAre
    <3>4. Rank(tag) \in DOMAIN TagOrder /\ TagOrder[Rank(tag)] = tag
      BY <3>2, RankIs
    <3>5. RankAt(d, n) = k <=> tag = TagOrder[k]
      BY <3>3, <3>4, TagsApart DEF RankAt
    <3> QED
      BY <3>1, <3>5
  <2>2. Tagged(Held(d, s), k) = List!Chosen(Held(d, s), S)
    BY Zenon DEF Tagged
  <2>3. OfRank(d, s, k) = FlatMap(Keep(T), s)
    BY Zenon DEF OfRank
  <2> HIDE DEF S, T
  <2>4. List!Chosen(Held(d, s), S) = Held(d, FlatMap(Keep(T), s))
    BY <2>1, ChosenIs
  <2> QED
    BY <2>2, <2>3, <2>4, Zenon
<1> QED
  BY <1>1, <1>2

\* Sorted nodes hold the elements tag by tag.
LEMMA SortedByTag ==
  ASSUME NEW d \in Deques, NEW s \in Seq(Nodes), Apart(s), NEW t \in Seq(Nodes), Apart(t),
         Range(t) = Range(s), InOrder(d, PlaceIn(s), t)
  PROVE  Held(d, t) = FlattenSeq([i \in DOMAIN TagOrder |-> Tagged(Held(d, s), i)])
<1> DEFINE F == ByRank(d, s)
           G == [k \in Nat |-> Tagged(Held(d, s), k)]
           N == Len(TagOrder)
           u == [m \in Nat |-> FlatMap(F, UpTo(m))]
           v == [m \in Nat |-> FlatMap(G, UpTo(m))]
           L == {m \in Nat : m <= N => u[m] \in Seq(Nodes) /\ Held(d, u[m]) = v[m]}
<1>1. N \in Nat /\ DOMAIN TagOrder = 1 .. N
  BY TagsAre
<1>2. F \in [Nat -> Seq(Nodes)] /\ \A k \in Nat : F[k] = OfRank(d, s, k)
  <2>1. PlaceIn(s) \in [Nodes -> Nat] /\ Rising(PlaceIn(s), s)
    BY PlacesRise
  <2>2. \A k : OfRank(d, s, k) \in Seq(Nodes)
    BY <2>1, RankOrder
  <2> QED
    BY <2>2 DEF ByRank
<1>3. G \in [Nat -> Seq(Elements)] /\ \A k \in 1 .. N : G[k] = Held(d, F[k])
  <2>1. \A k : Tagged(Held(d, s), k) \in Seq(Elements)
    BY TaggedIs
  <2>2. \A k \in 1 .. N : Tagged(Held(d, s), k) = Held(d, OfRank(d, s, k))
    BY TaggedIs
  <2>3. \A k \in 1 .. N : k \in Nat
    BY <1>1
  <2>4. \A k \in Nat : G[k] = Tagged(Held(d, s), k)
    OBVIOUS
  <2>5. G \in [Nat -> Seq(Elements)]
    BY <2>1
  <2> HIDE DEF F, G, N
  <2>6. \A k \in 1 .. N : G[k] = Held(d, F[k])
    BY <1>2, <2>2, <2>3, <2>4
  <2> QED
    BY <2>5, <2>6
<1>4. [i \in DOMAIN TagOrder |-> Tagged(Held(d, s), i)] = Images(G, UpTo(N))
  <2>1. /\ UpTo(N) = [i \in 1 .. N |-> i] /\ DOMAIN UpTo(N) = 1 .. N
        /\ \A i \in 1 .. N : UpTo(N)[i] = i /\ i \in Nat
    BY <1>1 DEF UpTo
  <2>2. \A i \in 1 .. N : G[UpTo(N)[i]] = Tagged(Held(d, s), i)
    BY <2>1
  <2> HIDE DEF G, N
  <2> QED
    BY <1>1, <2>1, <2>2 DEF Images
<1>5. t = FlatMap(F, UpTo(N))
  BY SortedByRank
<1> HIDE DEF F, G, N
<1>6. /\ u[0] = <<>> /\ v[0] = <<>>
      /\ \A m \in Nat : u[m + 1] = u[m] \o F[m + 1] /\ v[m + 1] = v[m] \o G[m + 1]
  <2>1. FlatMap(F, <<>>) = <<>> /\ FlatMap(G, <<>>) = <<>>
    BY <1>2, <1>3, FlatMapAppend
  <2>2. ASSUME NEW m \in Nat
        PROVE  u[m + 1] = u[m] \o F[m + 1] /\ v[m + 1] = v[m] \o G[m + 1]
    <3>1. UpTo(m) \in Seq(Nat) /\ UpTo(m + 1) = Append(UpTo(m), m + 1)
      BY UpToMore, Zenon
    <3>2. m + 1 \in Nat
      OBVIOUS
    <3>3. FlatMap(F, Append(UpTo(m), m + 1)) = FlatMap(F, UpTo(m)) \o F[m + 1]
      <4>1. Joins(F, Nat)
        BY <1>2, FlatMapJoins
      <4> QED
        BY <3>1, <3>2, <4>1, Zenon DEF Joins
    <3>4. FlatMap(G, Append(UpTo(m), m + 1)) = FlatMap(G, UpTo(m)) \o G[m + 1]
      <4>1. Joins(G, Nat)
        BY <1>3, FlatMapJoins
      <4> QED
        BY <3>1, <3>2, <4>1, Zenon DEF Joins
    <3>5. /\ u[m + 1] = FlatMap(F, UpTo(m + 1)) /\ u[m] = FlatMap(F, UpTo(m))
          /\ v[m + 1] = FlatMap(G, UpTo(m + 1)) /\ v[m] = FlatMap(G, UpTo(m))
      BY <3>2
    <3> HIDE DEF u, v
    <3> QED
      BY <3>1, <3>3, <3>4, <3>5, Zenon
  <2> QED
    BY <2>1, <2>2, UpToMore
<1>7. u[N] = FlatMap(F, UpTo(N)) /\ v[N] = FlatMap(G, UpTo(N))
  BY <1>1
<1> HIDE DEF u, v
<1>8. 0 \in L
  <2>1. <<>> \in Seq(Nodes) /\ Held(d, <<>>) = <<>>
    BY EmptySeq, HeldAre
  <2> QED
    BY <1>6, <2>1
<1>9. ASSUME NEW m \in Nat, m \in L PROVE m + 1 \in L
  <2>1. SUFFICES ASSUME m + 1 <= N PROVE u[m + 1] \in Seq(Nodes) /\ Held(d, u[m + 1]) = v[m + 1]
    OBVIOUS
  <2>2. m <= N /\ m + 1 \in 1 .. N /\ m + 1 \in Nat
    BY <1>1, <2>1
  <2>3. u[m] \in Seq(Nodes) /\ Held(d, u[m]) = v[m]
    BY <1>9, <2>2
  <2>4. F[m + 1] \in Seq(Nodes) /\ G[m + 1] = Held(d, F[m + 1])
    BY <1>2, <1>3, <2>2
  <2>5. u[m + 1] = u[m] \o F[m + 1] /\ v[m + 1] = v[m] \o G[m + 1]
    BY <1>6
  <2>6. Held(d, u[m] \o F[m + 1]) = Held(d, u[m]) \o Held(d, F[m + 1])
    BY <2>3, <2>4, HeldConcat
  <2>7. u[m] \o F[m + 1] \in Seq(Nodes)
    BY <2>3, <2>4, ConcatProperties
  <2> QED
    BY <2>3, <2>4, <2>5, <2>6, <2>7, Zenon
<1> HIDE DEF L
<1>10. Nat \subseteq L
  BY <1>8, <1>9, SetInduction
<1>11. Held(d, u[N]) = v[N]
  BY <1>1, <1>10 DEF L
<1> QED
  BY <1>4, <1>5, <1>7, <1>11, Zenon DEF FlatMap

-----------------------------------------------------------------------------
(* What DequeList sees of a deque. *)

ContentsOf(d) == Held(d, Path(d.next, d.next[Start]))

PositionOf(d, it) ==
  CASE it = NoIter -> -1
    [] it = NULL -> -2
    [] it = Start -> 0
    [] OTHER -> LET f == Path(d.next, d.next[Start]) IN CHOOSE i \in DOMAIN f : f[i] = it

\* It is what Contents and Position are, before a step and after it.
LEMMA ViewsAre ==
  /\ Contents = ContentsOf(q) /\ Contents' = ContentsOf(q')
  /\ Position = PositionOf(q, iter) /\ Position' = PositionOf(q', iter')
  BY Zenon DEF Contents, Position, ContentsOf, PositionOf, Held, Forward

\* What the nodes hold, and how many nodes the iterator has passed.
LEMMA ViewIs ==
  ASSUME NEW d \in Deques, NEW s, Chain(d, s)
  PROVE  /\ ContentsOf(d) = Held(d, s)
         /\ \A j \in 0 .. Len(s) : PositionOf(d, Stop(s, j)) = j
<1>1. s \in Seq(Nodes) /\ Len(s) \in Nat /\ Apart(s)
  BY DEF Chain
<1>2. Path(d.next, d.next[Start]) = s
  BY ChainPaths
<1>3. ASSUME NEW j \in 0 .. Len(s) PROVE PositionOf(d, Stop(s, j)) = j
  <2>1. CASE j = 0
    <3>1. Stop(s, j) = Start
      BY <2>1, StopIs, <1>1
    <3>2. Start # NoIter /\ Start # NULL
      BY DEF Start, NoIter, NULL
    <3> QED
      BY <2>1, <3>1, <3>2 DEF PositionOf
  <2>2. CASE j # 0
    <3>1. j \in 1 .. Len(s) /\ j \in DOMAIN s
      BY <1>1, <2>2
    <3> DEFINE a == Stop(s, j)
    <3>2. a = s[j] /\ a \in Nodes
      BY <1>1, <3>1, StopIs
    <3>3. a # NoIter /\ a # NULL /\ a # Start
      BY <3>2, NodesApart
    <3> HIDE DEF a
    <3>4. PositionOf(d, a) = CHOOSE i \in DOMAIN s : s[i] = a
      BY <1>2, <3>3 DEF PositionOf
    <3>5. \A i \in DOMAIN s : s[i] = a => i = j
      BY <1>1, <3>1, <3>2 DEF Apart
    <3> QED
      BY <3>1, <3>2, <3>4, <3>5 DEF a
  <2> QED
    BY <2>1, <2>2
<1> QED
  BY <1>2, <1>3 DEF ContentsOf

\* Without an iterator, and past the end.
LEMMA NoPlace ==
  \A d : PositionOf(d, NoIter) = -1 /\ PositionOf(d, NULL) = -2
<1> SUFFICES ASSUME NEW d PROVE PositionOf(d, NoIter) = -1 /\ PositionOf(d, NULL) = -2
  OBVIOUS
<1>1. NULL # NoIter
  BY DEF NoIter, NULL
<1>2. Start # NoIter /\ Start # NULL
  BY DEF Start, NoIter, NULL
<1>3. PositionOf(d, NoIter) = -1
  BY <1>1, <1>2 DEF PositionOf
<1>4. PositionOf(d, NULL) = -2
  BY <1>1, <1>2 DEF PositionOf
<1> QED
  BY <1>3, <1>4

\* Where an iterator can be.
LEMMA IterIs ==
  ASSUME NEW d \in Deques, NEW s, Chain(d, s), NEW it, it \in {NoIter, NULL, Start} \union d.live
  PROVE  it = NoIter \/ it = NULL \/ \E j \in 0 .. Len(s) : it = Stop(s, j)
<1>1. s \in Seq(Nodes) /\ Len(s) \in Nat
  BY DEF Chain
<1>2. CASE it = Start
  BY <1>1, <1>2, StopIs
<1>3. CASE it \in d.live
  <2>1. PICK i \in 1 .. Len(s) : it = Stop(s, i)
    BY <1>3, WhereIs
  <2> QED
    BY <1>1, <2>1
<1> QED
  BY <1>2, <1>3

\* The first and the last element.
LEMMA EndsOfList ==
  ASSUME NEW s \in Seq(Nodes), q \in Deques
  PROVE  Element(FirstOf(s)) = List!FirstOf(Held(q, s)) /\ Element(LastOf(s)) = List!LastOf(Held(q, s))
<1> DEFINE h == Held(q, s)
<1>1. /\ h \in Seq(Elements) /\ Len(h) = Len(s) /\ (h = <<>> <=> s = <<>>)
      /\ \A i \in 1 .. Len(s) : h[i] = q.holds[s[i]]
  BY HeldAre
<1> HIDE DEF h
<1>2. CASE s = <<>>
  BY <1>1, <1>2 DEF FirstOf, LastOf, Element, List!FirstOf, List!LastOf, h
<1>3. CASE s # <<>>
  <2>1. 1 \in 1 .. Len(s) /\ Len(s) \in 1 .. Len(s)
    BY <1>3
  <2>2. s[1] # NULL /\ s[Len(s)] # NULL
    BY <2>1, NodesApart
  <2>3. Head(h) = h[1]
    BY <1>1, <1>3
  <2>4. List!FirstOf(h) = <<q.holds[s[1]]>>
    BY <1>1, <1>3, <2>1, <2>3 DEF List!FirstOf
  <2>5. List!LastOf(h) = <<q.holds[s[Len(s)]]>>
    BY <1>1, <1>3, <2>1 DEF List!LastOf, List!Last
  <2> QED
    BY <1>3, <2>2, <2>4, <2>5 DEF FirstOf, LastOf, Element, h
<1> QED
  BY <1>2, <1>3

\* The nodes that the sentinels point to.
LEMMA EndsOfChain ==
  ASSUME NEW d \in Deques, NEW s, Chain(d, s)
  PROVE  /\ (IF d.size = 0 THEN NULL ELSE d.next[Start]) = FirstOf(s)
         /\ (IF d.size = 0 THEN NULL ELSE d.prev[End]) = LastOf(s)
         /\ d.size = Len(s) /\ (d.size = 0 <=> s = <<>>)
<1>1. s \in Seq(Nodes) /\ Len(s) \in Nat /\ d.size = Len(s) /\ (Len(s) = 0 <=> s = <<>>)
  BY DEF Chain
<1>2. /\ Stop(s, 0) = Start /\ Stop(s, Len(s) + 1) = End
      /\ \A i \in 1 .. Len(s) : Stop(s, i) = s[i]
  BY <1>1, StopIs
<1>3. d.next[Stop(s, 0)] = Stop(s, 0 + 1) /\ d.prev[Stop(s, Len(s) + 1)] = Stop(s, Len(s))
  BY <1>1 DEF Chain
<1>4. CASE s # <<>>
  <2>1. 1 \in 1 .. Len(s) /\ Len(s) \in 1 .. Len(s)
    BY <1>1, <1>4
  <2> QED
    BY <1>1, <1>2, <1>3, <1>4, <2>1 DEF FirstOf, LastOf
<1> QED
  BY <1>1, <1>4 DEF FirstOf, LastOf

\* The elements with a tag and the others.
LEMMA WithAre ==
  ASSUME NEW s \in Seq(Nodes), q \in Deques, Contents = Held(q, s), NEW tag,
         NEW T, \A n \in Nodes : n \in T <=> q.holds[n].tag # tag \/ tag = NoTag
  PROVE  /\ List!With(tag) = Held(q, FlatMap(Keep(T), s))
         /\ List!Without(tag) = Held(q, FlatMap(Keep(Nodes \ T), s))
<1> DEFINE S == {e \in Elements : e.tag = tag /\ tag # NoTag}
           R == {e \in Elements : e.tag # tag \/ tag = NoTag}
<1>1. \A n \in Nodes : q.holds[n] \in Elements
  BY DEF Deques
<1>2. \A n \in Nodes : (n \in T <=> q.holds[n] \notin S) /\ (n \in Nodes \ T <=> q.holds[n] \notin R)
  BY <1>1
<1>3. List!With(tag) = List!Chosen(Contents, S) /\ List!Without(tag) = List!Chosen(Contents, R)
  BY Zenon DEF List!With, List!Without
<1> HIDE DEF S, R
<1>4. List!Chosen(Held(q, s), S) = Held(q, FlatMap(Keep(T), s))
  BY <1>2, ChosenIs
<1>5. List!Chosen(Held(q, s), R) = Held(q, FlatMap(Keep(Nodes \ T), s))
  BY <1>2, ChosenIs
<1> QED
  BY <1>3, <1>4, <1>5, Zenon

-----------------------------------------------------------------------------
(* Every call is one step of the list, or none. *)

\* An element is offered.
LEMMA AddsOne ==
  ASSUME NEW s, q \in Deques, Chain(q, s), iter \in {NoIter, NULL, Start} \union q.live,
         NEW tag \in Range(TagOrder), NEW v \in Values, Add(tag, v)
  PROVE  \E e \in Elements : List!Add(e)
<1>1. PICK n \in Nodes \ q.live :
        /\ q' \in Deques /\ Chain(q', Append(s, n))
        /\ q'.holds = [q.holds EXCEPT ![n] = [tag |-> tag, val |-> v]]
        /\ q'.live = q.live \union {n} /\ iter' = iter
  BY AddStep
<1> DEFINE e == [tag |-> tag, val |-> v]
           t == Append(s, n)
<1>2. s \in Seq(Nodes) /\ Len(s) \in Nat /\ Range(s) = q.live /\ n \in Nodes /\ n \notin Range(s)
  BY DEF Chain
<1>3. t \in Seq(Nodes) /\ Len(t) = Len(s) + 1
  BY <1>2
<1>4. e \in Elements
  BY DEF Elements
<1>5. Contents = Held(q, s) /\ Contents' = Held(q', t)
  BY <1>1, <1>3, ViewsAre, ViewIs
<1>6. Held(q', t) = Append(Held(q', s), q'.holds[n])
  BY <1>1, <1>2, HeldMore
<1>7. q'.holds[n] = e /\ \A a \in Nodes : a # n => q'.holds[a] = q.holds[a]
  <2>1. q.holds \in [Nodes -> Elements]
    BY DEF Deques
  <2> QED
    BY <1>1, <1>2, <2>1
<1>8. Held(q', s) = Held(q, s)
  <2>1. \A a \in Range(s) : a \in Nodes /\ a # n
    BY <1>2, RangeIs
  <2>2. \A a \in Range(s) : q'.holds[a] = q.holds[a]
    BY <1>7, <2>1
  <2> QED
    BY <1>1, <1>2, <2>2, HeldSame
<1> HIDE DEF e, t
<1>9. Contents' = Append(Contents, e)
  BY <1>5, <1>6, <1>7, <1>8
<1>10. PositionOf(q', iter) = PositionOf(q, iter)
  <2>1. CASE iter = NoIter \/ iter = NULL
    BY <2>1, NoPlace
  <2>2. ASSUME NEW j \in 0 .. Len(s), iter = Stop(s, j) PROVE PositionOf(q', iter) = PositionOf(q, iter)
    <3>1. j \in 0 .. Len(s) + 2 /\ j <= Len(s) /\ j \in 0 .. Len(t)
      BY <1>2, <1>3
    <3>2. Stop(t, j) = Stop(s, j)
      BY <1>2, <3>1, StopLonger DEF t
    <3>3. PositionOf(q', Stop(t, j)) = j
      BY <1>1, <3>1, ViewIs DEF t
    <3>4. PositionOf(q, Stop(s, j)) = j
      BY ViewIs
    <3> QED
      BY <2>2, <3>2, <3>3, <3>4
  <2> QED
    BY <2>1, <2>2, IterIs
<1>11. Position' = Position
  BY <1>1, <1>10, ViewsAre
<1>12. ret' = <<"void", <<>>>>
  BY DEF Add, Tells
<1>13. List!Add(e)
  BY <1>9, <1>11, <1>12 DEF List!Add, List!Tells
<1> QED
  BY <1>4, <1>13

\* A call that changes the list while there is no iterator.
LEMMA BecomesIs ==
  ASSUME iter = NoIter, iter' = iter
  PROVE  \A l : Contents' = l => List!Becomes(l)
<1>1. Position = -1 /\ Position' = -1
  BY ViewsAre, NoPlace
<1> QED
  BY <1>1 DEF List!Becomes, List!None

\* The first or the last element is taken.
LEMMA TakesOne ==
  ASSUME NEW s, q \in Deques, Chain(q, s)
  PROVE  (Poll => List!Poll) /\ (PollLast => List!PollLast)
<1> DEFINE h == Held(q, s)
<1>0. s \in Seq(Nodes) /\ Apart(s) /\ Len(s) \in Nat
  BY DEF Chain
<1>1. /\ h \in Seq(Elements) /\ Len(h) = Len(s) /\ (h = <<>> <=> s = <<>>)
  BY <1>0, HeldAre
<1>2. Contents = h
  BY ViewsAre, ViewIs
<1>3. Element(FirstOf(s)) = List!FirstOf(h) /\ Element(LastOf(s)) = List!LastOf(h)
  BY <1>0, EndsOfList
<1>4. /\ (IF q.size = 0 THEN NULL ELSE q.next[Start]) = FirstOf(s)
      /\ (IF q.size = 0 THEN NULL ELSE q.prev[End]) = LastOf(s)
  BY EndsOfChain
<1>5. ASSUME NEW i \in 1 .. Len(s), Out(s, i) PROVE Contents' = RemoveAt(h, i)
  <2>1. q' \in Deques /\ Chain(q', RemoveAt(s, i)) /\ \A x \in Nodes : x # s[i] => q'.holds[x] = q.holds[x]
    BY <1>5 DEF Out
  <2>2. Contents' = Held(q', RemoveAt(s, i))
    BY <2>1, ViewsAre, ViewIs
  <2>3. Held(q', RemoveAt(s, i)) = RemoveAt(Held(q, s), i)
    BY <1>0, <2>1, HeldLess
  <2> QED
    BY <2>2, <2>3
<1> HIDE DEF h
<1>6. h # <<>> => /\ RemoveAt(h, 1) = Tail(h) /\ RemoveAt(h, Len(s)) = Front(h)
                  /\ 1 \in 1 .. Len(s) /\ Len(s) \in 1 .. Len(s)
  <2>1. h # <<>> => RemoveAt(h, 1) = Tail(h) /\ RemoveAt(h, Len(h)) = Front(h)
    BY <1>1, RemoveEnds
  <2>2. h # <<>> => 1 \in 1 .. Len(s) /\ Len(s) \in 1 .. Len(s)
    BY <1>0, <1>1
  <2> QED
    BY <1>1, <2>1, <2>2
<1>7. ASSUME Poll PROVE List!Poll
  <2>1. iter = NoIter /\ iter' = iter /\ ret' = <<"poll", Element(IF q.size = 0 THEN NULL ELSE q.next[Start])>>
    BY <1>7 DEF Poll, Take, Tells
  <2>2. List!Tells("poll", List!FirstOf(Contents))
    BY <1>2, <1>3, <1>4, <2>1 DEF List!Tells
  <2>3. Contents' = IF h = <<>> THEN h ELSE Tail(h)
    <3>1. CASE s = <<>>
      <4>1. q' = q
        BY <1>7, <3>1, PollStep
      <4> QED
        BY <1>1, <1>2, <3>1, <4>1, ViewsAre
    <3>2. CASE s # <<>>
      <4>1. Out(s, 1)
        BY <1>7, <3>2, PollStep
      <4> QED
        BY <1>1, <1>5, <1>6, <3>2, <4>1
    <3> QED
      BY <3>1, <3>2
  <2>4. List!Becomes(IF Contents = <<>> THEN Contents ELSE Tail(Contents))
    BY <1>2, <2>1, <2>3, BecomesIs
  <2> QED
    BY <2>2, <2>4 DEF List!Poll
<1>8. ASSUME PollLast PROVE List!PollLast
  <2>1. iter = NoIter /\ iter' = iter /\ ret' = <<"pollLast", Element(IF q.size = 0 THEN NULL ELSE q.prev[End])>>
    BY <1>8 DEF PollLast, Take, Tells
  <2>2. List!Tells("pollLast", List!LastOf(Contents))
    BY <1>2, <1>3, <1>4, <2>1 DEF List!Tells
  <2>3. Contents' = IF h = <<>> THEN h ELSE List!Front(h)
    <3>1. CASE s = <<>>
      <4>1. q' = q
        BY <1>8, <3>1, PollStep
      <4> QED
        BY <1>1, <1>2, <3>1, <4>1, ViewsAre
    <3>2. CASE s # <<>>
      <4>1. Out(s, Len(s))
        BY <1>8, <3>2, PollStep
      <4>2. Front(h) = List!Front(h)
        BY DEF Front, List!Front
      <4> QED
        BY <1>1, <1>5, <1>6, <3>2, <4>1, <4>2
    <3> QED
      BY <3>1, <3>2
  <2>4. List!Becomes(IF Contents = <<>> THEN Contents ELSE List!Front(Contents))
    BY <1>2, <2>1, <2>3, BecomesIs
  <2> QED
    BY <2>2, <2>4 DEF List!PollLast
<1> QED
  BY <1>7, <1>8

\* A call that only reads.
LEMMA LooksOnly ==
  ASSUME NEW s, q \in Deques, Chain(q, s), iter \in {NoIter, NULL, Start} \union q.live
  PROVE  /\ Peek \/ PeekLast \/ Size \/ IterHasNext => List!Look
         /\ \A tag \in Range(TagOrder) : Get(tag) => List!Look
<1>0. s \in Seq(Nodes) /\ Len(s) \in Nat /\ Len(Held(q, s)) = Len(s)
  BY HeldAre DEF Chain
<1>1. Contents = Held(q, s)
  BY ViewsAre, ViewIs
<1>2. Element(FirstOf(s)) = List!FirstOf(Contents) /\ Element(LastOf(s)) = List!LastOf(Contents)
  BY <1>0, <1>1, EndsOfList
<1>3. /\ (IF q.size = 0 THEN NULL ELSE q.next[Start]) = FirstOf(s)
      /\ (IF q.size = 0 THEN NULL ELSE q.prev[End]) = LastOf(s)
      /\ q.size = Len(Contents)
  BY <1>0, <1>1, EndsOfChain
<1>4. ASSUME UNCHANGED <<q, iter>> PROVE UNCHANGED <<Contents, Position>>
  BY <1>4, ViewsAre
<1>5. ASSUME Peek PROVE List!Look
  <2>1. UNCHANGED <<q, iter>> /\ ret' = <<"peek", Element(IF q.size = 0 THEN NULL ELSE q.next[Start])>>
    BY <1>5 DEF Peek, Look, Tells
  <2>2. List!Tells("peek", List!FirstOf(Contents))
    BY <1>2, <1>3, <2>1 DEF List!Tells
  <2> QED
    BY <1>4, <2>1, <2>2 DEF List!Look
<1>6. ASSUME PeekLast PROVE List!Look
  <2>1. UNCHANGED <<q, iter>> /\ ret' = <<"peekLast", Element(IF q.size = 0 THEN NULL ELSE q.prev[End])>>
    BY <1>6 DEF PeekLast, Look, Tells
  <2>2. List!Tells("peekLast", List!LastOf(Contents))
    BY <1>2, <1>3, <2>1 DEF List!Tells
  <2> QED
    BY <1>4, <2>1, <2>2 DEF List!Look
<1>7. ASSUME Size PROVE List!Look
  <2>1. UNCHANGED <<q, iter>> /\ ret' = <<"size", <<q.size>>>>
    BY <1>7 DEF Size, Look, Tells
  <2>2. List!Tells("size", <<Len(Contents)>>)
    BY <1>3, <2>1 DEF List!Tells
  <2> QED
    BY <1>4, <2>1, <2>2 DEF List!Look
<1>8. ASSUME IterHasNext PROVE List!Look
  <2>1. UNCHANGED <<q, iter>> /\ iter # NoIter /\ ret' = <<"hasNext", <<DequeNext(q, iter) # NULL>>>>
    BY <1>8 DEF IterHasNext, Look, Tells
  <2>2. Position # -1 /\ (DequeNext(q, iter) # NULL <=> Position \in 0 .. Len(Contents) - 1)
    <3>1. CASE iter = NULL
      <4>1. DequeNext(q, iter) = NULL
        BY <3>1 DEF DequeNext
      <4>2. Position = -2
        BY <3>1, ViewsAre, NoPlace
      <4> QED
        BY <4>1, <4>2
    <3>2. ASSUME NEW j \in 0 .. Len(s), iter = Stop(s, j)
          PROVE  Position # -1 /\ (DequeNext(q, iter) # NULL <=> Position \in 0 .. Len(Contents) - 1)
      <4>1. Position = j
        BY <3>2, ViewsAre, ViewIs
      <4>2. DequeNext(q, iter) = IF j = Len(s) THEN NULL ELSE s[j + 1]
        BY <3>2, NextIs
      <4>3. j # Len(s) => j + 1 \in 1 .. Len(s)
        BY <1>0
      <4>4. j # Len(s) => s[j + 1] # NULL
        BY <1>0, <4>3, NodesApart
      <4>5. j \in 0 .. Len(s) - 1 <=> j # Len(s)
        BY <1>0
      <4> QED
        BY <1>0, <1>1, <4>1, <4>2, <4>4, <4>5
    <3> QED
      BY <2>1, <3>1, <3>2, IterIs
  <2>3. Position # List!None
    BY <2>2 DEF List!None
  <2>4. (DequeNext(q, iter) # NULL) = (Position \in 0 .. Len(Contents) - 1)
    BY <2>2
  <2>5. List!Tells("hasNext", <<Position \in 0 .. Len(Contents) - 1>>)
    BY <2>1, <2>4, Zenon DEF List!Tells
  <2> QED
    BY <1>4, <2>1, <2>3, <2>5, Zenon DEF List!Look
<1>9. ASSUME NEW tag \in Range(TagOrder), Get(tag) PROVE List!Look
  <2> DEFINE T == {n \in Nodes : q.holds[n].tag # tag \/ tag = NoTag}
             w == FlatMap(Keep(T), s)
  <2>1. UNCHANGED <<q, iter>> /\ ret' = <<"get", <<tag, Element(Find(q, tag))>>>>
    BY <1>9 DEF Get, Look, Tells
  <2>2. \A n \in Nodes : n \in T <=> q.holds[n].tag # tag \/ tag = NoTag
    OBVIOUS
  <2>3. w \in Seq(Nodes)
    BY <1>0, KeepIs
  <2> HIDE DEF T
  <2>4. Find(q, tag) = FirstOf(w)
    BY <2>2, FindIs
  <2> HIDE DEF w
  <2>5. List!With(tag) = Held(q, w)
    <3>1. /\ List!With(tag) = Held(q, FlatMap(Keep(T), s))
          /\ List!Without(tag) = Held(q, FlatMap(Keep(Nodes \ T), s))
      BY <1>0, <1>1, <2>2, WithAre
    <3> QED
      BY <3>1 DEF w
  <2>6. Element(FirstOf(w)) = List!FirstOf(Held(q, w))
    BY <2>3, EndsOfList
  <2>7. List!Tells("get", <<tag, List!FirstOf(List!With(tag))>>)
    BY <2>1, <2>4, <2>5, <2>6 DEF List!Tells
  <2>8. \E k \in List!Range(TagOrder) : List!Tells("get", <<k, List!FirstOf(List!With(k))>>)
    <3>1. tag \in List!Range(TagOrder)
      BY DEF List!Range, Range
    <3> QED
      BY <2>7, <3>1
  <2> QED
    BY <1>4, <2>1, <2>8 DEF List!Look
<1> QED
  BY <1>5, <1>6, <1>7, <1>8, <1>9

\* Elements are removed.
LEMMA Removes ==
  ASSUME NEW s, q \in Deques, Chain(q, s)
  PROVE  /\ \A tag \in Range(TagOrder) : RemoveTag(tag) => List!RemoveTag(tag)
         /\ Clear => List!Clear
<1>0. s \in Seq(Nodes) /\ Len(s) \in Nat /\ Range(s) = q.live /\ Range(s) \subseteq Nodes /\ q.size = Len(s)
  BY RangeIs DEF Chain
<1>1. Contents = Held(q, s)
  BY ViewsAre, ViewIs
<1>2. ASSUME NEW S, q' = RemoveFrom(q, S)
      PROVE  /\ FlatMap(Keep(S), s) \in Seq(Nodes) /\ Contents' = Held(q, FlatMap(Keep(S), s))
             /\ q'.size = Len(FlatMap(Keep(S), s))
  <2> DEFINE t == FlatMap(Keep(S), s)
  <2>1. q' \in Deques /\ Chain(q', t) /\ \A a \in Range(t) : q'.holds[a] = q.holds[a]
    BY <1>2, RemoveStep
  <2> HIDE DEF t
  <2>2. t \in Seq(Nodes) /\ q'.size = Len(t)
    BY <2>1 DEF Chain
  <2>3. Contents' = Held(q', t)
    BY <2>1, ViewsAre, ViewIs
  <2>4. Held(q', t) = Held(q, t)
    BY <2>1, <2>2, HeldSame
  <2> QED
    BY <2>2, <2>3, <2>4 DEF t
<1>3. ASSUME NEW tag \in Range(TagOrder), RemoveTag(tag) PROVE List!RemoveTag(tag)
  <2> DEFINE T == {n \in Nodes : q.holds[n].tag # tag \/ tag = NoTag}
             k == FlatMap(Keep(Nodes \ T), s)
             g == FlatMap(Keep(T), s)
  <2>1. iter = NoIter /\ iter' = iter /\ ret' = <<"remove", <<tag, q.size - q'.size>>>>
    BY <1>3 DEF RemoveTag, Tells
  <2>2. \A n \in Nodes : n \in T <=> q.holds[n].tag # tag \/ tag = NoTag
    OBVIOUS
  <2>3. List!With(tag) = Held(q, g) /\ List!Without(tag) = Held(q, k)
    BY <1>0, <1>1, <2>2, WithAre
  <2>4. g \in Seq(Nodes) /\ k \in Seq(Nodes)
    BY <1>0, KeepIs
  <2>5. Len(g) + Len(k) = Len(s)
    BY <1>0, KeepCounts
  <2>6. Contents' = Held(q, k) /\ q'.size = Len(k)
    <3>1. CASE tag = NoTag
      <4>1. q' = q
        BY <1>3, <3>1 DEF RemoveTag
      <4>2. Range(s) \cap (Nodes \ T) = {}
        BY <1>0, <2>2, <3>1
      <4>3. k = s
        BY <1>0, <4>2, KeepAll
      <4> QED
        BY <1>0, <1>1, <4>1, <4>3, ViewsAre
    <3>2. CASE tag # NoTag
      <4> DEFINE S == {n \in q.live : q.holds[n].tag = tag}
      <4>1. q' = RemoveFrom(q, S)
        BY <1>3, <3>2 DEF RemoveTag
      <4>2. \A a \in Range(s) : a \in S <=> a \in Nodes \ T
        BY <1>0, <2>2, <3>2
      <4> HIDE DEF S, T
      <4>3. FlatMap(Keep(S), s) = k
        BY <1>0, <4>2, KeepSame
      <4> QED
        BY <1>2, <4>1, <4>3
    <3> QED
      BY <3>1, <3>2
  <2> HIDE DEF T, k, g
  <2>7. q.size - q'.size = Len(List!With(tag))
    <3>1. Len(Held(q, g)) = Len(g)
      BY <2>4, HeldAre
    <3>2. Len(g) \in Nat /\ Len(k) \in Nat
      BY <2>4
    <3> QED
      BY <1>0, <2>3, <2>5, <2>6, <3>1, <3>2
  <2>8. List!Tells("remove", <<tag, Len(List!With(tag))>>)
    BY <2>1, <2>7 DEF List!Tells
  <2>9. List!Becomes(List!Without(tag))
    BY <2>1, <2>3, <2>6, BecomesIs
  <2> QED
    BY <2>8, <2>9 DEF List!RemoveTag
<1>4. ASSUME Clear PROVE List!Clear
  <2>1. iter = NoIter /\ iter' = iter /\ ret' = <<"void", <<>>>> /\ q' = RemoveFrom(q, q.live)
    BY <1>4 DEF Clear, Tells
  <2>2. Contents' = Held(q, FlatMap(Keep(q.live), s))
    BY <1>2, <2>1
  <2>3. FlatMap(Keep(q.live), s) = <<>>
    BY <1>0, KeepAll
  <2>4. Held(q, <<>>) = <<>>
    BY EmptySeq, HeldAre
  <2>5. List!Becomes(<<>>)
    BY <2>1, <2>2, <2>3, <2>4, BecomesIs
  <2>6. List!Tells("void", <<>>)
    BY <2>1 DEF List!Tells
  <2> QED
    BY <2>5, <2>6 DEF List!Clear
<1> QED
  BY <1>3, <1>4

\* The list is sorted.
LEMMA Sorts ==
  ASSUME NEW s, q \in Deques, Chain(q, s), Sort
  PROVE  List!Sort
<1>0. s \in Seq(Nodes) /\ Apart(s)
  BY DEF Chain
<1>1. Contents = Held(q, s)
  BY ViewsAre, ViewIs
<1>2. iter = NoIter /\ iter' = iter /\ ret' = <<"void", <<>>>>
  BY DEF Sort, Tells
<1>3. PICK t : /\ q' \in Deques /\ Chain(q', t) /\ q'.holds = q.holds
               /\ Range(t) = Range(s) /\ InOrder(q, PlaceIn(s), t)
  BY SortStep
<1>4. t \in Seq(Nodes) /\ Apart(t)
  BY <1>3 DEF Chain
<1>5. Contents' = Held(q', t)
  BY <1>3, ViewsAre, ViewIs
<1>6. Held(q', t) = Held(q, t)
  BY <1>3, <1>4, HeldSame
<1>7. Held(q, t) = FlattenSeq([i \in DOMAIN TagOrder |-> Tagged(Held(q, s), i)])
  BY <1>0, <1>3, <1>4, SortedByTag
<1>8. \A ss : List!FlattenSeq(ss) = FlattenSeq(ss)
  BY Zenon DEF List!FlattenSeq, FlattenSeq
<1> DEFINE l == List!FlattenSeq([i \in DOMAIN TagOrder |->
                                   List!Chosen(Contents, {e \in Elements : e.tag = TagOrder[i]})])
<1>9. Contents' = l
  BY <1>1, <1>5, <1>6, <1>7, <1>8, Zenon DEF Tagged
<1>10. List!Becomes(l)
  BY <1>2, <1>9, BecomesIs
<1>11. List!Tells("void", <<>>)
  BY <1>2 DEF List!Tells
<1> QED
  BY <1>10, <1>11, Zenon DEF List!Sort

\* An iterator comes and goes on.
LEMMA Iterates ==
  ASSUME NEW s, q \in Deques, Chain(q, s), iter \in {NoIter, NULL, Start} \union q.live
  PROVE  /\ IterCreate => List!IterCreate
         /\ IterDestroy => List!IterDestroy
         /\ IterNext => List!IterNext
<1>0. s \in Seq(Nodes) /\ Len(s) \in Nat
  BY DEF Chain
<1>1. Contents = Held(q, s)
  BY ViewsAre, ViewIs
<1>2. iter # NoIter => Position # -1
  <2>1. CASE iter = NULL
    BY <2>1, ViewsAre, NoPlace
  <2>2. ASSUME NEW j \in 0 .. Len(s), iter = Stop(s, j) PROVE Position # -1
    <3>1. Position = j
      BY <2>2, ViewsAre, ViewIs
    <3> QED
      BY <3>1
  <2> QED
    BY <2>1, <2>2, IterIs
<1>3. ASSUME IterCreate PROVE List!IterCreate
  <2>1. iter = NoIter /\ iter' = Start /\ ret' = <<"void", <<>>>> /\ q' = q
    BY <1>3 DEF IterCreate, Tells
  <2>2. Position = -1 /\ Contents' = Contents
    BY <2>1, ViewsAre, NoPlace
  <2>3. Position' = 0
    <3>1. Stop(s, 0) = Start /\ 0 \in 0 .. Len(s)
      BY <1>0, StopIs
    <3>2. PositionOf(q, Stop(s, 0)) = 0
      BY <3>1, ViewIs
    <3> QED
      BY <2>1, <3>1, <3>2, ViewsAre
  <2> QED
    BY <2>1, <2>2, <2>3 DEF List!IterCreate, List!Tells, List!None
<1>4. ASSUME IterDestroy PROVE List!IterDestroy
  <2>1. iter # NoIter /\ iter' = NoIter /\ ret' = <<"void", <<>>>> /\ q' = q
    BY <1>4 DEF IterDestroy, Tells
  <2>2. Position # -1 /\ Position' = -1 /\ Contents' = Contents
    BY <1>2, <2>1, ViewsAre, NoPlace
  <2> QED
    BY <2>1, <2>2 DEF List!IterDestroy, List!Tells, List!None
<1>5. ASSUME IterNext PROVE List!IterNext
  <2>1. iter # NoIter /\ ret' = <<"next", Element(iter')>>
    BY <1>5 DEF IterNext, Tells
  <2>2. /\ q' = q /\ (iter = NULL => iter' = NULL)
        /\ \A j \in 0 .. Len(s) : iter = Stop(s, j) => iter' = IF j = Len(s) THEN NULL ELSE s[j + 1]
    BY <1>5, IterNextStep
  <2>3. Contents' = Contents /\ Position # List!None
    BY <1>2, <2>1, <2>2, ViewsAre DEF List!None
  <2>4. Len(Contents) = Len(s) /\ \A i \in 1 .. Len(s) : Contents[i] = q.holds[s[i]]
    BY <1>0, <1>1, HeldAre
  <2>5. ASSUME iter' = NULL, Position \notin 0 .. Len(s) - 1 PROVE List!IterNext
    <3>1. Position' = -2
      BY <2>5, ViewsAre, NoPlace
    <3>2. Element(iter') = <<>>
      BY <2>5 DEF Element
    <3> QED
      BY <2>1, <2>3, <2>4, <2>5, <3>1, <3>2 DEF List!IterNext, List!Tells, List!Past
  <2>6. CASE iter = NULL
    <3>1. Position = -2
      BY <2>6, ViewsAre, NoPlace
    <3> QED
      BY <2>2, <2>5, <2>6, <3>1
  <2>7. ASSUME NEW j \in 0 .. Len(s), iter = Stop(s, j) PROVE List!IterNext
    <3>1. Position = j
      BY <2>7, ViewsAre, ViewIs
    <3>2. CASE j = Len(s)
      <4>1. j \notin 0 .. Len(s) - 1
        BY <1>0, <3>2
      <4> QED
        BY <2>2, <2>5, <2>7, <3>1, <3>2, <4>1
    <3>3. CASE j # Len(s)
      <4>1. j \in 0 .. Len(s) - 1 /\ j + 1 \in 1 .. Len(s) /\ j + 1 \in 0 .. Len(s)
        BY <1>0, <3>3
      <4>2. iter' = s[j + 1] /\ s[j + 1] = Stop(s, j + 1) /\ s[j + 1] # NULL
        BY <1>0, <2>2, <2>7, <3>3, <4>1, StopIs, NodesApart
      <4>3. Position' = j + 1
        <5>1. PositionOf(q, Stop(s, j + 1)) = j + 1
          BY <4>1, ViewIs
        <5> QED
          BY <2>2, <4>2, <5>1, ViewsAre
      <4>4. Element(iter') = <<Contents[j + 1]>>
        BY <2>4, <4>1, <4>2 DEF Element
      <4> QED
        BY <2>1, <2>3, <2>4, <3>1, <4>1, <4>3, <4>4 DEF List!IterNext, List!Tells
    <3> QED
      BY <3>2, <3>3
  <2> QED
    BY <2>1, <2>6, <2>7, IterIs
<1> QED
  BY <1>3, <1>4, <1>5

\* The element the iterator is on is removed.
LEMMA IterRemoves ==
  ASSUME NEW s, q \in Deques, Chain(q, s), iter \in {NoIter, NULL, Start} \union q.live, IterRemove
  PROVE  List!IterRemove
<1>0. s \in Seq(Nodes) /\ Len(s) \in Nat /\ Apart(s)
  BY DEF Chain
<1>1. Contents = Held(q, s) /\ DOMAIN Contents = 1 .. Len(s)
  BY <1>0, ViewsAre, ViewIs, HeldAre
<1>2. iter # NoIter /\ ret' = <<"void", <<>>>>
  BY DEF IterRemove, Tells
<1>3. CASE iter \notin Nodes /\ q' = q /\ iter' = iter
  <2>1. UNCHANGED <<Contents, Position>>
    BY <1>3, ViewsAre
  <2>2. Position # -1 /\ Position \notin DOMAIN Contents
    <3>1. CASE iter = NULL
      <4>1. Position = -2
        BY <3>1, ViewsAre, NoPlace
      <4> QED
        BY <1>1, <4>1
    <3>2. ASSUME NEW j \in 0 .. Len(s), iter = Stop(s, j) PROVE Position # -1 /\ Position \notin DOMAIN Contents
      <4>1. Position = j
        BY <3>2, ViewsAre, ViewIs
      <4>2. j \notin 1 .. Len(s)
        BY <1>0, <1>3, <3>2, StopIs
      <4> QED
        BY <1>1, <4>1, <4>2
    <3> QED
      BY <1>2, <3>1, <3>2, IterIs
  <2> QED
    BY <1>2, <2>1, <2>2 DEF List!IterRemove, List!Tells, List!None
<1>4. ASSUME NEW i \in 1 .. Len(s), iter = s[i], Out(s, i), iter' = Stop(s, i - 1) PROVE List!IterRemove
  <2> DEFINE t == RemoveAt(s, i)
  <2>1. q' \in Deques /\ Chain(q', t) /\ \A x \in Nodes : x # s[i] => q'.holds[x] = q.holds[x]
    BY <1>4 DEF Out
  <2>2. i \in 0 .. Len(s) /\ i - 1 \in 0 .. Len(s) /\ i - 1 < i /\ Stop(s, i) = s[i]
    BY <1>0, StopIs
  <2>3. Position = i
    <3>1. PositionOf(q, Stop(s, i)) = i
      BY <2>2, ViewIs
    <3> QED
      BY <1>4, <2>2, <3>1, ViewsAre
  <2>4. Len(t) = Len(s) - 1 /\ Stop(t, i - 1) = Stop(s, i - 1)
    BY <1>0, <2>2, RemoveAtIs, StopWithout
  <2>5. Contents' = Held(q', t)
    BY <2>1, ViewsAre, ViewIs
  <2>6. Held(q', t) = RemoveAt(Held(q, s), i)
    BY <1>0, <2>1, HeldLess
  <2> HIDE DEF t
  <2>7. Position' = i - 1
    <3>1. i - 1 \in 0 .. Len(t)
      BY <1>0, <2>4
    <3>2. PositionOf(q', Stop(t, i - 1)) = i - 1
      BY <2>1, <3>1, ViewIs
    <3> QED
      BY <1>4, <2>4, <3>2, ViewsAre
  <2>8. List!RemoveAt(Contents, i) = RemoveAt(Contents, i)
    BY Zenon DEF List!RemoveAt, RemoveAt
  <2>9. Contents' = List!RemoveAt(Contents, Position)
    BY <1>1, <2>3, <2>5, <2>6, <2>8
  <2>10. Position # -1 /\ Position \in DOMAIN Contents /\ Position' = Position - 1
    BY <1>1, <2>3, <2>7
  <2> QED
    BY <1>2, <2>9, <2>10 DEF List!IterRemove, List!Tells, List!None
<1> QED
  BY <1>3, <1>4, IterRemoveStep

\* Each step is one of the list.
LEMMA StepImplements ==
  ASSUME DequeInv, [Next]_vars
  PROVE  [List!Next]_<<Contents, Position, ret>>
<1>1. PICK s : Chain(q, s)
  BY DEF DequeInv, Linked
<1>2. q \in Deques /\ iter \in {NoIter, NULL, Start} \union q.live
  BY DEF DequeInv, Linked
<1>3. CASE UNCHANGED vars
  BY <1>3, ViewsAre DEF vars
<1>4. ASSUME NEW tag \in Range(TagOrder), NEW v \in Values, Add(tag, v) PROVE List!Next
  BY <1>1, <1>2, <1>4, AddsOne DEF List!Next
<1>5. ASSUME NEW tag \in Range(TagOrder), Get(tag) PROVE List!Next
  BY <1>1, <1>2, <1>5, LooksOnly DEF List!Next
<1>6. ASSUME NEW tag \in Range(TagOrder), RemoveTag(tag) PROVE List!Next
  <2>1. List!RemoveTag(tag)
    BY <1>1, <1>2, <1>6, Removes
  <2>2. tag \in List!Range(TagOrder)
    BY DEF List!Range, Range
  <2> QED
    BY <2>1, <2>2 DEF List!Next
<1>7. CASE Poll
  BY <1>1, <1>2, <1>7, TakesOne DEF List!Next
<1>8. CASE PollLast
  BY <1>1, <1>2, <1>8, TakesOne DEF List!Next
<1>9. CASE Peek \/ PeekLast \/ Size \/ IterHasNext
  BY <1>1, <1>2, <1>9, LooksOnly DEF List!Next
<1>10. CASE Clear
  BY <1>1, <1>2, <1>10, Removes DEF List!Next
<1>11. CASE Sort
  BY <1>1, <1>2, <1>11, Sorts DEF List!Next
<1>12. CASE IterCreate \/ IterDestroy \/ IterNext
  BY <1>1, <1>2, <1>12, Iterates DEF List!Next
<1>13. CASE IterRemove
  BY <1>1, <1>2, <1>13, IterRemoves DEF List!Next
<1> QED
  BY <1>3, <1>4, <1>5, <1>6, <1>7, <1>8, <1>9, <1>10, <1>11, <1>12, <1>13 DEF Next

\* A new deque is the empty list.
LEMMA InitImplements == Init => List!Init
<1> SUFFICES ASSUME Init PROVE List!Init
  OBVIOUS
<1>1. q \in Deques /\ Chain(q, <<>>)
  BY InitLinked DEF DequeInv, Linked
<1>2. iter = NoIter /\ ret = <<>>
  BY DEF Init
<1>3. Contents = <<>>
  <2>1. Contents = Held(q, <<>>)
    BY <1>1, ViewsAre, ViewIs
  <2>2. Held(q, <<>>) = <<>>
    BY <1>1, EmptySeq, HeldAre
  <2> QED
    BY <2>1, <2>2
<1>4. Position = -1
  BY <1>2, ViewsAre, NoPlace
<1> QED
  BY <1>2, <1>3, <1>4 DEF List!Init, List!None

\* Whatever the calls and their order: every one of them does to the list, and returns,
\* what deque.h says, the sort with its loops and its calls of itself included, which is
\* stable and puts the elements without a tag last.
THEOREM ImplementsList == Spec => DequeRefinement
<1>1. Init => DequeInv
  BY InitLinked
<1>2. DequeInv /\ [Next]_vars => DequeInv'
  BY StepLinked
<1>3. DequeInv /\ [Next]_vars => [List!Next]_<<Contents, Position, ret>>
  BY StepImplements
<1>4. Init => List!Init
  BY InitImplements
<1> QED
  BY <1>1, <1>2, <1>3, <1>4, PTL DEF Spec, DequeRefinement, List!Spec

=============================================================================
