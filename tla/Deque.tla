-------------------------------- MODULE Deque --------------------------------
(***************************************************************************)
(* deque.c: the doubly linked list with two sentinel nodes, its iterator   *)
(* and its merge sort, pointer by pointer, used by one thread.  Freed      *)
(* nodes are wiped, so that nothing can be read from one, and allocated    *)
(* again, the lowest free address first.                                   *)
(*                                                                         *)
(* Bound: Nodes, the elements a deque may have at a time.                  *)
(***************************************************************************)
EXTENDS Integers, Sequences, FiniteSets, SequencesExt

CONSTANTS Nodes,        \* addresses of nodes
          Values,
          Tags,         \* a sequence: the tags in the order of strcmp
          NoTag         \* the NULL tag

ASSUME DequeAssumption ==
  /\ Nodes \subseteq Nat \ {0} /\ IsFiniteSet(Nodes)
  /\ Tags \in Seq(Range(Tags)) /\ IsInjective(Tags) /\ NoTag \notin Range(Tags)
  /\ Values # {}

VARIABLES
  q,      \* the deque: next, prev, what a node holds, the live nodes and size
  iter,   \* the node the iterator stands on, or none
  ret     \* the last call that returns something, and what it returned

vars == <<q, iter, ret>>

NULL == 0
Start == -1
End == -2
NoIter == -3

Addresses == Nodes \union {Start, End}
TagOrder == Append(Tags, NoTag)
Pointers == Addresses \union {NULL}
Elements == [tag : Range(TagOrder), val : Values]

Deques == [next : [Addresses -> Pointers], prev : [Addresses -> Pointers],
           holds : [Nodes -> Elements], live : SUBSET Nodes, size : Nat]

\* No loop has more rounds than there are nodes.
Rounds == Cardinality(Nodes)

Wiped == CHOOSE e \in Elements : TRUE

\* deque_create
Init ==
  /\ q = [next |-> [a \in Addresses |-> IF a = Start THEN End ELSE NULL],
          prev |-> [a \in Addresses |-> IF a = End THEN Start ELSE NULL],
          holds |-> [a \in Nodes |-> Wiped],
          live |-> {}, size |-> 0]
  /\ iter = NoIter
  /\ ret = <<>>

Tells(op, what) == ret' = <<op, what>>
Element(a) == IF a = NULL THEN <<>> ELSE <<q.holds[a]>>

-----------------------------------------------------------------------------
(* Helpers of deque.c, on a deque d. *)

\* a and b become neighbours.
Link(d, a, b) == [d EXCEPT !.next[a] = b, !.prev[b] = a]

DequeNext(d, a) ==
  IF d.size = 0 \/ a = NULL \/ d.next[a] = End THEN NULL ELSE d.next[a]

\* A loop: n rounds of its body, a function that does nothing more when the loop has ended.
Iterate(body, x, n) ==
  LET after[i \in Nat] == IF i = 0 THEN x ELSE body[after[i - 1]]
  IN  after[n]

\* deque_find
Find(d, tag) ==
  IF tag = NoTag THEN NULL
  ELSE Iterate([n \in Pointers |-> IF n = NULL \/ d.holds[n].tag = tag THEN n ELSE DequeNext(d, n)],
               DequeNext(d, Start), Rounds)

\* deque_node_destroy
Free(d, a) ==
  [d EXCEPT !.live = @ \ {a}, !.next[a] = NULL, !.prev[a] = NULL, !.holds[a] = Wiped]

\* The node leaves the list and is freed.
Unlink(d, a) ==
  [Free(Link(d, d.prev[a], d.next[a]), a) EXCEPT !.size = @ - 1]

\* Mutant of RemoveRound: the iterator goes on from the node behind the removed one.
RemoveSkipping(x, n, S) ==
  IF n = NULL THEN x
  ELSE IF n \in S THEN [d |-> Unlink(x.d, n), at |-> x.d.next[n]]
  ELSE [x EXCEPT !.at = n]

\* iterator_next, and iterator_remove of what is in S, after which the iterator stands on
\* the node before.
RemoveRound(x, n, S) ==
  IF n = NULL THEN x
  ELSE IF n \in S THEN [d |-> Unlink(x.d, n), at |-> x.d.prev[n]]
  ELSE [x EXCEPT !.at = n]

\* The loop of deque_remove(tag) and clear.
RemoveFrom(d, S) ==
  Iterate([x \in [d : Deques, at : Pointers] |-> RemoveRound(x, DequeNext(x.d, x.at), S)],
          [d |-> d, at |-> Start], Rounds).d

-----------------------------------------------------------------------------
(* The merge sort, between NULL-terminated lists. *)

Rank(tag) == CHOOSE i \in DOMAIN TagOrder : TagOrder[i] = tag

\* Mutant of NotAfter: equal tags are taken from the right.
Before(d, a, b) == Rank(d.holds[a].tag) < Rank(d.holds[b].tag)

\* tag_compare(a, b) <= 0: NULL is the last tag.
NotAfter(d, a, b) == Rank(d.holds[a].tag) <= Rank(d.holds[b].tag)

\* get_middle: the slow pointer and the fast one.
Middle(d, a) ==
  Iterate([p \in Pointers \X Pointers |->
             IF p[2] = NULL \/ d.next[p[2]] = NULL THEN p
             ELSE <<d.next[p[1]], d.next[d.next[p[2]]]>>],
          <<a, a>>, Rounds)[1]

\* Mutant of Behind: prev is not set.
ForwardOnly(d, node, n, other) ==
  LET e == IF node = NULL THEN [d EXCEPT !.prev[n] = NULL] ELSE [d EXCEPT !.next[node] = n]
  IN  IF other = NULL THEN e ELSE [e EXCEPT !.next[n] = NULL]

\* n is put behind node, the last one merged; other is the head of the other list.
Behind(d, node, n, other) ==
  LET e == IF node = NULL THEN [d EXCEPT !.prev[n] = NULL] ELSE Link(d, node, n)
  IN  IF other = NULL THEN e ELSE [e EXCEPT !.next[n] = NULL]

\* One node is merged, of the left list or of the right one.
MergeRound(x) ==
  IF x.left = NULL /\ x.right = NULL THEN x
  ELSE IF x.right = NULL \/ (x.left # NULL /\ NotAfter(x.d, x.left, x.right))
  THEN [d |-> Behind(x.d, x.node, x.left, x.right), node |-> x.left,
        left |-> x.d.next[x.left], right |-> x.right]
  ELSE [d |-> Behind(x.d, x.node, x.right, x.left), node |-> x.right,
        left |-> x.left, right |-> x.d.next[x.right]]

\* deque_merge
Merge(d, left, right) ==
  Iterate([x \in [d : Deques, node : Pointers, left : Pointers, right : Pointers] |-> MergeRound(x)],
          [d |-> d, node |-> NULL, left |-> left, right |-> right], Rounds).d

\* A list: the deque its nodes are in, and the first of them.
Lists == [d : Deques, first : Pointers]

\* The list is cut in front of mid.
Cut(d, mid) == [d EXCEPT !.prev[mid] = NULL, !.next[d.prev[mid]] = NULL]

Merged(l, r) ==
  [d |-> Merge(r.d, l.first, r.first),
   first |-> IF NotAfter(r.d, l.first, r.first) THEN l.first ELSE r.first]

\* deque_sort, whose calls of itself are sort.
SortHalves(sort, l, mid) == Merged(l, sort[[d |-> l.d, first |-> mid]])
SortAt(sort, x, mid) == SortHalves(sort, sort[[x EXCEPT !.d = Cut(x.d, mid)]], mid)
SortList(sort, x) ==
  IF x.first = NULL \/ x.d.next[x.first] = NULL THEN x
  ELSE SortAt(sort, x, Middle(x.d, x.first))

Sorted(x) ==
  LET sort[n \in Nat] == [y \in Lists |-> IF n = 0 THEN y ELSE SortList(sort[n - 1], y)]
  IN  sort[Rounds][x]

LastFrom(d, a) ==
  Iterate([n \in Pointers |-> IF d.next[n] = NULL THEN n ELSE d.next[n]], a, Rounds)

-----------------------------------------------------------------------------
(* The interface *)

\* deque_offer
Add(tag, v) ==
  /\ q.live # Nodes
  /\ LET n == CHOOSE a \in Nodes \ q.live : \A b \in Nodes \ q.live : a <= b
         d == [q EXCEPT !.holds[n] = [tag |-> tag, val |-> v],
                        !.live = @ \union {n}, !.size = @ + 1]
     IN  q' = Link(Link(d, d.prev[End], n), n, End)
  /\ Tells("void", <<>>)
  /\ UNCHANGED iter

\* A node taken from one of the two ends.
Take(op, end) ==
  /\ iter = NoIter
  /\ q' = IF q.size = 0 THEN q ELSE Unlink(q, end)
  /\ Tells(op, Element(IF q.size = 0 THEN NULL ELSE end))
  /\ UNCHANGED iter

Poll == Take("poll", q.next[Start])
PollLast == Take("pollLast", q.prev[End])

Look(op, what) == UNCHANGED <<q, iter>> /\ Tells(op, what)

Peek == Look("peek", Element(IF q.size = 0 THEN NULL ELSE q.next[Start]))
PeekLast == Look("peekLast", Element(IF q.size = 0 THEN NULL ELSE q.prev[End]))
Size == Look("size", <<q.size>>)

\* deque_get, and deque_exists when the element is what it finds.
Get(tag) == Look("get", <<tag, Element(Find(q, tag))>>)

RemoveTag(tag) ==
  /\ iter = NoIter
  /\ q' = IF tag = NoTag THEN q
          ELSE RemoveFrom(q, {n \in q.live : q.holds[n].tag = tag})
  /\ Tells("remove", <<tag, q.size - q'.size>>)
  /\ UNCHANGED iter

Clear ==
  /\ iter = NoIter
  /\ q' = RemoveFrom(q, q.live)
  /\ Tells("void", <<>>)
  /\ UNCHANGED iter

\* The list is cut off its sentinels, sorted, and put back between them.
Sort ==
  /\ iter = NoIter
  /\ IF q.size <= 1 THEN UNCHANGED q
     ELSE LET first == q.next[Start]
              last == q.prev[End]
              cut == [q EXCEPT !.prev = [@ EXCEPT ![first] = NULL, ![End] = NULL],
                               !.next = [@ EXCEPT ![last] = NULL, ![Start] = NULL]]
              s == Sorted([d |-> cut, first |-> first])
          IN  q' = Link(Link(s.d, Start, s.first), LastFrom(s.d, s.first), End)
  /\ Tells("void", <<>>)
  /\ UNCHANGED iter

IterCreate == iter = NoIter /\ iter' = Start /\ Tells("void", <<>>) /\ UNCHANGED q

IterNext ==
  /\ iter # NoIter
  /\ iter' = DequeNext(q, iter)
  /\ Tells("next", Element(iter'))
  /\ UNCHANGED q

IterHasNext == iter # NoIter /\ Look("hasNext", <<DequeNext(q, iter) # NULL>>)

\* Mutant of IterRemove: the iterator is left on the freed node.
IterRemoveStays ==
  /\ iter \in Nodes
  /\ q' = Unlink(q, iter)
  /\ Tells("void", <<>>)
  /\ UNCHANGED iter

IterRemove ==
  /\ iter # NoIter
  /\ Tells("void", <<>>)
  /\ IF iter \in Nodes THEN q' = Unlink(q, iter) /\ iter' = q.prev[iter]
     ELSE UNCHANGED <<q, iter>>

IterDestroy == iter # NoIter /\ iter' = NoIter /\ Tells("void", <<>>) /\ UNCHANGED q

Next ==
  \/ \E tag \in Range(TagOrder) :
       (\E v \in Values : Add(tag, v)) \/ Get(tag) \/ RemoveTag(tag)
  \/ Poll \/ PollLast \/ Peek \/ PeekLast \/ Size \/ Clear \/ Sort
  \/ IterCreate \/ IterNext \/ IterHasNext \/ IterRemove \/ IterDestroy

Spec == Init /\ [][Next]_vars

-----------------------------------------------------------------------------
(* Properties *)

\* The nodes from a on, along ptr.
Longer(s, a) == IF a \in Nodes THEN Append(s, a) ELSE s
Path(ptr, a) ==
  Iterate([s \in Seq(Nodes) |-> Longer(s, IF s = <<>> THEN a ELSE ptr[Last(s)])], <<>>, Rounds)

Forward == Path(q.next, q.next[Start])
Backward == Path(q.prev, q.prev[End])

\* The chain of next and the chain of prev hold the same nodes in opposite orders,
\* between the two sentinels, and these are the nodes in use, each once, as many as
\* size says: nothing is lost, freed while linked or linked twice.  An iterator stands on
\* a sentinel or on a node in use.
WellLinked ==
  /\ q.next \in [Addresses -> Addresses \union {NULL}]
  /\ q.prev \in [Addresses -> Addresses \union {NULL}]
  /\ iter \in Nodes => iter \in q.live
  /\ Backward = Reverse(Forward)
  /\ Range(Forward) = q.live
  /\ Len(Forward) = q.size /\ Cardinality(q.live) = q.size

Contents == LET f == Forward IN [i \in DOMAIN f |-> q.holds[f[i]]]

Position ==
  CASE iter = NoIter -> -1
    [] iter = NULL -> -2
    [] iter = Start -> 0
    [] OTHER -> LET f == Forward IN CHOOSE i \in DOMAIN f : f[i] = iter

List == INSTANCE DequeList WITH list <- Contents, cursor <- Position

\* Every call does to the list, and returns, what deque.h says.
DequeRefinement == List!Spec
=============================================================================
