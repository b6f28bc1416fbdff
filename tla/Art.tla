-------------------------------- MODULE Art --------------------------------
(* The adaptive radix tree of art.c.  A node is a value: Null, a leaf, or an *)
(* inner node with its kind, the length of its prefix, the part of the       *)
(* prefix it stores, its bytes in array order and its child for each byte.   *)
(* Depths count the bytes of the key that are used up.  The capacities 4, 16 *)
(* and 48, the numbers of children at which a node shrinks (3, 12, 37) and   *)
(* the length of a stored prefix (10) are parameters.                        *)
(* Callers do not insert into a tree, or delete from it by key, while an     *)
(* iterator is open on it.                                                   *)
EXTENDS Integers, Sequences, FiniteSets, SequencesExt

CONSTANTS Writes, Nothing, RemovesFirst, \* see ArtMap
          Undefined,  \* what is read through a pointer to freed memory
          MaxPrefix,  \* MAX_PREFIX_LEN
          Cap,        \* the capacity of each kind of node
          Low         \* a node with at most so many children becomes smaller

Keys   == {w[1] : w \in Writes}
Values == {w[2] : w \in Writes}

ASSUME ArtAssumption ==
  /\ MaxPrefix \in Nat
  /\ DOMAIN Cap = {4, 16, 48} /\ DOMAIN Low = {16, 48, 256}
  /\ 2 <= Low[16] /\ Low[16] <= Cap[4] /\ Low[48] <= Cap[16] /\ Low[256] <= Cap[48]
  /\ \A k \in Keys : k[Len(k)] = 0 /\ \A i \in 1 .. Len(k) - 1 : k[i] > 0

VARIABLES call,  \* the last call that may change something, with its key
          tree,  \* the root
          size,  \* the number of keys, as the code counts it
          iter   \* the iterator: open, the number of keys handed out, the
                 \* queue of references to nodes, the key it stands on, and,
                 \* for the properties, the keys handed out

artVars == <<call, tree, size, iter>>

Null  == [kind |-> 0]
Freed == [kind |-> -1]
IsLeaf(n) == n.kind = 1
Leaf(k, v) == [kind |-> 1, key |-> k, val |-> v]
Least(a, b) == IF a < b THEN a ELSE b

(* find_index: binary search for the last position whose byte is not greater. *)
RECURSIVE Bisect(_, _, _, _)
Bisect(ch, keys, left, right) ==
  IF left + 1 < right
  THEN LET mid == (left + right) \div 2
       IN  IF keys[mid] = ch THEN mid
           ELSE IF keys[mid] < ch THEN Bisect(ch, keys, mid, right)
           ELSE Bisect(ch, keys, left, mid)
  ELSE IF keys[right] <= ch THEN right
  ELSE IF keys[left] <= ch THEN left
  ELSE 0

FindIndex(ch, keys) == IF keys = <<>> THEN 0 ELSE Bisect(ch, keys, 1, Len(keys))

(* The bytes of a node are in array order for the two smaller kinds; the larger *)
(* ones are indexed by the byte, so that their order is that of the bytes.      *)
Indexed(kind) == kind \in {48, 256}

TopByte == Max(UNION {Range(k) : k \in Keys})
ByteSeq == [i \in 1 .. TopByte + 1 |-> i - 1]
ByByte(S) == SelectSeq(ByteSeq, LAMBDA b : b \in S)

(* node_get_child: the child for a byte, Null when there is none. *)
Child(n, ch) ==
  IF Indexed(n.kind) THEN IF ch \in DOMAIN n.sub THEN n.sub[ch] ELSE Null
  ELSE LET idx == FindIndex(ch, n.keys)
       IN  IF idx = 0 \/ n.keys[idx] # ch THEN Null ELSE n.sub[ch]

(* node_get_minimum *)
RECURSIVE Minimum(_)
Minimum(n) == IF IsLeaf(n) THEN n ELSE Minimum(n.sub[n.keys[1]])

(* How far a and b agree behind the first d bytes, up to max. *)
Common(a, b, d, max) ==
  Max({l \in 0 .. max : \A i \in 1 .. l : a[d + i] = b[d + i]})

Stored(n) == Least(n.plen, MaxPrefix)

CheckPrefixPartial(n, key, d) ==
  Max({l \in 0 .. Least(Stored(n), Len(key) - d) : \A i \in 1 .. l : key[d + i] = n.pre[i]})

CheckPrefix(n, key, d) ==
  LET len  == CheckPrefixPartial(n, key, d)
      leaf == Minimum(n)
  IN  IF len < MaxPrefix THEN len
      ELSE Max({len} \cup {Common(leaf.key, key, d, Least(Len(leaf.key), Len(key)) - d)})

Prefix(s, from, len) == SubSeq(s, from + 1, from + Least(len, MaxPrefix))

Node4(plen, pre) == [kind |-> 4, plen |-> plen, pre |-> pre, keys |-> <<>>, sub |-> <<>>]

(* The kinds above and below, with the header and the children copied. *)
Grow(n)   == LET k == IF n.kind = 4 THEN 16 ELSE IF n.kind = 16 THEN 48 ELSE 256
             IN  [n EXCEPT !.kind = k, !.keys = IF Indexed(k) THEN ByByte(Range(@)) ELSE @]
Shrink(n) == [n EXCEPT !.kind = IF n.kind = 256 THEN 48 ELSE IF n.kind = 48 THEN 16 ELSE 4]

(* node_add_child: a full node is first replaced by one of the next kind. *)
AddChild(node, ch, child) ==
  LET full == node.kind # 256 /\ Len(node.keys) = Cap[node.kind]
      n    == IF full THEN Grow(node) ELSE node
  IN  [n EXCEPT !.keys = IF Indexed(n.kind) THEN ByByte(Range(@) \cup {ch})
                         ELSE InsertAt(@, FindIndex(ch, @) + 1, ch),
                !.sub  = [b \in DOMAIN @ \cup {ch} |-> IF b = ch THEN child ELSE @[b]]]

(* mutant of Merge: the byte of the child is left out of the prefix. *)
MergeShort(n) ==
  LET child == n.sub[n.keys[1]]
      plen  == n.plen + child.plen
  IN  IF IsLeaf(child) THEN child
      ELSE [child EXCEPT !.plen = plen, !.pre = Prefix(n.pre \o @, 0, plen)]

(* A node with one child left is merged into it: its prefix, the child's byte *)
(* and the child's prefix, as much as is stored.                              *)
Merge(n) ==
  LET child == n.sub[n.keys[1]]
      plen  == n.plen + 1 + child.plen
  IN  IF IsLeaf(child) THEN child
      ELSE [child EXCEPT !.plen = plen,
                         !.pre  = Prefix(n.pre \o n.keys \o @, 0, plen)]

(* node_remove_child, with the replacement of the node by a smaller one. *)
RemoveChild(node, ch) ==
  LET n == [node EXCEPT !.keys = IF Indexed(node.kind) THEN ByByte(Range(@) \ {ch})
                                 ELSE RemoveAt(@, FindIndex(ch, @)),
                        !.sub  = [b \in DOMAIN @ \ {ch} |-> @[b]]]
  IN  IF n.kind = 4 THEN IF Len(n.keys) = 1 THEN Merge(n) ELSE n
      ELSE IF Len(n.keys) <= Low[n.kind] THEN Shrink(n) ELSE n

(* A leaf that is met by another key: both go below a new node. *)
SplitLeaf(leaf, d, key, val) ==
  LET len == Common(leaf.key, key, d, Least(Len(leaf.key), Len(key)) - d)
      new == Node4(len, Prefix(key, d, len))
  IN  AddChild(AddChild(new, key[d + len + 1], Leaf(key, val)), leaf.key[d + len + 1], leaf)

(* A node whose prefix the key leaves after len bytes goes below a new node. *)
(* The bytes of the prefix that are not stored are read from a leaf.         *)
SplitNode(n, d, key, val, len) ==
  LET least == Minimum(n).key
      plen  == n.plen - (len + 1)
      short == n.plen <= MaxPrefix
      byte  == IF short THEN n.pre[len + 1] ELSE least[d + len + 1]
      lower == [n EXCEPT !.plen = plen,
                         !.pre  = IF short THEN SubSeq(@, len + 2, Len(@))
                                  ELSE Prefix(least, d + len + 1, plen)]
      new   == Node4(len, Prefix(n.pre, 0, len))
  IN  AddChild(AddChild(new, key[d + len + 1], Leaf(key, val)), byte, lower)

(* art_node_insert: the node that takes n's place, and whether the key is new. *)
RECURSIVE InsertNode(_, _, _, _)
InsertNode(n, d, key, val) ==
  IF n = Null THEN [node |-> Leaf(key, val), new |-> TRUE]
  ELSE IF IsLeaf(n) THEN
    IF n.key = key THEN [node |-> Leaf(key, val), new |-> FALSE]
    ELSE [node |-> SplitLeaf(n, d, key, val), new |-> TRUE]
  ELSE LET len == CheckPrefix(n, key, d)
           at  == d + n.plen
           ch  == key[at + 1]
           sub == InsertNode(n.sub[ch], at + 1, key, val)
       IN  IF len < n.plen THEN [node |-> SplitNode(n, d, key, val, len), new |-> TRUE]
           ELSE IF Child(n, ch) = Null
                THEN [node |-> AddChild(n, ch, Leaf(key, val)), new |-> TRUE]
                ELSE [node |-> [n EXCEPT !.sub[ch] = sub.node], new |-> sub.new]

(* art_node_delete: the node that takes n's place, and whether a leaf went. *)
RECURSIVE DeleteNode(_, _, _)
DeleteNode(n, d, key) ==
  LET kept  == [node |-> n, found |-> FALSE]
      at    == d + n.plen
      ch    == key[at + 1]
      child == Child(n, ch)
      sub   == DeleteNode(child, at + 1, key)
  IN  IF n = Null THEN kept
      ELSE IF IsLeaf(n) THEN IF n.key = key THEN [node |-> Null, found |-> TRUE] ELSE kept
      ELSE IF CheckPrefixPartial(n, key, d) # Stored(n) \/ at >= Len(key) \/ child = Null
           THEN kept
      ELSE IF ~IsLeaf(child)
           THEN [node |-> [n EXCEPT !.sub[ch] = sub.node], found |-> sub.found]
      ELSE IF child.key = key THEN [node |-> RemoveChild(n, ch), found |-> TRUE]
      ELSE kept

(* art_search *)
RECURSIVE SearchNode(_, _, _)
SearchNode(n, d, key) ==
  IF n = Null THEN Nothing
  ELSE IF IsLeaf(n) THEN IF n.key = key THEN n.val ELSE Nothing
  ELSE IF CheckPrefixPartial(n, key, d) # Stored(n) \/ d + n.plen >= Len(key) THEN Nothing
  ELSE SearchNode(Child(n, key[d + n.plen + 1]), d + n.plen + 1, key)

(* art_node_iterate: the leaves in the order of the walk. *)
RECURSIVE LeavesOf(_)
LeavesOf(n) ==
  IF n = Null THEN <<>> ELSE IF IsLeaf(n) THEN <<n>>
  ELSE FlattenSeq([i \in 1 .. Len(n.keys) |-> LeavesOf(n.sub[n.keys[i]])])

Take(s, n) == SubSeq(s, 1, Least(n, Len(s)))
Begins(k, p) == Len(p) <= Len(k) /\ SubSeq(k, 1, Len(p)) = p

(* pgvictoria_art_prefix_search below the root: a node is walked when the     *)
(* prefix is used up in it and its first leaf has the prefix.                 *)
RECURSIVE PrefixNode(_, _, _)
PrefixNode(n, d, p) ==
  IF n = Null THEN <<>>
  ELSE IF IsLeaf(n) THEN IF Begins(n.key, p) THEN <<n>> ELSE <<>>
  ELSE LET cpl == CheckPrefixPartial(n, p, d)
           at  == d + n.plen
       IN  IF cpl < Stored(n) /\ d + cpl < Len(p) THEN <<>>
           ELSE IF at < Len(p) THEN PrefixNode(Child(n, p[at + 1]), at + 1, p)
           ELSE IF Begins(Minimum(n).key, p) THEN LeavesOf(n) ELSE <<>>

KeysOf(leaves) == [i \in 1 .. Len(leaves) |-> leaves[i].key]

(* mutant of PrefixSearch: one match more than asked for. *)
PrefixSearchMore(p, max) ==
  IF tree = Null THEN Nothing
  ELSE KeysOf(Take(IF p = <<>> THEN LeavesOf(tree) ELSE PrefixNode(tree, 0, p), max + 1))

(* pgvictoria_art_search and pgvictoria_art_prefix_search. *)
Search(k) == SearchNode(tree, 0, k)
PrefixSearch(p, max) ==
  IF tree = Null THEN Nothing
  ELSE KeysOf(Take(IF p = <<>> THEN LeavesOf(tree) ELSE PrefixNode(tree, 0, p), max))

(* The renderings count the entries to know where a separator follows. *)
Rendered ==
  LET s == LeavesOf(tree)
  IN  [i \in 1 .. Len(s) |-> [key |-> s[i].key, val |-> s[i].val, sep |-> i < size]]

Closed == [open |-> FALSE, count |-> 0, que |-> <<>>, at |-> Nothing, seen |-> {}]

ArtInit == call = <<"create">> /\ tree = Null /\ size = 0 /\ iter = Closed

Insert(k, v) ==
  /\ ~iter.open
  /\ call' = <<"insert", k, v>>
  /\ LET r == InsertNode(tree, 0, k, v)
     IN  tree' = r.node /\ size' = IF r.new THEN size + 1 ELSE size
  /\ UNCHANGED iter

(* pgvictoria_art_delete, also on behalf of the iterator. *)
DeleteKey(k) ==
  LET r == DeleteNode(tree, 0, k)
  IN  tree' = r.node /\ size' = IF r.found THEN size - 1 ELSE size

Delete(k) == ~iter.open /\ call' = <<"delete", k>> /\ DeleteKey(k) /\ UNCHANGED iter

Clear ==
  /\ ~iter.open
  /\ call' = <<"clear">>
  /\ tree' = Null
  /\ size' = 0
  /\ UNCHANGED iter

(* A reference to a node: a leaf by its key, an inner node by its kind and the *)
(* bytes that all its leaves share.  A node keeps them until it is freed.      *)
Ref(n, path) == [kind |-> n.kind, path |-> path]

RECURSIVE Nodes(_, _)
Nodes(n, d) ==
  IF n = Null THEN {} ELSE IF IsLeaf(n) THEN {<<Ref(n, n.key), n>>}
  ELSE {<<Ref(n, SubSeq(Minimum(n).key, 1, d + n.plen)), n>>}
       \cup UNION {Nodes(n.sub[ch], d + n.plen + 1) : ch \in DOMAIN n.sub}

RefOf(n) == (CHOOSE x \in Nodes(tree, 0) : x[2] = n)[1]

(* The queue is worked off until a leaf comes out; what was freed since it was *)
(* queued cannot be looked at.                                                 *)
RECURSIVE Dequeue(_)
Dequeue(que) ==
  IF que = <<>> THEN [leaf |-> Null, que |-> <<>>]
  ELSE LET alive == {x \in Nodes(tree, 0) : x[1] = Head(que)}
           n     == (CHOOSE x \in alive : TRUE)[2]
       IN  IF alive = {} THEN [leaf |-> Freed, que |-> Tail(que)]
           ELSE IF IsLeaf(n) THEN [leaf |-> n, que |-> Tail(que)]
           ELSE Dequeue(Tail(que) \o [i \in 1 .. Len(n.keys) |-> RefOf(n.sub[n.keys[i]])])

IteratorCreate ==
  /\ ~iter.open
  /\ call' = <<"iterator_create">>
  /\ iter' = [Closed EXCEPT !.open = TRUE]
  /\ UNCHANGED <<tree, size>>

(* As long as nothing has been handed out the root is put into the queue. *)
IteratorNext ==
  /\ iter.open
  /\ call' = <<"iterator_next">>
  /\ LET r == Dequeue(IF iter.count = 0 THEN Append(iter.que, RefOf(tree)) ELSE iter.que)
     IN  iter' = IF iter.count = size THEN iter
                 ELSE IF r.leaf = Null THEN [iter EXCEPT !.que = <<>>]
                 ELSE IF r.leaf = Freed THEN [iter EXCEPT !.que = r.que, !.at = Undefined]
                 ELSE [iter EXCEPT !.count = @ + 1, !.que = r.que,
                                   !.at = r.leaf.key, !.seen = @ \cup {r.leaf.key}]
  /\ UNCHANGED <<tree, size>>

IteratorHasNext == iter.count < size

(* mutant of IteratorRemove: the count of keys handed out is kept. *)
IteratorRemoveCounted ==
  /\ iter.open
  /\ call' = <<"iterator_remove">>
  /\ iter.at \notin {Nothing, Undefined}
  /\ RemovesFirst \/ iter.count > 1
  /\ DeleteKey(iter.at)
  /\ iter' = [iter EXCEPT !.at = Nothing, !.seen = @ \ {iter.at}]

IteratorRemove ==
  /\ iter.open
  /\ call' = <<"iterator_remove">>
  /\ iter.at \notin {Nothing, Undefined}
  /\ RemovesFirst \/ iter.count > 1
  /\ DeleteKey(iter.at)
  /\ iter' = [iter EXCEPT !.count = @ - 1, !.at = Nothing, !.seen = @ \ {iter.at}]

IteratorDestroy ==
  /\ iter.open
  /\ call' = <<"iterator_destroy">>
  /\ iter' = Closed
  /\ UNCHANGED <<tree, size>>

ArtNext ==
  \/ \E w \in Writes : Insert(w[1], w[2])
  \/ \E k \in Keys : Delete(k)
  \/ Clear \/ IteratorCreate \/ IteratorNext \/ IteratorRemove \/ IteratorDestroy

ArtSpec == ArtInit /\ [][ArtNext]_artVars

-----------------------------------------------------------------------------
(* The shape of every inner node on a path of d bytes: its kind fits its number *)
(* of children, its bytes are in order, every leaf below it shares its whole    *)
(* prefix, of which it stores the first bytes, and sits below its own byte.     *)
NodeOK(n, d) ==
  LET kids   == Len(n.keys)
      leaves == Range(LeavesOf(n))
  IN  /\ DOMAIN n.sub = Range(n.keys)
      /\ \A i \in 1 .. kids - 1 : n.keys[i] < n.keys[i + 1]
      /\ kids >= IF n.kind = 4 THEN 2 ELSE Low[n.kind] + 1
      /\ n.kind # 256 => kids <= Cap[n.kind]
      /\ Len(n.pre) = Stored(n)
      /\ \A l \in leaves : Len(l.key) > d + n.plen /\ SubSeq(l.key, d + 1, d + Len(n.pre)) = n.pre
      /\ \A l, m \in leaves : SubSeq(l.key, 1, d + n.plen) = SubSeq(m.key, 1, d + n.plen)
      /\ \A ch \in DOMAIN n.sub : \A l \in Range(LeavesOf(n.sub[ch])) : l.key[d + n.plen + 1] = ch

RECURSIVE AllNodesOK(_, _)
AllNodesOK(n, d) ==
  n = Null \/ IsLeaf(n)
  \/ /\ NodeOK(n, d)
     /\ \A ch \in DOMAIN n.sub : AllNodesOK(n.sub[ch], d + n.plen + 1)

(* The tree keeps the shape that search, deletion and the walk rely on, it     *)
(* counts its keys, and what an open iterator has queued has not been freed    *)
(* (node_add_child, node_remove_child, the splits of art_node_insert).         *)
WellFormed ==
  /\ AllNodesOK(tree, 0)
  /\ size = Len(LeavesOf(tree))
  /\ iter.open /\ iter.count < size =>
       Range(iter.que) \subseteq {x[1] : x \in Nodes(tree, 0)}

Content == {<<l.key, l.val>> : l \in Range(LeavesOf(tree))}

Map == INSTANCE ArtMap WITH
  dict <- Content, cursor <- [open |-> iter.open, seen |-> iter.seen, at |-> iter.at]

(* Inserting and deleting, and removing through an iterator, change the keys   *)
(* as they change an ordered map, and an iterator hands out what it has not    *)
(* handed out before, however nodes have grown, shrunk, split and merged.      *)
MapRefinement == Map!MapSpec
=============================================================================
