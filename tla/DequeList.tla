------------------------------ MODULE DequeList ------------------------------
(***************************************************************************)
(* What deque.h promises: a list of tagged values, with a cursor that      *)
(* stands before the first element or on one of them.  ret is the last     *)
(* call, its argument and what it returned.                                *)
(***************************************************************************)
EXTENDS Integers, Sequences, SequencesExt

CONSTANTS Elements,     \* the tagged values, records with a tag
          TagOrder,     \* the tags in their order, the NULL tag last
          NoTag         \* the NULL tag, which finds nothing

VARIABLES list, cursor, ret

None == -1        \* no iterator
Past == -2        \* the iterator has said that there is no next element

Init == list = <<>> /\ cursor = None /\ ret = <<>>

\* The elements of l that are in S, in their order.
Chosen(l, S) == FlattenSeq([i \in DOMAIN l |-> IF l[i] \in S THEN <<l[i]>> ELSE <<>>])

With(tag) == Chosen(list, {e \in Elements : e.tag = tag /\ tag # NoTag})
Without(tag) == Chosen(list, {e \in Elements : e.tag # tag \/ tag = NoTag})
FirstOf(l) == IF l = <<>> THEN <<>> ELSE <<Head(l)>>
LastOf(l) == IF l = <<>> THEN <<>> ELSE <<Last(l)>>

Tells(op, what) == ret' = <<op, what>>

Add(e) == Tells("void", <<>>) /\ UNCHANGED cursor /\ list' = Append(list, e)

\* What reorders or removes elements, when no iterator is open.
Becomes(l) == cursor = None /\ UNCHANGED cursor /\ list' = l

Poll == Tells("poll", FirstOf(list)) /\ Becomes(IF list = <<>> THEN list ELSE Tail(list))
PollLast == Tells("pollLast", LastOf(list)) /\ Becomes(IF list = <<>> THEN list ELSE Front(list))
RemoveTag(tag) == Tells("remove", <<tag, Len(With(tag))>>) /\ Becomes(Without(tag))
Clear == Tells("void", <<>>) /\ Becomes(<<>>)

\* Stable, in the order of the tags.
Sort ==
  /\ Tells("void", <<>>)
  /\ Becomes(FlattenSeq([i \in DOMAIN TagOrder |->
                           Chosen(list, {e \in Elements : e.tag = TagOrder[i]})]))

Look ==
  /\ \/ Tells("size", <<Len(list)>>)
     \/ Tells("peek", FirstOf(list))
     \/ Tells("peekLast", LastOf(list))
     \/ \E tag \in Range(TagOrder) : Tells("get", <<tag, FirstOf(With(tag))>>)
     \/ cursor # None /\ Tells("hasNext", <<cursor \in 0 .. Len(list) - 1>>)
  /\ UNCHANGED <<list, cursor>>

IterCreate == Tells("void", <<>>) /\ cursor = None /\ cursor' = 0 /\ UNCHANGED list

IterNext ==
  /\ cursor # None
  /\ IF cursor \in 0 .. Len(list) - 1
     THEN Tells("next", <<list[cursor + 1]>>) /\ cursor' = cursor + 1
     ELSE Tells("next", <<>>) /\ cursor' = Past
  /\ UNCHANGED list

\* The element goes, and the cursor stands on the one before.
IterRemove ==
  /\ Tells("void", <<>>)
  /\ cursor # None
  /\ IF cursor \in DOMAIN list
     THEN cursor' = cursor - 1 /\ list' = RemoveAt(list, cursor)
     ELSE UNCHANGED <<list, cursor>>

IterDestroy == Tells("void", <<>>) /\ cursor # None /\ cursor' = None /\ UNCHANGED list

Next ==
  \/ Look \/ IterCreate \/ IterDestroy \/ IterNext \/ IterRemove
  \/ Poll \/ PollLast \/ Clear \/ Sort
  \/ \E tag \in Range(TagOrder) : RemoveTag(tag)
  \/ \E e \in Elements : Add(e)

Spec == Init /\ [][Next]_<<list, cursor, ret>>
=============================================================================
