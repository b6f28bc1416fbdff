------------------------------- MODULE ArtMap -------------------------------
(* What art.h promises: an ordered map from keys to values, and an iterator *)
(* that hands out every key once and can remove the one it stands on.       *)
(* A key is a sequence of bytes that ends with the terminator 0, so that no *)
(* key is a prefix of another.                                              *)
EXTENDS Integers, Sequences, FiniteSets

CONSTANTS
  Writes,      \* the pairs of a key and a value that callers insert
  Nothing,     \* no key, no value, no answer
  RemovesFirst \* do callers remove the first key an iterator hands out?

VARIABLES call,   \* the last call that may change something, with its key
          dict,   \* the map, a set of pairs of a key and its value
          cursor  \* the iterator: is it open, the keys it has handed out that
                  \* are still there, the key it stands on

mapVars == <<call, dict, cursor>>

Closed == [open |-> FALSE, seen |-> {}, at |-> Nothing]

Keys == {e[1] : e \in dict}

Lookup(k) == IF \E e \in dict : e[1] = k THEN (CHOOSE e \in dict : e[1] = k)[2] ELSE Nothing

(* Byte-wise order of keys, none of which is a prefix of another. *)
Before(a, b) ==
  \E i \in 1 .. Len(a) :
    /\ i <= Len(b)
    /\ a[i] < b[i]
    /\ \A j \in 1 .. i - 1 : a[j] = b[j]

StartsWith(k, p) == Len(p) <= Len(k) /\ \A i \in 1 .. Len(p) : k[i] = p[i]

(* s lists the keys in S in order. *)
Lists(s, S) ==
  /\ {s[i] : i \in DOMAIN s} = S
  /\ \A i, j \in DOMAIN s : i < j => Before(s[i], s[j])

(* s is the n least keys with prefix p, or all of them when there are fewer. *)
Matches(s, p, n) ==
  LET found == {k \in Keys : StartsWith(k, p)}
      taken == {s[i] : i \in DOMAIN s}
  IN  /\ Len(s) = IF n < Cardinality(found) THEN n ELSE Cardinality(found)
      /\ taken \subseteq found
      /\ Lists(s, taken)
      /\ \A k \in taken, o \in found \ taken : Before(k, o)

Rest == Keys \ cursor.seen

MapInit == call = <<"create">> /\ dict = {} /\ cursor = Closed

Without(k) == {e \in dict : e[1] # k}

Put(k, v) ==
  /\ call' = <<"insert", k, v>>
  /\ ~cursor.open
  /\ dict' = Without(k) \cup {<<k, v>>}
  /\ UNCHANGED cursor

Drop(k) ==
  /\ call' = <<"delete", k>>
  /\ ~cursor.open
  /\ dict' = Without(k)
  /\ UNCHANGED cursor

DropAll ==
  /\ call' = <<"clear">>
  /\ ~cursor.open
  /\ dict' = {}
  /\ UNCHANGED cursor

Open ==
  /\ call' = <<"iterator_create">>
  /\ ~cursor.open
  /\ cursor' = [Closed EXCEPT !.open = TRUE]
  /\ UNCHANGED dict

Advance ==
  /\ call' = <<"iterator_next">>
  /\ cursor.open
  /\ IF Rest = {} THEN UNCHANGED cursor
     ELSE \E k \in Rest : cursor' = [cursor EXCEPT !.seen = @ \cup {k}, !.at = k]
  /\ UNCHANGED dict

Remove ==
  /\ call' = <<"iterator_remove">>
  /\ cursor.open
  /\ cursor.at # Nothing
  /\ RemovesFirst \/ Cardinality(cursor.seen) > 1
  /\ dict' = Without(cursor.at)
  /\ cursor' = [cursor EXCEPT !.seen = @ \ {cursor.at}, !.at = Nothing]

Close ==
  /\ call' = <<"iterator_destroy">>
  /\ cursor.open
  /\ cursor' = Closed
  /\ UNCHANGED dict

MapNext ==
  \/ \E w \in Writes : Put(w[1], w[2]) \/ Drop(w[1])
  \/ DropAll \/ Open \/ Advance \/ Remove \/ Close

MapSpec == MapInit /\ [][MapNext]_mapVars
=============================================================================
