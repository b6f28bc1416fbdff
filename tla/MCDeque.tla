------------------------------- MODULE MCDeque -------------------------------
(* Deque on small instances. *)
EXTENDS Deque

OneTag == <<"a">>

\* One element is told from the others: enough to see where each goes.
OneMarked == Cardinality({a \in q.live : q.holds[a].val = "y"}) <= 1
=============================================================================
