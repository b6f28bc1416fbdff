------------------------------- MODULE MCAdmin -------------------------------
(* Admin on small instances. *)
EXTENDS Admin, TLC

CONSTANTS k1, k2, short, long

\* What is read of the long key is a key of its own, here one of the others.
MCReadBack == (long :> k1) @@ [k \in {k1, k2, short} |-> k]

Symmetry == Permutations(Names)
=============================================================================
