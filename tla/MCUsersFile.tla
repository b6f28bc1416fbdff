----------------------------- MODULE MCUsersFile -----------------------------
(* UsersFile on small instances. *)
EXTENDS UsersFile

\* The processes, the names and the passwords can be exchanged: no action orders
\* them or picks one of them.
Symmetry == Permutations(Procs) \union Permutations(Names)
=============================================================================
