----------------------------- MODULE UsersStore -----------------------------
(***************************************************************************)
(* What pgvictoria-admin promises about pgvictoria_users.conf, with no     *)
(* files in it: a table that gives every user name its encrypted           *)
(* passwords, in the order in which they were entered, and three           *)
(* operations on it, each of which happens at once or not at all.          *)
(*                                                                         *)
(* A name can own more than one password only because `user add` without   *)
(* -U does not look for the name it prompts for.                           *)
(***************************************************************************)
EXTENDS Naturals, Sequences, FiniteSets

CONSTANTS Names,            \* user names
          Credentials,      \* encrypted passwords
          Unique,           \* TRUE: names are always given with -U
          NUMBER_OF_USERS   \* the capacity of the table

VARIABLE store

Owners == {u \in Names : store[u] # <<>>}

Init == /\ store \in [Names -> Seq(Credentials)]
        /\ Cardinality(Owners) <= NUMBER_OF_USERS

Add(u, c) ==
  /\ Unique => u \notin Owners
  /\ Cardinality(Owners) < NUMBER_OF_USERS
  /\ store' = [store EXCEPT ![u] = Append(@, c)]

\* Every password of the user is replaced, the order of the entries stays.
Edit(u) ==
  /\ u \in Owners
  /\ \E cs \in [DOMAIN store[u] -> Credentials] :
       store' = [store EXCEPT ![u] = cs]

Del(u) ==
  /\ u \in Owners
  /\ store' = [store EXCEPT ![u] = <<>>]

Next == \E u \in Names :
          \/ \E c \in Credentials : Add(u, c)
          \/ Edit(u) \/ Del(u)

Spec == Init /\ [][Next]_store
=============================================================================
