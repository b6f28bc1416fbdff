----------------------------- MODULE ConfigTable -----------------------------
(***************************************************************************)
(* What pgvictoria-config promises of a configuration file: sections that  *)
(* give values to keys, and four operations on them, each of which happens *)
(* at once or not at all.                                                  *)
(***************************************************************************)
CONSTANTS Sections, ConfKeys, Values, NoValue,
          MainSection,    \* the section init always writes
          Host            \* the key init gives a value in every section

VARIABLES present,        \* the sections of the file
          table           \* the values of their keys

tableVars == <<present, table>>

Contents == [Sections -> [ConfKeys -> Values \union {NoValue}]]

Set(s, k, v) ==
  /\ present' = present \union {s}
  /\ table' = [table EXCEPT ![s][k] = v]

DelKey(s, k) ==
  /\ table[s][k] # NoValue
  /\ table' = [table EXCEPT ![s][k] = NoValue]
  /\ UNCHANGED present

DelSection(s) ==
  /\ s \in present
  /\ present' = present \ {s}
  /\ table' = [table EXCEPT ![s] = [k \in ConfKeys |-> NoValue]]

\* A new file: the main section and those of the servers, all with a host.
Generate ==
  /\ present' \in {ss \in SUBSET Sections : MainSection \in ss}
  /\ table' \in {t \in Contents : \A s \in Sections, k \in ConfKeys :
                                    t[s][k] # NoValue <=> s \in present' /\ k = Host}
=============================================================================
