----------------------------- MODULE MCConfigFile -----------------------------
(* ConfigFile on small instances. *)
EXTENDS ConfigFile

KeyOf(k) == KeyLine(k, "v")

\* Two sections with comments and blank lines in every position that the insertion
\* of a key tells apart, and a section without keys at the end.
ProperFiles ==
  { <<TextLine("comment"), Header("main"), KeyOf("host"), TextLine("comment"),
      TextLine("blank"), Header("srv"), TextLine("blank")>>,
    <<Header("srv"), TextLine("blank"), KeyOf("host"), TextLine("blank"),
      Header("main")>>,
    <<TextLine("comment")>> }
=============================================================================
