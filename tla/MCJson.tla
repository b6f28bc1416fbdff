------------------------------- MODULE MCJson -------------------------------
(* Json with two handles, two keys and the empty string, and values that the text *)
(* must escape, that have a sign or a point, and that their type cuts.             *)
EXTENDS Json, TLC

Symmetry == Permutations(Handles)

A == <<"a">>
B == <<"b">>
MCKeyOrder == <<A, B, <<>>>>
MCKeys == {A, B, <<>>}
MCScalars == {<<"string", <<>>>>, <<"string", <<"\"", "nl", "\\">>>>,
              <<"int", "int8", 200>>, <<"int", "uint8", 300>>, <<"double", <<"1", ".", "5">>>>}
=============================================================================
