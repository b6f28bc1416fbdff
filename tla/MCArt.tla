-------------------------------- MODULE MCArt --------------------------------
(* Five keys of one byte fill the root up to its largest kind; the others share *)
(* prefixes of two and three bytes below byte 6, longer than what is stored.    *)
EXTENDS Art

MCWrites == {<<k, "v">> : k \in {<<1, 0>>, <<2, 0>>, <<3, 0>>, <<4, 0>>, <<5, 0>>,
                                <<6, 1, 1, 1, 0>>, <<6, 1, 1, 2, 0>>, <<6, 1, 2, 0>>}}
            \cup {<<<<6, 1, 1, 1, 0>>, "w">>}
MCCap    == (4 :> 3) @@ (16 :> 4) @@ (48 :> 5)
MCLow    == (16 :> 2) @@ (48 :> 3) @@ (256 :> 4)

Sought == {<<>>, <<3>>, <<6>>, <<6, 1>>, <<6, 2, 1>>, <<6, 1, 1, 1, 1>>}

(* Every search, every search by prefix with a limit, a rendering and the      *)
(* iterator's question for more answer what the map holds, in byte order, also *)
(* where the stored part of a prefix does not decide                           *)
(* (art_search, pgvictoria_art_prefix_search, to_json_string).                 *)
Answers ==
  /\ \A k \in Keys : Search(k) = Map!Lookup(k)
  /\ \A p \in Sought, n \in {2, 9} :
       IF tree = Null THEN PrefixSearch(p, n) = Nothing
       ELSE Map!Matches(PrefixSearch(p, n), p, n)
  /\ Map!Lists([i \in DOMAIN Rendered |-> Rendered[i].key], Map!Keys)
  /\ \A i \in DOMAIN Rendered : Rendered[i].val = Map!Lookup(Rendered[i].key)
                                /\ Rendered[i].sep = (i < Len(Rendered))
  /\ iter.open => (IteratorHasNext <=> Map!Rest # {})
=============================================================================
