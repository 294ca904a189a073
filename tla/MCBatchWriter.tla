--------------------------- MODULE MCBatchWriter ---------------------------
(* Two nodes that exist and are connected one way, and three identities of  *)
(* two properties: "a" and "", and "" and "a", which have one node key; and *)
(* "a" and "a", which is a node of its own, but from it to another and from *)
(* the other to it are relationships with one key.                          *)
EXTENDS BatchWriter

Identities == {<<<<"a">>, <<>>>>, <<<<>>, <<"a">>>>, <<<<"a">>, <<"a">>>>}
OneEdge == {<<1, 2>>}
=============================================================================
