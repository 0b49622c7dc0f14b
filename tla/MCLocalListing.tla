--------------------------- MODULE MCLocalListing ---------------------------
(* Small instances of LocalListing for TLC.                                *)
EXTENDS LocalListing

(* Below a path prefix, names 1 < 2 < 3, say "a" < "a.txt" < "b": below    *)
(* directory 1 and beside it, where the order of the walk and that of the  *)
(* key's bytes differ, and 1 itself, an object or a directory of others.   *)
SomeRoot == <<1>>
SomeObjects == {<<1, 1>>, <<1, 1, 1>>, <<1, 1, 3>>, <<1, 2>>, <<1, 3>>}
SomeMatching == SomeObjects \ {<<1, 2>>}
=============================================================================
