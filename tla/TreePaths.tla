----------------------------- MODULE TreePaths ------------------------------
(***************************************************************************)
(* Paths in a directory tree: sequences of names from the root, which is   *)
(* the empty path, down.                                                   *)
(***************************************************************************)
EXTENDS Naturals, Sequences

(* The directories a path goes through, the root included.                 *)
Ancestors(path) == {SubSeq(path, 1, n) : n \in 0 .. Len(path) - 1}

UpTo(path) == Ancestors(path) \cup {path}

(* One of the two paths lies on the way to the other.                      *)
Nested(p, q) == p \in UpTo(q) \/ q \in UpTo(p)
=============================================================================
