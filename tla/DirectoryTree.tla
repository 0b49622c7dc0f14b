--------------------------- MODULE DirectoryTree ----------------------------
(***************************************************************************)
(* What the local backend does to the directory tree, without its calls:   *)
(* directories appear and stay, files appear where nothing was and go      *)
(* away, links are left alone.  LocalStorage implements this; LocalListing *)
(* takes it as the world that a listing walks through.                     *)
(***************************************************************************)
EXTENDS TreePaths

CONSTANTS
    Objects,                  \* the paths that keys name
    Absent, Dir, Link, File   \* what a path may be

ASSUME DirectoryTreeAssumption ==
    /\ Absent \notin {Dir, Link, File}
    /\ Dir \notin {Link, File}
    /\ Link # File

VARIABLE tree

Paths == UNION {UpTo(p) : p \in Objects}

Rooted == \A p \in Paths :
    tree[p] # Absent => \A q \in Ancestors(p) : tree[q] = Dir

Init == tree \in [Paths -> {Absent, Dir, Link, File}] /\ Rooted

(* create_dir_all for an object: all of the directories on its path, or    *)
(* those down to some point if it fails.                                   *)
MakeDirs(dirs) ==
    /\ \A q \in dirs : tree[q] \in {Dir, Absent}
    /\ tree' = [q \in Paths |-> IF q \in dirs THEN Dir ELSE tree[q]]

AddFile(p) ==
    /\ tree[p] = Absent
    /\ \A q \in Ancestors(p) : tree[q] = Dir
    /\ tree' = [tree EXCEPT ![p] = File]

RemoveFile(p) ==
    /\ tree[p] = File
    /\ tree' = [tree EXCEPT ![p] = Absent]

Next ==
    \/ \E p \in Objects : AddFile(p) \/ RemoveFile(p)
    \/ \E q \in Paths : MakeDirs(Ancestors(q))

Spec == Init /\ [][Next]_tree
=============================================================================
