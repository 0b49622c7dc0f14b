----------------------------- MODULE LocalPaths -----------------------------
(***************************************************************************)
(* Keys and paths of the local backend (src/local.rs).                     *)
(*                                                                         *)
(* A key is the sequence of components that Path::components() yields for  *)
(* it: ordinary names, and the special components ".", ".." and "/".  A    *)
(* path is the sequence of names from the storage root down, so <<>> is    *)
(* the root itself.                                                        *)
(***************************************************************************)
EXTENDS TreePaths

CONSTANT PathPrefix       \* StorageConfig::path_prefix as a key, <<>> for None

CurDir == "."
ParentDir == ".."
RootDir == "/"

(* normalize_relative: "." is dropped, everything else is kept in order.   *)
Normalize(key) == SelectSeq(key, LAMBDA part : part # CurDir)

(* validate_relative succeeds: nothing climbs, nothing is absolute, and    *)
(* something is left after normalization.                                  *)
IsRelative(key) ==
    /\ \A n \in DOMAIN key : key[n] \notin {ParentDir, RootDir}
    /\ Normalize(key) # <<>>

ASSUME PathPrefixAssumption == PathPrefix = <<>> \/ IsRelative(PathPrefix)

(* full_path: root, then the configured prefix, then the key.              *)
FullPath(key) == Normalize(PathPrefix) \o Normalize(key)
=============================================================================
