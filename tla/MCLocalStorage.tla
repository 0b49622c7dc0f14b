--------------------------- MODULE MCLocalStorage ---------------------------
(* Small instances of LocalStorage for TLC.                                *)
EXTENDS LocalStorage, TLC

CONSTANTS i1, i2, i3, i4, i5, x, y

Symmetry == Permutations(Tasks)

NoPrefix == <<>>

kA   == <<"a">>
kDot == <<".", "a">>
kAB  == <<"a", "b">>
kC   == <<"c">>
kUp  == <<"..", "a">>
kL   == <<"l">>
kLX  == <<"l", "x">>
kH   == <<"h">>

Call(kind, key)      == [kind |-> kind, key |-> key, to |-> key, data |-> <<>>]
Move(kind, from, to) == [kind |-> kind, key |-> from, to |-> to, data |-> <<>>]
Put(key, data)       == [kind |-> "put", key |-> key, to |-> key, data |-> data]

(* A tree with the given directories, links and files over Paths, where    *)
(* files maps a path to <<inode, data>>.                                   *)
Layout(dirs, links, files) ==
    [tree |-> [p \in Paths |->
        CASE p \in DOMAIN files -> files[p][1]
          [] p \in links        -> Link
          [] p \in dirs         -> Dir
          [] OTHER              -> Absent],
     content |-> [i \in Inodes |->
        IF \E p \in DOMAIN files : files[p][1] = i
        THEN files[CHOOSE p \in DOMAIN files : files[p][1] = i][2]
        ELSE <<>>]]

NoFiles == [p \in {} |-> <<>>]

(* Two puts of different lengths, reads and deletes on one key, its alias  *)
(* "./a", a key below it and a key beside it; on a root that is not there, *)
(* on one object, and on a directory that has the key.                     *)
RaceCalls == {Put(kA, <<x, x>>), Put(kDot, <<y>>), Put(kAB, <<y>>),
              Call("get", kA), Call("delete", kA), Call("delete", kAB),
              Call("exists", kA), Call("head", kAB),
              Put(kA, <<x, x, x>>)}
RaceStores == {Layout({}, {}, NoFiles), Layout({<<>>}, {}, NoFiles),
               Layout({<<>>}, {}, (<<"a">> :> <<i1, <<x, x>> >>)),
               Layout({<<>>, <<"a">>}, {}, NoFiles)}

(* An object is copied one way between two keys and renamed the other,     *)
(* while one of them is stored anew.                                       *)
MoveCalls == {Move("copy", kA, kC), Move("rename", kC, kA),
              Put(kC, <<y>>)}
MoveStores == {Layout({<<>>}, {}, (<<"a">> :> <<i1, <<x, x>> >>))}

(* A symbolic link to a directory, one in a leaf, and a hard link, put     *)
(* under the root by its operator; keys that climb out or are absolute; a  *)
(* prefix in front of every key; and an object that is renamed onto        *)
(* another spelling of its key while it is stored anew and read.           *)
LinkPrefix == <<".", "p">>
LinkCalls == {Put(kLX, <<x>>), Call("get", kLX), Call("delete", kL),
              Put(kH, <<x>>), Call("get", kH), Put(kUp, <<x>>),
              Call("exists", <<"/", "a">>), Move("copy", kA, kH),
              Move("copy", kH, kA), Move("rename", kA, kLX),
              Put(<<".">>, <<x>>), Put(kA, <<y>>), Call("head", kL),
              Call("get", kA), Move("rename", kA, kDot)}
LinkStores == {Layout({<<>>, <<"p">>}, {<<"p", "l">>},
                      (<<"p", "h">> :> <<i1, <<y>> >>
                       @@ <<"p", "a">> :> <<i2, <<x, y>> >>)),
               Layout({<<>>, <<"p">>, <<"p", "l">>}, {<<"p", "l", "x">>},
                      (<<"p", "h">> :> <<i1, <<y>> >>))}
LinkShared == {i1}

(* One caller on an empty root, for what a sequence of calls answers.       *)
SoloCalls == {Call("delete", kA), Move("rename", kA, kDot), Put(kA, <<x>>),
              Put(kAB, <<y>>), Call("delete", kAB)}
SoloStores == {Layout({<<>>}, {}, NoFiles)}
=============================================================================
