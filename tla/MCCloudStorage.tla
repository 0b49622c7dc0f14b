--------------------------- MODULE MCCloudStorage ---------------------------
(* Small instances of CloudStorage for TLC.                                *)
EXTENDS CloudStorage, TLC

CONSTANTS t1, t2, x, y, z

Symmetry == Permutations(Tasks)

kA == <<"a">>
kB == <<"b">>
kUp == <<"..", "b">>

Call(kind, key)      == [kind |-> kind, key |-> key, to |-> key, data |-> None, limit |-> 0]
Move(kind, from, to) == [kind |-> kind, key |-> from, to |-> to, data |-> None, limit |-> 0]
Put(key, data)       == [kind |-> "put", key |-> key, to |-> key, data |-> data, limit |-> 0]

Pages(key, limit) == [Call("pages", key) EXCEPT !.limit = limit]

NoPrefix == <<>>
Tenant   == <<"tenant">>
Slashed  == <<"tenant", "">>

HasDots(name) == \E i \in DOMAIN name : name[i] = ".."

Bucket(stored) == [n \in Names |-> IF n \in DOMAIN stored THEN stored[n] ELSE None]

(* Two keys: an object is renamed, copied back and stored anew.            *)
MoveNames == << <<"a">>, <<"b">> >>
MoveCalls == {Move("rename", kA, kB), Move("copy", kB, kA), Put(kA, y)}
MoveBuckets == {Bucket(<<"a">> :> x), Bucket([n \in {} |-> x])}

(* A tenant's prefix next to a neighbour whose name it begins: objects are *)
(* listed, looked up, stored and deleted, and one has a key without a URL. *)
TenantNames == << <<"tenant", "..", "b">>, <<"tenant", "a">>, <<"tenant", "b">>,
                  <<"tenant", "d", "a">>, <<"tenants", "a">> >>
ListCalls == {Call("list", <<"">>), Pages(<<"">>, 1), Call("get", kA), Call("exists", kUp),
              Put(kA, x), Put(kA, z), Put(kUp, x), Call("delete", kA)}
TenantBuckets == {[n \in Names |-> IF HasDots(n) THEN None ELSE x],
                  Bucket(<<"tenant", "a">> :> x)}

(* One caller and what the documentation says.                             *)
DocNames == << <<"tenant", "a">> >>
DocCalls == {Put(kA, x), Call("delete", kA), Call("list", <<"">>)}
EmptyBucket == {Bucket([n \in {} |-> x])}
=============================================================================
