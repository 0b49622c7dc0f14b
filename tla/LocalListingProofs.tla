------------------------- MODULE LocalListingProofs -------------------------
(***************************************************************************)
(* Proofs about LocalListing, for any objects, prefix and limits, and      *)
(* whatever other calls do to the store meanwhile.                         *)
(***************************************************************************)
EXTENDS LocalListing, FiniteSetTheorems, SequenceTheorems, TLAPS

(* p and q part at some name, where that of p comes first.  What lies      *)
(* below p then lies before what lies below q.                             *)
Apart(p, q) ==
    \E n \in DOMAIN p \cap DOMAIN q :
        p[n] < q[n] /\ \A i \in 1 .. n - 1 : p[i] = q[i]

Below(p, q) == Len(p) < Len(q) /\ \A i \in 1 .. Len(p) : p[i] = q[i]

-----------------------------------------------------------------------------
(* The invariant                                                           *)

(* Who asks for a page waits for it; the cursor is the last key reported.  *)
Linked ==
    /\ Rooted /\ tree[KeyRoot] \in {Absent, Dir}
    /\ walk.pc # "off" <=> caller.pc = "waiting"
    /\ walk.pc = "off" => walk = Off
    /\ walk.pc = "read" => walk.dir \in Paths
    /\ walk.pc = "pop" => walk.found = {}
    /\ caller.pc = "idle" => caller = NoCaller
    /\ caller.pc = "complete" => caller.after = None
    /\ caller.after # None => /\ caller.reported # <<>>
                              /\ caller.after = Last(caller.reported)
    /\ caller.pc # "complete" /\ caller.after = None => caller.reported = <<>>

Ascending(keys) == \A m, n \in DOMAIN keys : m < n => Less(keys[m], keys[n])

(* The stack descends to its top, what was taken lies before all of it,    *)
(* and what is read of a directory lies between.                           *)
Ordered ==
    /\ Ascending(caller.reported) /\ Ascending(walk.results)
    /\ \A m \in DOMAIN caller.reported, n \in DOMAIN walk.results :
          Less(caller.reported[m], walk.results[n])
    /\ \A m, n \in DOMAIN walk.stack :
          m < n => Apart(walk.stack[n].path, walk.stack[m].path)
    /\ \A m \in DOMAIN walk.stack, n \in DOMAIN walk.results :
          Apart(walk.results[n], walk.stack[m].path)
    /\ walk.pc = "read" =>
          /\ walk.left \subseteq Children(walk.dir)
          /\ \A e \in walk.found : e.path \in Children(walk.dir)
          /\ \A m \in DOMAIN walk.stack : Apart(walk.dir, walk.stack[m].path)
          /\ \A n \in DOMAIN walk.results : Apart(walk.results[n], walk.dir)
          /\ IsFiniteSet(walk.found)

(* Entries that wait to be looked at.                                      *)
Stacked == {walk.stack[m] : m \in DOMAIN walk.stack}
Pending == Stacked \cup walk.found

(* What is reported was there and has the prefix.                          *)
Known ==
    /\ caller.pc # "idle" => Files \subseteq history.ever
    /\ \A e \in Pending : e.kind = "file" /\ e.path \in Objects => e.path \in history.ever
    /\ \A m \in DOMAIN caller.reported : caller.reported[m] \in history.ever \cap Matching
    /\ \A n \in DOMAIN walk.results : walk.results[n] \in history.ever \cap Matching

(* From this entry the walk comes to p.                                    *)
Leads(e, p) == \/ e.kind = "file" /\ e.path = p
               \/ e.kind = "dir" /\ e.path \in Ancestors(p)

Ahead(p) == \/ \E e \in Pending : Leads(e, p)
            \/ walk.pc = "read" /\ \E c \in walk.left : c \in UpTo(p)

(* An object that was there all the time is reported, or lies behind the   *)
(* cursor and is taken for this page or ahead of the walk.                 *)
Reported(p) == \E m \in DOMAIN caller.reported : caller.reported[m] = p
Taken(p)    == \E n \in DOMAIN walk.results : walk.results[n] = p

Covered ==
    /\ history.always \subseteq Files
    /\ \A p \in history.always \cap Matching :
          \/ Reported(p)
          \/ /\ caller.pc # "complete"
             /\ caller.after # None => Less(caller.after, p)
             /\ caller.pc = "waiting" => Taken(p) \/ Ahead(p)

(* While nothing changes, the entries are what was seen of them.           *)
Unchanged ==
    history.quiet =>
        /\ \A e \in Pending : /\ e.kind = "file" /\ e.path \in Objects => e.path \in Files
                              /\ e.kind = "dir" => e.path = KeyRoot \/ tree[e.path] = Dir
        /\ caller.pc # "io"
        /\ caller.after # None =>
              \E p \in Files \cap Matching : Less(caller.after, p)

IInv == /\ TypeOK /\ Linked /\ Ordered /\ Known /\ Covered /\ Unchanged
        /\ ListingBounded

-----------------------------------------------------------------------------
(* Paths                                                                   *)

LEMMA PrefixOf ==
    ASSUME NEW q \in Seq(Nat), NEW n \in 0 .. Len(q)
    PROVE  /\ SubSeq(q, 1, n) \in Seq(Nat)
           /\ Len(SubSeq(q, 1, n)) = n
           /\ \A i \in 1 .. n : SubSeq(q, 1, n)[i] = q[i]
<1>1. Len(q) \in Nat /\ \A i \in 1 .. n : q[i] \in Nat
  BY ElementOfSeq, LenProperties
<1> QED BY <1>1, SubSeqProperties

LEMMA AncestorIsBelow ==
    ASSUME NEW p, NEW q \in Seq(Nat)
    PROVE  p \in Ancestors(q) <=> p \in Seq(Nat) /\ Below(p, q)
<1>0. Len(q) \in Nat
  BY LenProperties
<1>1. ASSUME p \in Ancestors(q) PROVE p \in Seq(Nat) /\ Below(p, q)
  <2>1. PICK n \in 0 .. Len(q) - 1 : p = SubSeq(q, 1, n)
    BY <1>1 DEF Ancestors
  <2>2. n \in 0 .. Len(q) /\ n < Len(q)
    BY <1>0, <2>1
  <2> QED BY <2>1, <2>2, PrefixOf DEF Below
<1>2. ASSUME p \in Seq(Nat), Below(p, q) PROVE p \in Ancestors(q)
  <2>1. Len(p) \in 0 .. Len(q) - 1
    BY <1>0, <1>2, LenProperties DEF Below
  <2>2. Len(p) \in 0 .. Len(q)
    BY <1>0, <2>1
  <2>3. p = SubSeq(q, 1, Len(p))
    BY <1>2, <2>2, PrefixOf, SeqEqual DEF Below
  <2> QED BY <2>1, <2>3 DEF Ancestors
<1> QED BY <1>1, <1>2

LEMMA PathsAreSeqs == Paths \subseteq Seq(Nat)
BY LocalListingAssumption, AncestorIsBelow DEF Paths, UpTo

LEMMA BelowTransitive ==
    ASSUME NEW p \in Seq(Nat), NEW q \in Seq(Nat), NEW r \in Seq(Nat),
           Below(p, q), Below(q, r)
    PROVE  Below(p, r)
BY LenProperties DEF Below

LEMMA PathsClosed ==
    ASSUME NEW p \in Paths, NEW q \in Ancestors(p)
    PROVE  q \in Paths
<1>1. PICK k \in Objects : p \in UpTo(k)
  BY DEF Paths
<1>2. k \in Seq(Nat) /\ p \in Seq(Nat)
  BY LocalListingAssumption, PathsAreSeqs
<1>3. q \in Ancestors(k)
  BY <1>1, <1>2, AncestorIsBelow, BelowTransitive DEF UpTo
<1> QED BY <1>3 DEF Paths, UpTo

LEMMA Roots ==
    /\ KeyRoot \in Paths /\ KeyRoot \in Seq(Nat)
    /\ Objects \subseteq Paths /\ Objects \subseteq Seq(Nat)
    /\ KeyRoot \notin Objects
<1>1. Objects \subseteq Paths /\ Objects \subseteq Seq(Nat)
  BY LocalListingAssumption DEF Paths, UpTo
<1>2. PICK p \in Objects : KeyRoot \in Ancestors(p)
  BY LocalListingAssumption
<1>3. KeyRoot \in Paths
  BY <1>1, <1>2, PathsClosed
<1>4. KeyRoot \in Seq(Nat)
  BY <1>3, PathsAreSeqs
<1>5. KeyRoot \notin Objects
  <2> SUFFICES ASSUME KeyRoot \in Objects PROVE FALSE
    OBVIOUS
  <2>1. Below(KeyRoot, KeyRoot)
    BY <1>4, AncestorIsBelow, LocalListingAssumption
  <2> QED BY <1>4, <2>1, LenProperties DEF Below
<1> QED BY <1>1, <1>3, <1>4, <1>5

(* The entries of a directory: one name longer.                            *)
LEMMA ChildOf ==
    ASSUME NEW d \in Seq(Nat), NEW c
    PROVE  c \in Children(d) <=>
              /\ c \in Paths /\ Len(c) = Len(d) + 1
              /\ \A i \in 1 .. Len(d) : c[i] = d[i]
<1>0. Len(d) \in Nat /\ (c \in Paths => c \in Seq(Nat) /\ Len(c) \in Nat)
  BY PathsAreSeqs, LenProperties
<1>1. ASSUME c \in Children(d)
      PROVE  c \in Paths /\ Len(c) = Len(d) + 1 /\ \A i \in 1 .. Len(d) : c[i] = d[i]
  <2>1. c \in Seq(Nat) /\ c # <<>> /\ Front(c) = d
    BY <1>0, <1>1 DEF Children
  <2>2. Len(c) \in Nat \ {0}
    BY <2>1, EmptySeq
  <2>3. Len(c) - 1 \in 0 .. Len(c)
    BY <2>2
  <2>4. Len(d) = Len(c) - 1 /\ \A i \in 1 .. Len(c) - 1 : d[i] = c[i]
    BY <2>1, <2>3, PrefixOf DEF Front
  <2> QED BY <1>1, <2>2, <2>4 DEF Children
<1>2. ASSUME c \in Paths, Len(c) = Len(d) + 1, \A i \in 1 .. Len(d) : c[i] = d[i]
      PROVE  c \in Children(d)
  <2>1. c \in Seq(Nat) /\ Len(c) - 1 = Len(d) /\ Len(d) \in 0 .. Len(c) /\ c # <<>>
    BY <1>0, <1>2
  <2>2. SubSeq(c, 1, Len(d)) = d
    BY <1>2, <2>1, PrefixOf, SeqEqual
  <2> QED BY <1>2, <2>1, <2>2 DEF Children, Front
<1> QED BY <1>1, <1>2

(* From a directory on the way to p, one entry leads on.                   *)
LEMMA StepDown ==
    ASSUME NEW p \in Paths, NEW d \in Ancestors(p)
    PROVE  \E c \in Children(d) : c \in UpTo(p)
<1>1. p \in Seq(Nat) /\ d \in Seq(Nat) /\ Below(d, p)
  BY PathsAreSeqs, AncestorIsBelow
<1>2. Len(d) \in Nat /\ Len(p) \in Nat /\ Len(d) < Len(p)
  BY <1>1, LenProperties DEF Below
<1> DEFINE c == SubSeq(p, 1, Len(d) + 1)
<1>3. /\ c \in Seq(Nat) /\ Len(c) = Len(d) + 1
      /\ \A i \in 1 .. Len(d) + 1 : c[i] = p[i]
  BY <1>1, <1>2, PrefixOf
<1> HIDE DEF c
<1>4. \A i \in 1 .. Len(d) : c[i] = d[i]
  BY <1>1, <1>2, <1>3 DEF Below
<1>5. c \in UpTo(p)
  <2>1. CASE Len(p) = Len(d) + 1
    BY <1>1, <1>3, <2>1, SeqEqual DEF UpTo
  <2>2. CASE Len(p) # Len(d) + 1
    <3>1. Below(c, p)
      BY <1>2, <1>3, <2>2 DEF Below
    <3> QED BY <1>1, <1>3, <3>1, AncestorIsBelow DEF UpTo
  <2> QED BY <2>1, <2>2
<1>6. c \in Paths
  BY <1>5, PathsClosed DEF UpTo
<1> QED BY <1>1, <1>3, <1>4, <1>5, <1>6, ChildOf

LEMMA SamePrefix ==
    ASSUME NEW p \in Seq(Nat), NEW q \in Seq(Nat), NEW n \in Nat,
           n <= Len(p), n <= Len(q)
    PROVE  SubSeq(p, 1, n) = SubSeq(q, 1, n) <=> \A i \in 1 .. n : p[i] = q[i]
<1>1. n \in 0 .. Len(p) /\ n \in 0 .. Len(q)
  BY LenProperties
<1>2. /\ SubSeq(p, 1, n) \in Seq(Nat) /\ Len(SubSeq(p, 1, n)) = n
      /\ SubSeq(q, 1, n) \in Seq(Nat) /\ Len(SubSeq(q, 1, n)) = n
      /\ \A i \in 1 .. n : SubSeq(p, 1, n)[i] = p[i] /\ SubSeq(q, 1, n)[i] = q[i]
  BY <1>1, PrefixOf
<1>3. (\A i \in 1 .. n : p[i] = q[i]) => SubSeq(p, 1, n) = SubSeq(q, 1, n)
  <2> SUFFICES ASSUME \A i \in 1 .. n : p[i] = q[i]
               PROVE  SubSeq(p, 1, n) = SubSeq(q, 1, n)
    OBVIOUS
  <2>1. \A i \in 1 .. n : SubSeq(p, 1, n)[i] = SubSeq(q, 1, n)[i]
    BY <1>2
  <2> QED BY <1>2, <2>1, SeqEqual
<1>4. SubSeq(p, 1, n) = SubSeq(q, 1, n) => \A i \in 1 .. n : p[i] = q[i]
  BY <1>2
<1> QED BY <1>3, <1>4

LEMMA LessMeans ==
    ASSUME NEW p \in Seq(Nat), NEW q \in Seq(Nat)
    PROVE  Less(p, q) <=> Below(p, q) \/ Apart(p, q)
<1>0. /\ Len(p) \in Nat /\ DOMAIN p = 1 .. Len(p)
      /\ Len(q) \in Nat /\ DOMAIN q = 1 .. Len(q)
  BY LenProperties
<1>1. IsStrictPrefix(p, q) <=> Below(p, q)
  <2>1. ASSUME IsStrictPrefix(p, q) PROVE Below(p, q)
    <3>1. Len(p) <= Len(q) /\ p # q /\ \A i \in 1 .. Len(p) : p[i] = q[i]
      BY <1>0, <2>1, SamePrefix DEF IsStrictPrefix, IsPrefix
    <3>2. Len(p) # Len(q)
      BY <3>1, SeqEqual
    <3>3. Len(p) < Len(q)
      <4>1. \A m, n \in Nat : m <= n /\ m # n => m < n
        OBVIOUS
      <4> QED BY <1>0, <3>1, <3>2, <4>1
    <3> QED BY <3>1, <3>3 DEF Below
  <2>2. ASSUME Below(p, q) PROVE IsStrictPrefix(p, q)
    <3>1. Len(p) <= Len(q) /\ p # q
      BY <1>0, <2>2 DEF Below
    <3>2. SubSeq(p, 1, Len(p)) = SubSeq(q, 1, Len(p))
      BY <1>0, <2>2, <3>1, SamePrefix DEF Below
    <3> QED BY <3>1, <3>2 DEF IsStrictPrefix, IsPrefix
  <2> QED BY <2>1, <2>2
<1>2. ASSUME NEW n \in DOMAIN p \cap DOMAIN q
      PROVE  SubSeq(p, 1, n - 1) = SubSeq(q, 1, n - 1)
                <=> \A i \in 1 .. n - 1 : p[i] = q[i]
  <2>1. n - 1 \in Nat /\ n - 1 <= Len(p) /\ n - 1 <= Len(q)
    BY <1>0
  <2> QED BY <2>1, SamePrefix
<1> QED BY <1>1, <1>2 DEF Less, Apart

LEMMA ApartMeans ==
    ASSUME NEW p \in Seq(Nat), NEW q \in Seq(Nat)
    PROVE  /\ Apart(p, q) <=> \E n \in 1 .. Len(p) :
                  n <= Len(q) /\ p[n] < q[n] /\ \A i \in 1 .. n - 1 : p[i] = q[i]
           /\ Len(p) \in Nat /\ Len(q) \in Nat
           /\ \A i \in 1 .. Len(p) : p[i] \in Nat
           /\ \A i \in 1 .. Len(q) : q[i] \in Nat
<1>1. /\ Len(p) \in Nat /\ DOMAIN p = 1 .. Len(p)
      /\ Len(q) \in Nat /\ DOMAIN q = 1 .. Len(q)
  BY LenProperties
<1>2. /\ \A i \in 1 .. Len(p) : p[i] \in Nat
      /\ \A i \in 1 .. Len(q) : q[i] \in Nat
  BY ElementOfSeq
<1>3. \A n : n \in DOMAIN p \cap DOMAIN q <=> n \in 1 .. Len(p) /\ n <= Len(q)
  BY <1>1
<1> QED BY <1>1, <1>2, <1>3 DEF Apart

LEMMA LessIrreflexive == ASSUME NEW p \in Seq(Nat) PROVE ~Less(p, p)
<1>1. ~Below(p, p)
  BY LenProperties DEF Below
<1>2. ~Apart(p, p)
  BY ApartMeans
<1> QED BY <1>1, <1>2, LessMeans

LEMMA ApartTransitive ==
    ASSUME NEW p \in Seq(Nat), NEW q \in Seq(Nat), NEW r \in Seq(Nat),
           Apart(p, q), Apart(q, r)
    PROVE  Apart(p, r)
<1>1. PICK m \in 1 .. Len(p) : m <= Len(q) /\ p[m] < q[m] /\ \A i \in 1 .. m - 1 : p[i] = q[i]
  BY ApartMeans
<1>2. PICK n \in 1 .. Len(q) : n <= Len(r) /\ q[n] < r[n] /\ \A i \in 1 .. n - 1 : q[i] = r[i]
  BY ApartMeans
<1>3. /\ Len(p) \in Nat /\ Len(q) \in Nat /\ Len(r) \in Nat /\ m \in Nat /\ n \in Nat
      /\ m <= Len(p) /\ n <= Len(q)
  BY ApartMeans
<1> DEFINE k == IF m < n THEN m ELSE n
<1>4. k \in 1 .. Len(p) /\ k \in 1 .. Len(q) /\ k \in 1 .. Len(r)
  BY <1>1, <1>2, <1>3
<1>5. p[k] \in Nat /\ q[k] \in Nat /\ r[k] \in Nat
  BY <1>4, ApartMeans
<1>6. \A i \in 1 .. k - 1 : p[i] = q[i] /\ q[i] = r[i]
  BY <1>1, <1>2, <1>3
<1>7. \/ p[k] < q[k] /\ q[k] < r[k]
      \/ p[k] = q[k] /\ q[k] < r[k]
      \/ p[k] < q[k] /\ q[k] = r[k]
  <2>1. CASE m < n
    BY <1>1, <1>2, <1>3, <2>1
  <2>2. CASE m = n
    BY <1>1, <1>2, <1>3, <2>2
  <2>3. CASE n < m
    BY <1>1, <1>2, <1>3, <2>3
  <2> QED BY <1>3, <2>1, <2>2, <2>3
<1> HIDE DEF k
<1>8. p[k] < r[k]
  BY <1>5, <1>7
<1>9. k <= Len(r) /\ \A i \in 1 .. k - 1 : p[i] = r[i]
  BY <1>3, <1>4, <1>6
<1> QED BY <1>4, <1>8, <1>9, ApartMeans

LEMMA ApartBelow ==
    ASSUME NEW p \in Seq(Nat), NEW q \in Seq(Nat), NEW r \in Seq(Nat), Apart(p, q)
    PROVE  /\ Below(p, r) => Apart(r, q)
           /\ Below(q, r) => Apart(p, r)
<1>1. PICK n \in 1 .. Len(p) : n <= Len(q) /\ p[n] < q[n] /\ \A i \in 1 .. n - 1 : p[i] = q[i]
  BY ApartMeans
<1>2. ASSUME Below(p, r) PROVE Apart(r, q)
  <2>1. /\ n \in 1 .. Len(r) /\ n <= Len(q) /\ r[n] < q[n]
        /\ \A i \in 1 .. n - 1 : r[i] = q[i]
    BY <1>1, <1>2, ApartMeans DEF Below
  <2> QED BY <2>1, ApartMeans
<1>3. ASSUME Below(q, r) PROVE Apart(p, r)
  <2>1. /\ n \in 1 .. Len(p) /\ n <= Len(r) /\ p[n] < r[n]
        /\ \A i \in 1 .. n - 1 : p[i] = r[i]
    BY <1>1, <1>3, ApartMeans DEF Below
  <2> QED BY <2>1, ApartMeans
<1> QED BY <1>2, <1>3

LEMMA BelowApart ==
    ASSUME NEW p \in Seq(Nat), NEW q \in Seq(Nat), NEW r \in Seq(Nat),
           Below(p, q), Apart(q, r)
    PROVE  Below(p, r) \/ Apart(p, r)
<1>1. PICK n \in 1 .. Len(q) : n <= Len(r) /\ q[n] < r[n] /\ \A i \in 1 .. n - 1 : q[i] = r[i]
  BY ApartMeans
<1>2. CASE n <= Len(p)
  <2>1. /\ n \in 1 .. Len(p) /\ n <= Len(r) /\ p[n] < r[n]
        /\ \A i \in 1 .. n - 1 : p[i] = r[i]
    BY <1>1, <1>2, ApartMeans DEF Below
  <2> QED BY <2>1, ApartMeans
<1>3. CASE Len(p) < n
  BY <1>1, <1>3, ApartMeans DEF Below
<1> QED BY <1>2, <1>3, ApartMeans

LEMMA LessTransitive ==
    ASSUME NEW p \in Seq(Nat), NEW q \in Seq(Nat), NEW r \in Seq(Nat),
           Less(p, q), Less(q, r)
    PROVE  Less(p, r)
BY LessMeans, BelowTransitive, ApartTransitive, ApartBelow, BelowApart

(* What is under two paths that are apart is apart like them.              *)
LEMMA ApartInherited ==
    ASSUME NEW p \in Seq(Nat), NEW q \in Seq(Nat), Apart(p, q),
           NEW r \in Seq(Nat)
    PROVE  /\ p \in UpTo(r) => Apart(r, q)
           /\ q \in UpTo(r) => Apart(p, r)
BY ApartBelow, AncestorIsBelow DEF UpTo

LEMMA ChildrenApart ==
    ASSUME NEW d \in Seq(Nat)
    PROVE  /\ \A c, k \in Children(d) : Less(c, k) => Apart(c, k)
           /\ \A c \in Children(d) : c \in Paths /\ c \in Seq(Nat) /\ d \in UpTo(c)
<1>1. \A c \in Children(d) :
          /\ c \in Paths /\ c \in Seq(Nat) /\ Len(c) = Len(d) + 1
          /\ \A i \in 1 .. Len(d) : c[i] = d[i]
  BY ChildOf, PathsAreSeqs
<1>2. \A c, k \in Children(d) : ~Below(c, k)
  BY <1>1, LenProperties DEF Below
<1>3. \A c \in Children(d) : Below(d, c)
  BY <1>1, LenProperties DEF Below
<1> QED BY <1>1, <1>2, <1>3, LessMeans, AncestorIsBelow DEF UpTo

-----------------------------------------------------------------------------
(* Sequences                                                               *)

LEMMA Popped ==
    ASSUME NEW S, NEW s \in Seq(S), s # <<>>
    PROVE  /\ Len(s) \in Nat /\ Len(s) # 0 /\ Last(s) \in S
           /\ Front(s) \in Seq(S)
           /\ DOMAIN s = 1 .. Len(s) /\ DOMAIN Front(s) = 1 .. Len(s) - 1
           /\ \A i \in 1 .. Len(s) - 1 : Front(s)[i] = s[i]
<1>1. Len(s) \in Nat \ {0} /\ DOMAIN s = 1 .. Len(s)
  BY EmptySeq, LenProperties
<1>2. \A i \in 1 .. Len(s) - 1 : s[i] \in S
  BY <1>1, ElementOfSeq
<1>3. Len(s) \in 1 .. Len(s)
  BY <1>1
<1>4. Last(s) \in S
  BY <1>3, ElementOfSeq DEF Last
<1>5. /\ Front(s) \in Seq(S) /\ Len(Front(s)) = Len(s) - 1
      /\ \A i \in 1 .. Len(s) - 1 : Front(s)[i] = s[i]
  BY <1>1, <1>2, SubSeqProperties DEF Front
<1> QED BY <1>1, <1>4, <1>5, LenProperties

LEMMA Joined ==
    ASSUME NEW S, NEW s \in Seq(S), NEW t \in Seq(S)
    PROVE  /\ s \o t \in Seq(S) /\ Len(s \o t) = Len(s) + Len(t)
           /\ DOMAIN (s \o t) = 1 .. Len(s) + Len(t)
           /\ Len(s) \in Nat /\ Len(t) \in Nat
           /\ DOMAIN s = 1 .. Len(s) /\ DOMAIN t = 1 .. Len(t)
           /\ \A i \in 1 .. Len(s) : (s \o t)[i] = s[i]
           /\ \A i \in Len(s) + 1 .. Len(s) + Len(t) :
                 i - Len(s) \in 1 .. Len(t) /\ (s \o t)[i] = t[i - Len(s)]
           /\ \A i \in 1 .. Len(t) :
                 /\ Len(s) + i \in Len(s) + 1 .. Len(s) + Len(t)
                 /\ (s \o t)[Len(s) + i] = t[i]
<1>1. /\ s \o t \in Seq(S) /\ Len(s \o t) = Len(s) + Len(t)
      /\ \A i \in 1 .. Len(s) + Len(t) :
            (s \o t)[i] = IF i <= Len(s) THEN s[i] ELSE t[i - Len(s)]
  BY ConcatProperties
<1>2. /\ Len(s) \in Nat /\ DOMAIN s = 1 .. Len(s)
      /\ Len(t) \in Nat /\ DOMAIN t = 1 .. Len(t)
      /\ DOMAIN (s \o t) = 1 .. Len(s) + Len(t)
  BY <1>1, LenProperties
<1>3. \A i \in 1 .. Len(s) : (s \o t)[i] = s[i]
  BY <1>1, <1>2
<1>4. \A i \in Len(s) + 1 .. Len(s) + Len(t) :
         i - Len(s) \in 1 .. Len(t) /\ (s \o t)[i] = t[i - Len(s)]
  BY <1>1, <1>2
<1>5. \A i \in 1 .. Len(t) :
         /\ Len(s) + i \in Len(s) + 1 .. Len(s) + Len(t)
         /\ Len(s) + i - Len(s) = i
  BY <1>2
<1>6. \A i \in 1 .. Len(t) : (s \o t)[Len(s) + i] = t[i]
  BY <1>4, <1>5
<1> QED BY <1>1, <1>2, <1>3, <1>4, <1>5, <1>6

LEMMA JoinedNames ==
    ASSUME NEW S, NEW s \in Seq(S), NEW t \in Seq(S)
    PROVE  /\ ToSet(s \o t) = ToSet(s) \cup ToSet(t)
           /\ t # <<>> => s \o t # <<>> /\ Last(s \o t) = Last(t) /\ Last(t) \in S
<1> DEFINE u == s \o t
           a == Len(s)
           b == Len(t)
<1>1. /\ DOMAIN u = 1 .. a + b /\ a \in Nat /\ b \in Nat /\ Len(u) = a + b
      /\ DOMAIN s = 1 .. a /\ DOMAIN t = 1 .. b
      /\ \A i \in 1 .. a : u[i] = s[i]
      /\ \A i \in a + 1 .. a + b : i - a \in 1 .. b /\ u[i] = t[i - a]
      /\ \A i \in 1 .. b : a + i \in a + 1 .. a + b /\ u[a + i] = t[i]
  BY Joined
<1>2. t # <<>> => b # 0 /\ t[b] \in S
  BY <1>1, EmptySeq, ElementOfSeq
<1>3. Last(t) = t[b] /\ Last(u) = u[Len(u)]
  BY DEF Last
<1> HIDE DEF u, a, b
<1>4. ASSUME NEW m \in DOMAIN u
      PROVE  (\E k \in DOMAIN s : s[k] = u[m]) \/ (\E n \in DOMAIN t : t[n] = u[m])
  <2>1. m \in 1 .. a \/ m \in a + 1 .. a + b
    BY <1>1
  <2> QED BY <1>1, <2>1
<1>5. \A m \in DOMAIN s : m \in DOMAIN u /\ u[m] = s[m]
  BY <1>1
<1>6. \A n \in DOMAIN t : a + n \in DOMAIN u /\ u[a + n] = t[n]
  BY <1>1
<1>7. t # <<>> => Len(u) # 0 /\ u[Len(u)] = t[b]
  BY <1>1, <1>2
<1>8. ToSet(u) = ToSet(s) \cup ToSet(t)
  BY <1>4, <1>5, <1>6 DEF ToSet
<1>9. t # <<>> => u # <<>> /\ Last(u) = Last(t) /\ Last(t) \in S
  BY <1>2, <1>3, <1>7
<1> QED BY <1>8, <1>9 DEF u

LEMMA AscendingJoined ==
    ASSUME NEW S, NEW s \in Seq(S), NEW t \in Seq(S), Ascending(s), Ascending(t),
           \A m \in DOMAIN s, n \in DOMAIN t : Less(s[m], t[n])
    PROVE  Ascending(s \o t)
<1> DEFINE u == s \o t
<1>0. /\ DOMAIN u = 1 .. Len(s) + Len(t) /\ Len(s) \in Nat /\ Len(t) \in Nat
      /\ DOMAIN s = 1 .. Len(s) /\ DOMAIN t = 1 .. Len(t)
      /\ \A i \in 1 .. Len(s) : u[i] = s[i]
      /\ \A i \in Len(s) + 1 .. Len(s) + Len(t) :
            i - Len(s) \in 1 .. Len(t) /\ u[i] = t[i - Len(s)]
  BY Joined
<1> HIDE DEF u
<1> SUFFICES ASSUME NEW m \in DOMAIN u, NEW n \in DOMAIN u, m < n
             PROVE  Less(u[m], u[n])
  BY DEF Ascending, u
<1>1. CASE n <= Len(s)
  BY <1>0, <1>1 DEF Ascending
<1>2. CASE m <= Len(s) /\ Len(s) < n
  <2>1. m \in 1 .. Len(s) /\ n \in Len(s) + 1 .. Len(s) + Len(t)
    BY <1>0, <1>2
  <2> QED BY <1>0, <2>1
<1>3. CASE Len(s) < m
  <2>1. m \in Len(s) + 1 .. Len(s) + Len(t) /\ n \in Len(s) + 1 .. Len(s) + Len(t)
    BY <1>0, <1>3
  <2>2. m - Len(s) < n - Len(s)
    BY <1>0
  <2>3. Less(t[m - Len(s)], t[n - Len(s)])
    BY <1>0, <2>1, <2>2 DEF Ascending
  <2> QED BY <1>0, <2>1, <2>3
<1> QED BY <1>0, <1>1, <1>2, <1>3

(* Every entry of a set is listed once.                                    *)
LEMMA Listed ==
    ASSUME NEW S, IsFiniteSet(S), NEW s \in SetToSeqs(S)
    PROVE  s \in Seq(S) /\ \A e \in S : \E i \in DOMAIN s : s[i] = e
<1>1. Cardinality(S) \in Nat
  BY FS_CardinalityType
<1> DEFINE D == 1 .. Cardinality(S)
<1>2. s \in [D -> S] /\ \A i, j \in D : i # j => s[i] # s[j]
  BY DEF SetToSeqs
<1>3. s \in Seq(S) /\ DOMAIN s = D
  BY <1>1, <1>2
<1>4. s \in Injection(D, S)
  BY <1>2 DEF Injection, IsInjective
<1>5. IsFiniteSet(D) /\ Cardinality(D) = Cardinality(S)
  BY <1>1, FS_Interval
<1>6. s \in Surjection(D, S)
  BY <1>4, <1>5, FS_Injection
<1> QED BY <1>3, <1>6 DEF Surjection

(* An ascending sequence names as many keys as it is long.                 *)
LEMMA AscendingFits ==
    ASSUME NEW T, IsFiniteSet(T), T \subseteq Seq(Nat),
           NEW s \in Seq(T), Ascending(s)
    PROVE  Len(s) <= Cardinality(T) /\ Cardinality(T) \in Nat
<1>1. Len(s) \in Nat /\ DOMAIN s = 1 .. Len(s) /\ s \in [1 .. Len(s) -> T]
  BY LenProperties
<1>2. \A m, n \in 1 .. Len(s) : m # n => s[m] # s[n]
  <2> SUFFICES ASSUME NEW m \in 1 .. Len(s), NEW n \in 1 .. Len(s), m < n
               PROVE  s[m] # s[n]
    BY <1>1
  <2>1. Less(s[m], s[n]) /\ s[m] \in Seq(Nat)
    BY <1>1 DEF Ascending
  <2> QED BY <2>1, LessIrreflexive
<1>3. s \in Injection(1 .. Len(s), T)
  BY <1>1, <1>2 DEF Injection, IsInjective
<1>4. Cardinality(1 .. Len(s)) = Len(s)
  BY <1>1, FS_Interval
<1>5. Cardinality(1 .. Len(s)) <= Cardinality(T)
  BY <1>3, FS_Injection
<1> QED BY <1>4, <1>5, FS_CardinalityType

LEMMA MoreThan ==
    ASSUME NEW T, IsFiniteSet(T), T \subseteq Seq(Nat),
           NEW s \in Seq(T), NEW t \in Seq(T), Ascending(s \o t),
           NEW k \in Nat, Len(s) + Len(t) > k
    PROVE  Cardinality(T) > k
<1>1. /\ s \o t \in Seq(T) /\ Len(s \o t) = Len(s) + Len(t)
      /\ Len(s) \in Nat /\ Len(t) \in Nat
  BY Joined
<1>2. Len(s \o t) <= Cardinality(T) /\ Cardinality(T) \in Nat
  BY <1>1, AscendingFits
<1> QED BY <1>1, <1>2

-----------------------------------------------------------------------------
(* The store meanwhile                                                     *)

LEMMA AboveAll ==
    ASSUME NEW p \in Paths, NEW q \in Ancestors(p)
    PROVE  /\ q \in Paths /\ q # p
           /\ Ancestors(q) \subseteq Ancestors(p)
<1>1. p \in Seq(Nat) /\ q \in Paths /\ q \in Seq(Nat) /\ Below(q, p)
  BY PathsAreSeqs, PathsClosed, AncestorIsBelow
<1>2. q # p
  BY <1>1, LenProperties DEF Below
<1>3. Ancestors(q) \subseteq Ancestors(p)
  BY <1>1, AncestorIsBelow, BelowTransitive
<1> QED BY <1>1, <1>2, <1>3

LEMMA TreeStep ==
    ASSUME tree \in [Paths -> {Absent, Dir, Link, File}], Rooted,
           tree[KeyRoot] \in {Absent, Dir}, Next
    PROVE  /\ tree' \in [Paths -> {Absent, Dir, Link, File}] /\ Rooted'
           /\ tree'[KeyRoot] \in {Absent, Dir}
<1>1. ASSUME NEW p \in Objects, AddFile(p)
      PROVE  /\ tree' \in [Paths -> {Absent, Dir, Link, File}] /\ Rooted'
             /\ tree'[KeyRoot] \in {Absent, Dir}
  <2>1. /\ tree' = [tree EXCEPT ![p] = File] /\ tree[p] = Absent
        /\ \A q \in Ancestors(p) : tree[q] = Dir
    BY <1>1 DEF AddFile
  <2>2. ASSUME NEW r \in Paths, tree'[r] # Absent, NEW q \in Ancestors(r)
        PROVE  tree'[q] = Dir
    <3>1. q \in Paths /\ q # r
      BY AboveAll
    <3>2. tree[q] = Dir
      BY <2>1, <2>2 DEF Rooted
    <3>3. q # p
      BY <2>1, <3>2, DirectoryTreeAssumption
    <3> QED BY <2>1, <3>1, <3>2, <3>3
  <2>3. tree' \in [Paths -> {Absent, Dir, Link, File}] /\ tree'[KeyRoot] = tree[KeyRoot]
    BY <2>1, Roots
  <2> QED BY <2>2, <2>3 DEF Rooted
<1>2. ASSUME NEW p \in Objects, RemoveFile(p)
      PROVE  /\ tree' \in [Paths -> {Absent, Dir, Link, File}] /\ Rooted'
             /\ tree'[KeyRoot] \in {Absent, Dir}
  <2>1. tree' = [tree EXCEPT ![p] = Absent] /\ tree[p] = File
    BY <1>2 DEF RemoveFile
  <2>2. ASSUME NEW r \in Paths, tree'[r] # Absent, NEW q \in Ancestors(r)
        PROVE  tree'[q] = Dir
    <3>1. q \in Paths /\ r # p
      BY <2>1, <2>2, AboveAll
    <3>2. tree[q] = Dir
      BY <2>1, <2>2, <3>1 DEF Rooted
    <3>3. q # p
      BY <2>1, <3>2, DirectoryTreeAssumption
    <3> QED BY <2>1, <3>1, <3>2, <3>3
  <2>3. tree' \in [Paths -> {Absent, Dir, Link, File}] /\ tree'[KeyRoot] = tree[KeyRoot]
    BY <2>1, Roots
  <2> QED BY <2>2, <2>3 DEF Rooted
<1>3. ASSUME NEW x \in Paths, MakeDirs(Ancestors(x))
      PROVE  /\ tree' \in [Paths -> {Absent, Dir, Link, File}] /\ Rooted'
             /\ tree'[KeyRoot] \in {Absent, Dir}
  <2>1. tree' = [q \in Paths |-> IF q \in Ancestors(x) THEN Dir ELSE tree[q]]
    BY <1>3 DEF MakeDirs
  <2>2. ASSUME NEW r \in Paths, tree'[r] # Absent, NEW q \in Ancestors(r)
        PROVE  tree'[q] = Dir
    <3>1. q \in Paths
      BY AboveAll
    <3>2. CASE r \in Ancestors(x)
      BY <2>1, <3>1, <3>2, AboveAll
    <3>3. CASE r \notin Ancestors(x)
      BY <2>1, <2>2, <3>1, <3>3 DEF Rooted
    <3> QED BY <3>2, <3>3
  <2>3. tree' \in [Paths -> {Absent, Dir, Link, File}] /\ tree'[KeyRoot] \in {Absent, Dir}
    BY <2>1, Roots
  <2> QED BY <2>2, <2>3 DEF Rooted
<1> QED BY <1>1, <1>2, <1>3 DEF Next

-----------------------------------------------------------------------------
(* Between pages                                                           *)

(* What the invariant says of the caller while no page is being made.      *)
Resting ==
    LET c == caller IN
    /\ c \in Caller /\ c.pc # "waiting"
    /\ c.pc = "idle" => c = NoCaller
    /\ c.pc = "complete" => c.after = None
    /\ c.after # None => c.reported # <<>> /\ c.after = Last(c.reported)
    /\ c.pc # "complete" /\ c.after = None => c.reported = <<>>
    /\ Ascending(c.reported)
    /\ c.pc # "idle" => Files \subseteq history.ever
    /\ \A m \in DOMAIN c.reported : c.reported[m] \in history.ever \cap Matching
    /\ \A p \in history.always \cap Matching :
          \/ Reported(p)
          \/ c.pc # "complete" /\ (c.after # None => Less(c.after, p))
    /\ history.quiet =>
          /\ c.pc # "io"
          /\ c.after # None => \E p \in Files \cap Matching : Less(c.after, p)
    /\ c.mode = "list" =>
          /\ Len(c.reported) <= MaxItems
          /\ c.pc = "toomany" => Cardinality(history.ever \cap Matching) > MaxItems

World == /\ tree \in [Paths -> {Absent, Dir, Link, File}]
         /\ Rooted /\ tree[KeyRoot] \in {Absent, Dir}
         /\ history \in History /\ history.always \subseteq Files

LEMMA OffFields ==
    ASSUME walk = Off
    PROVE  /\ walk \in Walk /\ walk.pc = "off" /\ DOMAIN walk.stack = {}
           /\ DOMAIN walk.results = {} /\ Len(walk.results) = 0
           /\ walk.limit = 0 /\ walk.found = {} /\ Pending = {}
<1>1. /\ walk.pc = "off" /\ walk.stack = <<>> /\ walk.results = <<>>
      /\ walk.limit = 0 /\ walk.found = {}
  BY DEF Off
<1>2. DOMAIN walk.stack = {} /\ DOMAIN walk.results = {} /\ Len(walk.results) = 0
  BY <1>1
<1>3. walk \in Walk
  BY DEF Off, Walk
<1> QED BY <1>1, <1>2, <1>3 DEF Pending, Stacked

LEMMA RestingInv == World /\ walk = Off /\ Resting => IInv
<1> SUFFICES ASSUME World, walk = Off, Resting PROVE IInv
  OBVIOUS
<1>1. /\ walk \in Walk /\ walk.pc = "off" /\ DOMAIN walk.stack = {}
      /\ DOMAIN walk.results = {} /\ Len(walk.results) = 0
      /\ walk.limit = 0 /\ walk.found = {} /\ Pending = {}
  BY OffFields
<1>2. TypeOK
  BY <1>1 DEF TypeOK, World, Resting
<1>3. Linked
  BY <1>1 DEF Linked, World, Resting
<1>4. Ordered
  BY <1>1 DEF Ordered, Resting, Ascending
<1>5. Known
  BY <1>1 DEF Known, Resting
<1>6. Covered
  BY DEF Covered, World, Resting
<1>7. Unchanged
  BY <1>1 DEF Unchanged, Resting
<1>8. ListingBounded
  BY <1>1 DEF ListingBounded, Resting
<1> QED BY <1>2, <1>3, <1>4, <1>5, <1>6, <1>7, <1>8 DEF IInv

LEMMA InvWorld == ASSUME IInv PROVE World
BY DEF IInv, TypeOK, Linked, Covered, World

LEMMA InvResting == ASSUME IInv, caller.pc # "waiting" PROVE walk = Off /\ Resting
<1>1. /\ TypeOK /\ Linked /\ Ordered /\ Known /\ Covered /\ Unchanged /\ ListingBounded
  BY DEF IInv
<1>2. walk = Off
  BY <1>1 DEF Linked
<1>3. Resting
  BY <1>1 DEF TypeOK, Linked, Ordered, Known, Covered, Unchanged, ListingBounded, Resting
<1> QED BY <1>2, <1>3

LEMMA InvInit == ListingInit => IInv
<1> SUFFICES ASSUME ListingInit PROVE IInv
  OBVIOUS
<1>1. /\ caller = NoCaller /\ walk = Off
      /\ history = [always |-> {}, ever |-> {}, quiet |-> TRUE]
  BY DEF ListingInit
<1>2. World
  BY <1>1 DEF ListingInit, Init, World, History
<1>3. /\ caller.pc = "idle" /\ caller.after = None /\ caller.reported = <<>>
      /\ caller.mode = "pages" /\ caller \in Caller
  BY <1>1 DEF NoCaller, Caller
<1>4. Resting
  BY <1>1, <1>3 DEF Resting, Ascending
<1> QED BY <1>1, <1>2, <1>4, RestingInv

LEMMA StartStep == ASSUME IInv, NEW mode \in {"pages", "list"}, Start(mode) PROVE IInv'
<1>1. /\ caller.pc = "idle" /\ tree' = tree /\ walk' = walk
      /\ caller' = [NoCaller EXCEPT !.pc = "ready", !.mode = mode]
      /\ history' = [always |-> Files, ever |-> Files, quiet |-> TRUE]
  BY DEF Start
<1>2. World /\ walk = Off
  BY <1>1, InvWorld, InvResting
<1>3. Files' = Files /\ Files \subseteq Objects
  BY <1>1 DEF Files
<1>4. World'
  BY <1>1, <1>2, <1>3 DEF World, History, Rooted
<1>5. /\ caller'.pc = "ready" /\ caller'.after = None /\ caller'.reported = <<>>
      /\ caller'.mode = mode /\ caller' \in Caller
  <2>1. caller' = [pc |-> "ready", mode |-> mode, after |-> None, reported |-> <<>>]
    BY <1>1 DEF NoCaller
  <2> QED BY <2>1 DEF Caller
<1>6. Resting'
  BY <1>1, <1>3, <1>5, LocalListingAssumption DEF Resting, Ascending
<1>7. (walk = Off)'
  BY <1>1, <1>2
<1> QED BY <1>4, <1>6, <1>7, RestingInv, PTL

LEMMA CallerTurns ==
    ASSUME caller \in Caller,
           NEW k \in {"idle", "ready", "waiting", "complete", "toomany", "io", "eio"},
           caller' = [caller EXCEPT !.pc = k]
    PROVE  /\ caller' \in Caller /\ caller'.pc = k /\ caller'.mode = caller.mode
           /\ caller'.after = caller.after /\ caller'.reported = caller.reported
BY DEF Caller

LEMMA RetryStep == ASSUME IInv, Retry PROVE IInv'
<1>1. /\ caller.pc \in {"io", "eio"} /\ caller' = [caller EXCEPT !.pc = "ready"]
      /\ tree' = tree /\ walk' = walk /\ history' = history
  BY DEF Retry
<1>2. World /\ walk = Off /\ Resting
  BY <1>1, InvWorld, InvResting
<1>3. Files' = Files /\ World' /\ (walk = Off)'
  BY <1>1, <1>2 DEF Files, World, History, Rooted
<1>4. /\ caller' \in Caller /\ caller'.pc = "ready" /\ caller'.mode = caller.mode
      /\ caller'.after = caller.after /\ caller'.reported = caller.reported
  BY <1>1, <1>2, CallerTurns DEF Resting
<1>5. Resting'
  BY <1>1, <1>2, <1>3, <1>4 DEF Resting, Reported
<1> QED BY <1>3, <1>5, RestingInv, PTL

LEMMA StopStep == ASSUME IInv, Stop PROVE IInv'
<1>1. caller' = NoCaller /\ walk' = Off /\ tree' = tree /\ history' = history
  BY DEF Stop
<1>2. World
  BY InvWorld
<1>3. Files' = Files /\ World' /\ (walk = Off)'
  BY <1>1, <1>2 DEF Files, World, History, Rooted
<1>4. /\ caller' \in Caller /\ caller'.pc = "idle" /\ caller'.mode = "pages"
      /\ caller'.after = None /\ caller'.reported = <<>>
  BY <1>1 DEF NoCaller, Caller
<1>5. Resting'
  BY <1>1, <1>4 DEF Resting, Ascending
<1> QED BY <1>3, <1>5, RestingInv, PTL

LEMMA CallPageStep ==
    ASSUME IInv, NEW limit \in Limits \cup {DefaultPageSize}, CallPage(limit)
    PROVE  IInv'
<1> DEFINE root == [kind |-> "dir", path |-> KeyRoot]
           size == IF limit = 0 THEN DefaultPageSize ELSE limit
<1>1. /\ caller.pc = "ready" /\ caller' = [caller EXCEPT !.pc = "waiting"]
      /\ walk' = [Off EXCEPT !.pc = "pop", !.stack = <<root>>, !.limit = size]
      /\ tree' = tree /\ history' = history
  BY DEF CallPage
<1>2. World /\ Resting
  BY <1>1, InvWorld, InvResting
<1>3. size \in Nat \ {0}
  BY LocalListingAssumption
<1>4. root \in Entry /\ root.kind = "dir" /\ root.path = KeyRoot
  BY Roots DEF Entry
<1> HIDE DEF root, size
<1>5. walk' = [pc |-> "pop", stack |-> <<root>>, dir |-> None, left |-> {}, found |-> {},
               limit |-> size, results |-> <<>>]
  BY <1>1 DEF Off
<1>6. /\ walk' \in Walk /\ walk'.pc = "pop" /\ walk'.limit = size /\ walk'.found = {}
      /\ walk'.stack = <<root>> /\ walk'.results = <<>>
  BY <1>3, <1>4, <1>5 DEF Walk
<1>7. /\ DOMAIN walk'.stack = {1} /\ walk'.stack[1] = root
      /\ DOMAIN walk'.results = {} /\ Len(walk'.results) = 0
  BY <1>6
<1>8. Pending' = {root} /\ Files' = Files /\ \A p : Reported(p)' = Reported(p)
  <2>1. Pending' = {root}
    BY <1>6, <1>7 DEF Pending, Stacked
  <2>2. caller'.reported = caller.reported
    BY <1>1, <1>2, CallerTurns DEF Resting
  <2> QED BY <1>1, <2>1, <2>2 DEF Files, Reported
<1>9. /\ caller' \in Caller /\ caller'.pc = "waiting" /\ caller'.mode = caller.mode
      /\ caller'.after = caller.after /\ caller'.reported = caller.reported
  BY <1>1, <1>2, CallerTurns DEF Resting
<1>10. TypeOK'
  BY <1>1, <1>2, <1>3, <1>6, <1>9 DEF TypeOK, World
<1>11. Linked'
  BY <1>1, <1>2, <1>6, <1>9 DEF Linked, World, Resting, Rooted
<1>12. Ordered'
  BY <1>2, <1>6, <1>7, <1>9 DEF Ordered, Resting, Ascending
<1>13. Known'
  BY <1>1, <1>2, <1>4, <1>7, <1>8, <1>9 DEF Known, Resting
<1>14. Covered'
  <2>1. ASSUME NEW p \in history.always \cap Matching
        PROVE  Leads(root, p)
    BY <1>4, LocalListingAssumption DEF Leads
  <2>2. \A p \in history.always \cap Matching : Ahead(p)'
    BY <1>8, <2>1 DEF Ahead, Leads
  <2> QED BY <1>1, <1>2, <1>8, <1>9, <2>2 DEF Covered, Resting, World
<1>15. Unchanged'
  BY <1>1, <1>2, <1>4, <1>8, <1>9 DEF Unchanged, Resting
<1>16. ListingBounded'
  BY <1>1, <1>2, <1>3, <1>6, <1>7, <1>9 DEF ListingBounded, Resting
<1> QED BY <1>10, <1>11, <1>12, <1>13, <1>14, <1>15, <1>16 DEF IInv

-----------------------------------------------------------------------------
(* The end of a page                                                       *)

(* The parts of the invariant while a page is being made.                  *)
LEMMA Walking ==
    ASSUME IInv, walk.pc # "off"
    PROVE  /\ World /\ walk \in Walk /\ caller \in Caller /\ caller.pc = "waiting"
           /\ walk.limit # 0 /\ walk.stack \in Seq(Entry) /\ walk.results \in Seq(Paths)
           /\ walk.limit \in Nat /\ caller.reported \in Seq(Paths)
           /\ \A m \in DOMAIN walk.stack :
                 walk.stack[m] \in Entry /\ walk.stack[m].path \in Seq(Nat)
           /\ \A n \in DOMAIN walk.results : walk.results[n] \in Seq(Nat)
           /\ \A m \in DOMAIN caller.reported : caller.reported[m] \in Seq(Nat)
<1>1. /\ World /\ walk \in Walk /\ caller \in Caller /\ caller.pc = "waiting"
      /\ walk.limit # 0
  BY InvWorld DEF IInv, TypeOK, Linked
<1>2. /\ walk.stack \in Seq(Entry) /\ walk.results \in Seq(Paths) /\ walk.limit \in Nat
      /\ caller.reported \in Seq(Paths)
  BY <1>1 DEF Walk, Caller
<1>3. /\ \A m \in DOMAIN walk.stack : walk.stack[m] \in Entry
      /\ \A n \in DOMAIN walk.results : walk.results[n] \in Paths
      /\ \A m \in DOMAIN caller.reported : caller.reported[m] \in Paths
  BY <1>2, ElementOfSeq, LenProperties
<1>4. \A e \in Entry : e.path \in Paths
  BY DEF Entry
<1> QED BY <1>1, <1>2, <1>3, <1>4, PathsAreSeqs

LEMMA ErrorStep ==
    ASSUME IInv, walk.pc # "off", NEW kind \in {"io", "eio"},
           kind = "io" => ~history.quiet,
           ReturnError(kind), tree' = tree, history' = history
    PROVE  IInv'
<1>1. walk' = Off /\ caller' = [caller EXCEPT !.pc = kind]
  BY DEF ReturnError
<1>2. World /\ caller \in Caller /\ caller.pc = "waiting"
  BY Walking
<1>3. Files' = Files /\ World' /\ (walk = Off)'
  BY <1>1, <1>2 DEF Files, World, History, Rooted
<1>4. /\ caller' \in Caller /\ caller'.pc = kind /\ caller'.mode = caller.mode
      /\ caller'.after = caller.after /\ caller'.reported = caller.reported
  BY <1>1, <1>2, CallerTurns
<1>5. \A p : Reported(p)' = Reported(p)
  BY <1>4 DEF Reported
<1>6. /\ caller.after # None => caller.reported # <<>> /\ caller.after = Last(caller.reported)
      /\ caller.after = None => caller.reported = <<>>
      /\ Ascending(caller.reported) /\ Files \subseteq history.ever
      /\ \A m \in DOMAIN caller.reported : caller.reported[m] \in history.ever \cap Matching
  BY <1>2 DEF IInv, Linked, Ordered, Known
<1>7. \A p \in history.always \cap Matching :
         Reported(p) \/ (caller.after # None => Less(caller.after, p))
  BY DEF IInv, Covered
<1>8. /\ history.quiet /\ caller.after # None =>
            \E p \in Files \cap Matching : Less(caller.after, p)
      /\ caller.mode = "list" => Len(caller.reported) <= MaxItems
  BY DEF IInv, Unchanged, ListingBounded
<1>9. Resting'
  BY <1>3, <1>4, <1>5, <1>6, <1>7, <1>8 DEF Resting
<1> QED BY <1>3, <1>9, RestingInv, PTL

LEMMA EverFinite ==
    ASSUME IInv
    PROVE  IsFiniteSet(history.ever \cap Matching) /\ history.ever \cap Matching \subseteq Seq(Nat)
BY FS_Subset, LocalListingAssumption DEF IInv, TypeOK, History

LEMMA ManyStep ==
    ASSUME IInv, walk.pc # "off", caller.mode = "list", GivesUp(walk.results),
           walk' = Off, caller' = [caller EXCEPT !.pc = "toomany"],
           tree' = tree, history' = history
    PROVE  IInv'
<1> DEFINE Had == history.ever \cap Matching
<1>1. /\ World /\ caller \in Caller /\ caller.pc = "waiting"
      /\ walk.results \in Seq(Paths) /\ caller.reported \in Seq(Paths)
  BY Walking
<1>2. Files' = Files /\ World' /\ (walk = Off)'
  BY <1>1 DEF Files, World, History, Rooted
<1>3. /\ caller' \in Caller /\ caller'.pc = "toomany" /\ caller'.mode = caller.mode
      /\ caller'.after = caller.after /\ caller'.reported = caller.reported
  BY <1>1, CallerTurns
<1>4. \A p : Reported(p)' = Reported(p)
  BY <1>3 DEF Reported
<1>5. /\ caller.after # None => caller.reported # <<>> /\ caller.after = Last(caller.reported)
      /\ caller.after = None => caller.reported = <<>>
      /\ Ascending(caller.reported) /\ Ascending(walk.results) /\ Files \subseteq history.ever
      /\ \A m \in DOMAIN caller.reported, n \in DOMAIN walk.results :
            Less(caller.reported[m], walk.results[n])
      /\ \A m \in DOMAIN caller.reported : caller.reported[m] \in Had
      /\ \A n \in DOMAIN walk.results : walk.results[n] \in Had
  BY <1>1 DEF IInv, Linked, Ordered, Known
<1>6. \A p \in history.always \cap Matching :
         Reported(p) \/ (caller.after # None => Less(caller.after, p))
  BY DEF IInv, Covered
<1>7. /\ history.quiet /\ caller.after # None =>
            \E p \in Files \cap Matching : Less(caller.after, p)
      /\ Len(caller.reported) <= MaxItems
  BY DEF IInv, Unchanged, ListingBounded
<1>8. Cardinality(Had) > MaxItems
  <2>1. caller.reported \in Seq(Had) /\ walk.results \in Seq(Had)
    BY <1>1, <1>5
  <2>2. Ascending(caller.reported \o walk.results)
    BY <1>5, <2>1, AscendingJoined
  <2>3. Len(caller.reported) + Len(walk.results) > MaxItems
    BY DEF GivesUp
  <2> HIDE DEF Had
  <2> QED BY <2>1, <2>2, <2>3, EverFinite, MoreThan, LocalListingAssumption DEF Had
<1>9. Resting'
  BY <1>2, <1>3, <1>4, <1>5, <1>6, <1>7, <1>8 DEF Resting
<1> QED BY <1>2, <1>9, RestingInv, PTL

(* A page ends the listing, or its last key is the cursor.                 *)
LEMMA PageStep ==
    ASSUME IInv, walk.pc = "pop", NEW next, ReturnPage(walk.results, next),
           next # None => walk.results # <<>> /\ next = Last(walk.results),
           \A p \in history.always \cap Matching :
              Reported(p) \/ Taken(p) \/ (next # None /\ Less(next, p)),
           history.quiet /\ next # None => \E p \in Files \cap Matching : Less(next, p),
           tree' = tree, history' = history
    PROVE  IInv'
<1> DEFINE Had == history.ever \cap Matching
           got == caller.reported
           page == walk.results
           all == got \o page
           pc == IF next = None THEN "complete" ELSE "ready"
<1>1. /\ World /\ caller \in Caller /\ caller.pc = "waiting"
      /\ walk.results \in Seq(Paths) /\ caller.reported \in Seq(Paths)
  BY Walking
<1>2. walk' = Off
  BY DEF ReturnPage
<1>3. CASE caller.mode = "list" /\ GivesUp(walk.results)
  BY <1>2, <1>3, ManyStep DEF ReturnPage
<1>4. CASE ~(caller.mode = "list" /\ GivesUp(walk.results))
  <2>1. caller' = [caller EXCEPT !.pc = pc, !.after = next, !.reported = all]
    BY <1>4 DEF ReturnPage
  <2>2. /\ all \in Seq(Paths) /\ Len(all) = Len(caller.reported) + Len(walk.results)
        /\ walk.results # <<>> => /\ all # <<>> /\ Last(all) = Last(walk.results)
                                  /\ Last(all) \in Paths
    BY <1>1, Joined, JoinedNames
  <2>14. \A p : (\E m \in DOMAIN all : all[m] = p) <=> Reported(p) \/ Taken(p)
    <3>1. ToSet(all) = ToSet(got) \cup ToSet(page)
      BY <1>1, JoinedNames
    <3>2. \A p : Reported(p) <=> p \in ToSet(got)
      BY DEF Reported, ToSet
    <3>3. \A p : Taken(p) <=> p \in ToSet(page)
      BY DEF Taken, ToSet
    <3> HIDE DEF all
    <3>4. \A p : (\E m \in DOMAIN all : all[m] = p) <=> p \in ToSet(all)
      BY DEF ToSet
    <3> QED BY <3>1, <3>2, <3>3, <3>4
  <2>3. pc \in {"complete", "ready"} /\ (next = None <=> pc = "complete")
    OBVIOUS
  <2>4. /\ Ascending(caller.reported) /\ Ascending(walk.results) /\ Files \subseteq history.ever
        /\ \A m \in DOMAIN caller.reported, n \in DOMAIN walk.results :
              Less(caller.reported[m], walk.results[n])
        /\ \A m \in DOMAIN caller.reported : caller.reported[m] \in Had
        /\ \A n \in DOMAIN walk.results : walk.results[n] \in Had
    BY <1>1 DEF IInv, Linked, Ordered, Known
  <2>5. Ascending(all)
    BY <1>1, <2>4, AscendingJoined
  <2> HIDE DEF all, pc
  <2>6. next # None => next \in Paths /\ all # <<>> /\ next = Last(all)
    BY <2>2
  <2>7. /\ caller' \in Caller /\ caller'.pc = pc /\ caller'.mode = caller.mode
        /\ caller'.after = next /\ caller'.reported = all
    BY <1>1, <2>1, <2>2, <2>3, <2>6 DEF Caller
  <2>8. Files' = Files /\ World' /\ (walk = Off)'
    BY <1>1, <1>2 DEF Files, World, History, Rooted
  <2>9. \A m \in DOMAIN all : all[m] \in Had
    BY <2>4, <2>14 DEF Reported, Taken
  <2>10. \A p \in history.always \cap Matching :
            Reported(p)' \/ (next # None /\ Less(next, p))
    BY <2>7, <2>14 DEF Reported
  <2>11. caller.mode = "list" => Len(all) <= MaxItems
    <3>1. Len(all) \in Nat
      BY <2>2, LenProperties
    <3>2. \A a, b \in Nat : ~(a > b) => a <= b
      OBVIOUS
    <3>3. caller.mode = "list" => ~(Len(all) > MaxItems)
      BY <1>4, <2>2 DEF GivesUp
    <3> QED BY <3>1, <3>2, <3>3, LocalListingAssumption
  <2>12. Resting'
    BY <2>3, <2>4, <2>5, <2>6, <2>7, <2>8, <2>9, <2>10, <2>11 DEF Resting
  <2> QED BY <2>8, <2>12, RestingInv, PTL
<1> QED BY <1>3, <1>4

-----------------------------------------------------------------------------
(* Within a page                                                           *)

(* What the invariant says of the walk of a page.                          *)
Underway ==
    /\ walk \in Walk /\ walk.pc \in {"pop", "read"} /\ walk.limit # 0
    /\ Len(walk.results) <= walk.limit
    /\ walk.pc = "read" => walk.dir \in Paths
    /\ walk.pc = "pop" => walk.found = {}
    /\ Ordered
    /\ \A e \in Pending : e.kind = "file" /\ e.path \in Objects => e.path \in history.ever
    /\ \A n \in DOMAIN walk.results : walk.results[n] \in history.ever \cap Matching
    /\ \A p \in history.always \cap Matching : Reported(p) \/ Taken(p) \/ Ahead(p)
    /\ history.quiet => \A e \in Pending :
          /\ e.kind = "file" /\ e.path \in Objects => e.path \in Files
          /\ e.kind = "dir" => e.path = KeyRoot \/ tree[e.path] = Dir

LEMMA InvUnderway == ASSUME IInv, walk.pc # "off" PROVE Underway
<1>1. walk \in Walk /\ caller.pc = "waiting" /\ walk.limit # 0
  BY Walking
<1>2. walk.pc \in {"pop", "read"}
  BY <1>1 DEF Walk
<1>3. Len(walk.results) <= walk.limit
  BY DEF IInv, ListingBounded
<1>4. /\ walk.pc = "read" => walk.dir \in Paths
      /\ walk.pc = "pop" => walk.found = {}
  BY DEF IInv, Linked
<1>5. Ordered
  BY DEF IInv
<1>6. /\ \A e \in Pending : e.kind = "file" /\ e.path \in Objects => e.path \in history.ever
      /\ \A n \in DOMAIN walk.results : walk.results[n] \in history.ever \cap Matching
  BY DEF IInv, Known
<1>7. \A p \in history.always \cap Matching : Reported(p) \/ Taken(p) \/ Ahead(p)
  BY <1>1 DEF IInv, Covered
<1>8. history.quiet => \A e \in Pending :
          /\ e.kind = "file" /\ e.path \in Objects => e.path \in Files
          /\ e.kind = "dir" => e.path = KeyRoot \/ tree[e.path] = Dir
  BY DEF IInv, Unchanged
<1> QED BY <1>1, <1>2, <1>3, <1>4, <1>5, <1>6, <1>7, <1>8 DEF Underway

LEMMA UnderwayInv ==
    ASSUME IInv, walk.pc # "off", UNCHANGED <<tree, caller, history>>, Underway'
    PROVE  IInv'
<1>1. World /\ caller \in Caller /\ caller.pc = "waiting"
  BY Walking
<1>2. walk' \in Walk /\ walk'.pc # "off" /\ walk'.limit # 0
  BY DEF Underway
<1>3. Files' = Files /\ \A p : Reported(p)' = Reported(p)
  BY DEF Files, Reported
<1>4. TypeOK'
  BY <1>1, <1>2 DEF TypeOK, World
<1>5. Linked'
  BY <1>1, <1>2 DEF IInv, Linked, World, Rooted, Underway
<1>6. Ordered'
  BY DEF Underway
<1>7. Known'
  BY <1>3 DEF Underway, IInv, Known
<1>8. Covered'
  <2>1. \A p \in history.always \cap Matching : Reported(p) \/ Taken(p)' \/ Ahead(p)'
    BY <1>3 DEF Underway
  <2> QED BY <1>1, <1>3, <2>1 DEF IInv, Covered
<1>9. Unchanged'
  BY <1>3 DEF Underway, IInv, Unchanged
<1>10. ListingBounded'
  BY <1>1 DEF Underway, IInv, ListingBounded
<1> QED BY <1>4, <1>5, <1>6, <1>7, <1>8, <1>9, <1>10 DEF IInv

(* The top of the stack comes before the rest of it, and after the page.   *)
LEMMA TopFirst ==
    ASSUME IInv, walk.pc = "pop", walk.stack # <<>>
    PROVE  /\ Top \in Entry /\ Top \in Pending /\ Top.path \in Paths /\ Top.path \in Seq(Nat)
           /\ Front(walk.stack) \in Seq(Entry)
           /\ \A m \in DOMAIN Front(walk.stack) :
                 /\ m \in DOMAIN walk.stack /\ Front(walk.stack)[m] = walk.stack[m]
                 /\ Apart(Top.path, walk.stack[m].path)
           /\ \A e \in Pending : e = Top \/ \E m \in DOMAIN Front(walk.stack) :
                                               Front(walk.stack)[m] = e
           /\ \A n \in DOMAIN walk.results : Apart(walk.results[n], Top.path)
<1> DEFINE n == Len(walk.stack)
           rest == Front(walk.stack)
<1>1. walk.stack \in Seq(Entry)
  BY Walking
<1>2. /\ n \in Nat /\ n # 0 /\ Top \in Entry /\ rest \in Seq(Entry)
      /\ DOMAIN walk.stack = 1 .. n /\ DOMAIN rest = 1 .. n - 1
      /\ \A i \in 1 .. n - 1 : rest[i] = walk.stack[i]
  BY <1>1, Popped DEF Top
<1>3. Top = walk.stack[n]
  BY DEF Top, Last
<1> HIDE DEF n, rest
<1>4. n \in DOMAIN walk.stack
  BY <1>2
<1>5. /\ \A i, j \in DOMAIN walk.stack :
             i < j => Apart(walk.stack[j].path, walk.stack[i].path)
      /\ \A m \in DOMAIN walk.stack, k \in DOMAIN walk.results :
            Apart(walk.results[k], walk.stack[m].path)
      /\ walk.found = {}
  BY DEF IInv, Ordered, Linked
<1>6. ASSUME NEW m \in DOMAIN rest
      PROVE  /\ m \in DOMAIN walk.stack /\ rest[m] = walk.stack[m]
             /\ Apart(Top.path, walk.stack[m].path)
  <2>1. m \in DOMAIN walk.stack /\ rest[m] = walk.stack[m] /\ m < n
    BY <1>2
  <2> QED BY <1>3, <1>4, <1>5, <2>1
<1>7. ASSUME NEW e \in Pending PROVE e = Top \/ \E m \in DOMAIN rest : rest[m] = e
  <2>1. PICK m \in DOMAIN walk.stack : e = walk.stack[m]
    BY <1>5 DEF Pending, Stacked
  <2>2. m = n \/ m \in DOMAIN rest
    BY <1>2
  <2> QED BY <1>2, <1>3, <2>1, <2>2
<1>8. Top \in Pending
  BY <1>3, <1>4 DEF Pending, Stacked
<1>9. Top.path \in Paths /\ Top.path \in Seq(Nat)
  BY <1>2, PathsAreSeqs DEF Entry
<1> QED BY <1>2, <1>3, <1>4, <1>5, <1>6, <1>7, <1>8, <1>9 DEF rest

(* The top of the stack is passed over: there is nothing ahead of it.      *)
LEMMA PassStep ==
    ASSUME IInv, walk.pc = "pop", walk.stack # <<>>,
           walk' = [walk EXCEPT !.stack = Front(@)], UNCHANGED <<tree, caller, history>>,
           \A p \in history.always \cap Matching : Leads(Top, p) => Reported(p)
    PROVE  IInv'
<1> DEFINE rest == Front(walk.stack)
<1>1. Underway /\ walk \in Walk
  BY InvUnderway DEF Underway
<1>2. /\ rest \in Seq(Entry)
      /\ \A m \in DOMAIN rest : m \in DOMAIN walk.stack /\ rest[m] = walk.stack[m]
      /\ \A e \in Pending : e = Top \/ \E m \in DOMAIN rest : rest[m] = e
  BY TopFirst
<1> HIDE DEF rest
<1>3. /\ walk' \in Walk /\ walk'.pc = "pop" /\ walk'.stack = rest
      /\ walk'.found = walk.found /\ walk'.results = walk.results
      /\ walk'.limit = walk.limit
  BY <1>1, <1>2 DEF Walk, rest
<1>4. Pending' \subseteq Pending /\ \A e \in Pending : e = Top \/ e \in Pending'
  BY <1>2, <1>3 DEF Pending, Stacked
<1>5. Ordered'
  <2>1. \A i, j \in DOMAIN rest : i < j => Apart(rest[j].path, rest[i].path)
    BY <1>1, <1>2 DEF Underway, Ordered
  <2>2. \A m \in DOMAIN rest, n \in DOMAIN walk.results : Apart(walk.results[n], rest[m].path)
    BY <1>1, <1>2 DEF Underway, Ordered
  <2> QED BY <1>1, <1>3, <2>1, <2>2 DEF Underway, Ordered
<1>6. \A p \in history.always \cap Matching : Reported(p) \/ Taken(p) \/ Ahead(p)'
  <2>1. ASSUME NEW p \in history.always \cap Matching, Ahead(p), ~Reported(p)
        PROVE  Ahead(p)'
    <3>1. PICK e \in Pending : Leads(e, p)
      BY <2>1 DEF Ahead
    <3>2. e \in Pending'
      BY <1>4, <2>1, <3>1
    <3> QED BY <3>1, <3>2 DEF Ahead, Leads
  <2> QED BY <1>1, <2>1 DEF Underway
<1>7. /\ \A p : Reported(p)' = Reported(p) /\ Taken(p)' = Taken(p)
      /\ Files' = Files
  BY <1>3 DEF Reported, Taken, Files
<1>8. Underway'
  BY <1>1, <1>3, <1>4, <1>5, <1>6, <1>7 DEF Underway
<1> QED BY <1>8, UnderwayInv

LEMMA AlwaysThere ==
    ASSUME IInv, NEW p \in history.always
    PROVE  /\ p \in Objects /\ p \in Paths /\ p \in Seq(Nat) /\ tree[p] = File
           /\ \A q \in Ancestors(p) : tree[q] = Dir
BY Roots, DirectoryTreeAssumption DEF IInv, Linked, Covered, Files, Rooted

LEMMA SkipFileStep == ASSUME IInv, SkipFile PROVE IInv'
<1>1. /\ walk.pc = "pop" /\ walk.stack # <<>> /\ Top.kind = "file" /\ ~Wanted(Top.path)
      /\ walk' = [walk EXCEPT !.stack = Front(@)] /\ UNCHANGED <<tree, caller, history>>
  BY DEF SkipFile
<1>2. ASSUME NEW p \in history.always \cap Matching, Leads(Top, p) PROVE Reported(p)
  BY <1>1, <1>2 DEF Leads, Wanted, IInv, Covered
<1> QED BY <1>1, <1>2, PassStep

LEMMA OpenDirStep == ASSUME IInv, OpenDir PROVE IInv'
<1> DEFINE dir == Top.path
           rest == Front(walk.stack)
<1>1. /\ walk.pc = "pop" /\ walk.stack # <<>> /\ Top.kind = "dir"
      /\ tree' = tree /\ history' = history
  BY DEF OpenDir
<1>2. CASE /\ tree[dir] = Dir
           /\ walk' = [walk EXCEPT !.pc = "read", !.stack = rest, !.dir = dir,
                                   !.left = Children(dir)]
           /\ UNCHANGED caller
  <2>1. Underway /\ walk \in Walk
    BY <1>1, InvUnderway DEF Underway
  <2>2. /\ rest \in Seq(Entry) /\ dir \in Paths /\ dir \in Seq(Nat)
        /\ \A m \in DOMAIN rest : /\ m \in DOMAIN walk.stack /\ rest[m] = walk.stack[m]
                                  /\ Apart(dir, rest[m].path)
        /\ \A e \in Pending : e = Top \/ \E m \in DOMAIN rest : rest[m] = e
        /\ \A n \in DOMAIN walk.results : Apart(walk.results[n], dir)
    BY <1>1, TopFirst
  <2>3. Children(dir) \subseteq Paths
    BY DEF Children
  <2> HIDE DEF rest, dir
  <2>4. /\ walk' \in Walk /\ walk'.pc = "read" /\ walk'.stack = rest
        /\ walk'.dir = dir /\ walk'.left = Children(dir)
        /\ walk'.found = walk.found /\ walk'.results = walk.results
        /\ walk'.limit = walk.limit
    BY <1>2, <2>1, <2>2, <2>3 DEF Walk
  <2>5. walk.found = {}
    BY <1>1, <2>1 DEF Underway
  <2>6. Pending' \subseteq Pending /\ \A e \in Pending : e = Top \/ e \in Pending'
    BY <2>2, <2>4 DEF Pending, Stacked
  <2>7. Ordered'
    <3>1. \A i, j \in DOMAIN rest : i < j => Apart(rest[j].path, rest[i].path)
      BY <2>1, <2>2 DEF Underway, Ordered
    <3>2. \A m \in DOMAIN rest, n \in DOMAIN walk.results :
             Apart(walk.results[n], rest[m].path)
      BY <2>1, <2>2 DEF Underway, Ordered
    <3>3. IsFiniteSet({})
      BY FS_EmptySet
    <3> QED BY <1>2, <2>1, <2>2, <2>4, <2>5, <3>1, <3>2, <3>3 DEF Underway, Ordered
  <2>8. \A p \in history.always \cap Matching : Reported(p) \/ Taken(p) \/ Ahead(p)'
    <3>1. ASSUME NEW p \in history.always \cap Matching, Ahead(p)
          PROVE  Ahead(p)'
      <4>1. PICK e \in Pending : Leads(e, p)
        BY <1>1, <3>1 DEF Ahead
      <4>2. CASE e = Top
        <5>1. p \in Paths /\ dir \in Ancestors(p)
          BY <1>1, <4>1, <4>2, AlwaysThere DEF Leads, dir
        <5>2. \E c \in walk'.left : c \in UpTo(p)
          BY <2>4, <5>1, StepDown
        <5> QED BY <2>4, <5>2 DEF Ahead
      <4>3. CASE e \in Pending'
        BY <4>1, <4>3 DEF Ahead, Leads
      <4> QED BY <2>6, <4>2, <4>3
    <3> QED BY <2>1, <3>1 DEF Underway
  <2>9. /\ \A p : Reported(p)' = Reported(p) /\ Taken(p)' = Taken(p)
        /\ Files' = Files
    BY <1>1, <1>2, <2>4 DEF Reported, Taken, Files
  <2>10. Underway'
    BY <1>1, <2>1, <2>2, <2>4, <2>6, <2>7, <2>8, <2>9 DEF Underway
  <2> QED BY <1>1, <1>2, <2>10, UnderwayInv
<1>3. CASE /\ tree[dir] = Absent /\ walk' = [walk EXCEPT !.stack = Front(@)]
           /\ UNCHANGED caller
  <2>1. ASSUME NEW p \in history.always \cap Matching PROVE ~Leads(Top, p)
    <3>1. dir \in Ancestors(p) => tree[dir] = Dir
      BY AlwaysThere
    <3> QED BY <1>1, <1>3, <3>1, DirectoryTreeAssumption DEF Leads
  <2> QED BY <1>1, <1>3, <2>1, PassStep
<1>4. CASE tree[dir] \notin {Dir, Absent} /\ ReturnError("io")
  <2>1. ~history.quiet
    BY <1>1, <1>4, TopFirst DEF IInv, Unchanged, Linked
  <2> QED BY <1>1, <1>4, <2>1, ErrorStep
<1> QED BY <1>2, <1>3, <1>4 DEF OpenDir

LEMMA ReadEntryStep == ASSUME IInv, ReadEntry PROVE IInv'
<1>1. walk.pc = "read" /\ UNCHANGED <<tree, caller, history>>
  BY DEF ReadEntry
<1>2. PICK p \in walk.left :
          walk' = [walk EXCEPT !.left = @ \ {p},
                      !.found = CASE tree[p] = Dir  -> @ \cup {[kind |-> "dir", path |-> p]}
                                  [] tree[p] = File -> @ \cup {[kind |-> "file", path |-> p]}
                                  [] OTHER          -> @]
  BY DEF ReadEntry
<1>3. Underway /\ World /\ walk \in Walk
  BY <1>1, InvUnderway, Walking
<1>4. p \in Paths /\ p \in Children(walk.dir)
  BY <1>1, <1>3 DEF Underway, Ordered, Walk
<1> DEFINE seen == CASE tree[p] = Dir  -> {[kind |-> "dir", path |-> p]}
                     [] tree[p] = File -> {[kind |-> "file", path |-> p]}
                     [] OTHER          -> {}
<1>5. \A e \in seen : /\ e \in Entry /\ e.path = p
                      /\ e.kind = "dir" => tree[p] = Dir
                      /\ e.kind = "file" => tree[p] = File
  <2>1. CASE tree[p] = Dir
    BY <1>4, <2>1 DEF Entry
  <2>2. CASE tree[p] = File /\ tree[p] # Dir
    BY <1>4, <2>2 DEF Entry
  <2>3. CASE tree[p] # File /\ tree[p] # Dir
    BY <2>3
  <2> QED BY <2>1, <2>2, <2>3
<1>6. /\ tree[p] = Dir => [kind |-> "dir", path |-> p] \in seen
      /\ tree[p] = File => [kind |-> "file", path |-> p] \in seen
  BY DirectoryTreeAssumption
<1>7. IsFiniteSet(walk.found \cup seen)
  <2>1. IsFiniteSet(walk.found)
    BY <1>1, <1>3 DEF Underway, Ordered
  <2>2. seen = {} \/ \E e : seen = {e}
    OBVIOUS
  <2> QED BY <2>1, <2>2, FS_AddElement
<1>8. walk' = [walk EXCEPT !.left = walk.left \ {p}, !.found = walk.found \cup seen]
  <2>1. walk.found \cup seen =
          CASE tree[p] = Dir  -> walk.found \cup {[kind |-> "dir", path |-> p]}
            [] tree[p] = File -> walk.found \cup {[kind |-> "file", path |-> p]}
            [] OTHER          -> walk.found
    OBVIOUS
  <2> QED BY <1>2, <2>1
<1> HIDE DEF seen
<1>9. /\ walk' \in Walk /\ walk'.pc = "read" /\ walk'.stack = walk.stack
      /\ walk'.dir = walk.dir /\ walk'.left = walk.left \ {p}
      /\ walk'.found = walk.found \cup seen /\ walk'.results = walk.results
      /\ walk'.limit = walk.limit
  BY <1>1, <1>3, <1>5, <1>8 DEF Walk
<1>10. Pending' = Pending \cup seen
  BY <1>9 DEF Pending, Stacked
<1>11. Ordered'
  BY <1>1, <1>3, <1>4, <1>5, <1>7, <1>9 DEF Underway, Ordered
<1>12. \A e \in seen : /\ e.kind = "file" /\ e.path \in Objects => e.path \in Files
                       /\ e.kind = "dir" => tree[e.path] = Dir
  BY <1>5 DEF Files
<1>13. Files \subseteq history.ever
  BY <1>1, Walking DEF IInv, Known
<1>14. \A q \in history.always \cap Matching : Reported(q) \/ Taken(q) \/ Ahead(q)'
  <2>1. ASSUME NEW q \in history.always \cap Matching, Ahead(q)
        PROVE  Ahead(q)'
    <3>1. CASE \E e \in Pending : Leads(e, q)
      BY <1>10, <3>1 DEF Ahead, Leads
    <3>2. CASE \E c \in walk.left : c \in UpTo(q)
      <4>1. PICK c \in walk.left : c \in UpTo(q)
        BY <3>2
      <4>2. CASE c # p
        BY <1>9, <4>1, <4>2 DEF Ahead
      <4>3. CASE c = p
        <5>1. /\ p = q => tree[p] = File
              /\ p # q => p \in Ancestors(q) /\ tree[p] = Dir
          BY <4>1, <4>3, AlwaysThere DEF UpTo
        <5>2. \E e \in seen : Leads(e, q)
          BY <1>6, <5>1 DEF Leads
        <5> QED BY <1>10, <5>2 DEF Ahead, Leads
      <4> QED BY <4>2, <4>3
    <3> QED BY <2>1, <3>1, <3>2 DEF Ahead
  <2> QED BY <1>3, <2>1 DEF Underway
<1>15. /\ \A q : Reported(q)' = Reported(q) /\ Taken(q)' = Taken(q)
       /\ Files' = Files
  BY <1>1, <1>9 DEF Reported, Taken, Files
<1>16. Underway'
  BY <1>1, <1>3, <1>9, <1>10, <1>11, <1>12, <1>13, <1>14, <1>15 DEF Underway
<1> QED BY <1>1, <1>16, UnderwayInv

(* What is pushed on the stack lies before it.                             *)
LEMMA StackJoined ==
    ASSUME NEW s \in Seq(Entry), NEW t \in Seq(Entry), NEW r,
           \A i, j \in DOMAIN s : i < j => Apart(s[j].path, s[i].path),
           \A i, j \in DOMAIN t : i < j => Apart(t[j].path, t[i].path),
           \A i \in DOMAIN s, j \in DOMAIN t : Apart(t[j].path, s[i].path),
           \A i \in DOMAIN s, n \in DOMAIN r : Apart(r[n], s[i].path),
           \A i \in DOMAIN t, n \in DOMAIN r : Apart(r[n], t[i].path)
    PROVE  /\ \A i, j \in DOMAIN (s \o t) :
                 i < j => Apart((s \o t)[j].path, (s \o t)[i].path)
           /\ \A i \in DOMAIN (s \o t), n \in DOMAIN r : Apart(r[n], (s \o t)[i].path)
<1> DEFINE u == s \o t
           a == Len(s)
           b == Len(t)
<1>1. /\ DOMAIN u = 1 .. a + b /\ a \in Nat /\ b \in Nat
      /\ DOMAIN s = 1 .. a /\ DOMAIN t = 1 .. b
      /\ \A i \in 1 .. a : u[i] = s[i]
      /\ \A i \in a + 1 .. a + b : i - a \in 1 .. b /\ u[i] = t[i - a]
  BY Joined
<1> HIDE DEF u, a, b
<1>2. \A i \in DOMAIN u : \/ i \in DOMAIN s /\ u[i] = s[i]
                          \/ a < i /\ i - a \in DOMAIN t /\ u[i] = t[i - a]
  <2> SUFFICES ASSUME NEW i \in DOMAIN u
               PROVE  \/ i \in DOMAIN s /\ u[i] = s[i]
                      \/ a < i /\ i - a \in DOMAIN t /\ u[i] = t[i - a]
    OBVIOUS
  <2>1. i \in 1 .. a \/ i \in a + 1 .. a + b
    BY <1>1
  <2> QED BY <1>1, <2>1
<1>3. ASSUME NEW i \in DOMAIN u, NEW j \in DOMAIN u, i < j
      PROVE  Apart(u[j].path, u[i].path)
  <2>1. CASE i \in DOMAIN s /\ j \in DOMAIN s /\ u[i] = s[i] /\ u[j] = s[j]
    BY <1>3, <2>1
  <2>2. CASE i \in DOMAIN s /\ j - a \in DOMAIN t /\ u[i] = s[i] /\ u[j] = t[j - a]
    BY <2>2
  <2>3. CASE /\ a < i /\ i - a \in DOMAIN t /\ u[i] = t[i - a]
             /\ j - a \in DOMAIN t /\ u[j] = t[j - a]
    <3>1. i - a < j - a
      BY <1>1, <1>3
    <3> QED BY <2>3, <3>1
  <2>4. ~(a < i /\ j \in DOMAIN s)
    BY <1>1, <1>3
  <2> QED BY <1>2, <2>1, <2>2, <2>3, <2>4
<1>4. ASSUME NEW i \in DOMAIN u, NEW n \in DOMAIN r PROVE Apart(r[n], u[i].path)
  BY <1>2
<1> QED BY <1>3, <1>4 DEF u

LEMMA CloseDirStep == ASSUME IInv, CloseDir PROVE IInv'
<1>1. walk.pc = "read" /\ walk.left = {} /\ UNCHANGED <<tree, caller, history>>
  BY DEF CloseDir
<1>2. PICK kids \in SetToSeqs(walk.found) :
          /\ Sorted(kids)
          /\ walk' = [walk EXCEPT !.pc = "pop", !.stack = @ \o kids,
                                  !.dir = None, !.found = {}]
  BY DEF CloseDir
<1>3. Underway /\ walk \in Walk /\ walk.stack \in Seq(Entry)
  BY <1>1, InvUnderway, Walking
<1>4. walk.dir \in Paths /\ walk.dir \in Seq(Nat)
  BY <1>1, <1>3, PathsAreSeqs DEF Underway
<1>5. /\ \A e \in walk.found : e.path \in Children(walk.dir)
      /\ \A m \in DOMAIN walk.stack : Apart(walk.dir, walk.stack[m].path)
      /\ \A n \in DOMAIN walk.results : Apart(walk.results[n], walk.dir)
      /\ IsFiniteSet(walk.found) /\ walk.found \subseteq Entry
  BY <1>1, <1>3 DEF Underway, Ordered, Walk
<1>6. /\ kids \in Seq(walk.found) /\ kids \in Seq(Entry)
      /\ \A e \in walk.found : \E i \in DOMAIN kids : kids[i] = e
      /\ \A i \in DOMAIN kids : kids[i] \in walk.found
  BY <1>5, Listed, ElementOfSeq, LenProperties, SeqMonotonic
<1> DEFINE all == walk.stack \o kids
           stack == walk.stack
<1>7. stack \in Seq(Entry)
  BY <1>3
<1>8. \A i, j \in DOMAIN stack : i < j => Apart(stack[j].path, stack[i].path)
  BY <1>3 DEF Underway, Ordered
<1>9. \A i \in DOMAIN stack, n \in DOMAIN walk.results : Apart(walk.results[n], stack[i].path)
  BY <1>3 DEF Underway, Ordered
<1>10. \A i \in DOMAIN stack : stack[i].path \in Seq(Nat)
  BY <1>1, Walking
<1>11. \A i \in DOMAIN stack, j \in DOMAIN kids : Apart(kids[j].path, stack[i].path)
  BY <1>4, <1>5, <1>6, <1>10, ChildrenApart, ApartInherited
<1>12. \A n \in DOMAIN walk.results, j \in DOMAIN kids : Apart(walk.results[n], kids[j].path)
  <2>1. \A n \in DOMAIN walk.results : walk.results[n] \in Seq(Nat)
    BY <1>1, Walking
  <2> QED BY <1>4, <1>5, <1>6, <2>1, ChildrenApart, ApartInherited
<1>13. \A i, j \in DOMAIN kids : i < j => Apart(kids[j].path, kids[i].path)
  BY <1>2, <1>4, <1>5, <1>6, ChildrenApart DEF Sorted
<1>14. ToSet(stack \o kids) = ToSet(stack) \cup ToSet(kids) /\ stack \o kids \in Seq(Entry)
  BY <1>6, <1>7, Joined, JoinedNames
<1>15. ToSet(stack) = Stacked /\ ToSet(kids) = walk.found
  BY <1>6 DEF ToSet, Stacked
<1>16. all = stack \o kids
  OBVIOUS
<1> HIDE DEF all, stack
<1>17. /\ walk' \in Walk /\ walk'.pc = "pop" /\ walk'.stack = all
       /\ walk'.found = {} /\ walk'.results = walk.results /\ walk'.limit = walk.limit
  BY <1>2, <1>3, <1>14, <1>16 DEF Walk, all
<1>18. Pending' = Pending
  BY <1>14, <1>15, <1>16, <1>17 DEF Pending, Stacked, ToSet
<1>19. /\ \A i, j \in DOMAIN all : i < j => Apart(all[j].path, all[i].path)
       /\ \A i \in DOMAIN all, n \in DOMAIN walk.results : Apart(walk.results[n], all[i].path)
  BY <1>6, <1>7, <1>8, <1>9, <1>11, <1>12, <1>13, <1>16, StackJoined
<1>20. Ordered'
  BY <1>1, <1>3, <1>17, <1>19 DEF Underway, Ordered
<1>21. \A q \in history.always \cap Matching : Reported(q) \/ Taken(q) \/ Ahead(q)'
  <2>1. \A q : Ahead(q) => \E e \in Pending : Leads(e, q)
    BY <1>1 DEF Ahead
  <2> QED BY <1>3, <1>18, <2>1 DEF Underway, Ahead, Leads
<1>22. /\ \A q : Reported(q)' = Reported(q) /\ Taken(q)' = Taken(q)
       /\ Files' = Files
  BY <1>1, <1>17 DEF Reported, Taken, Files
<1>23. Underway'
  BY <1>1, <1>3, <1>17, <1>18, <1>20, <1>21, <1>22 DEF Underway
<1> QED BY <1>1, <1>23, UnderwayInv

LEMMA Appended ==
    ASSUME NEW S, NEW s \in Seq(S), NEW x \in S
    PROVE  /\ Append(s, x) \in Seq(S) /\ Len(Append(s, x)) = Len(s) + 1 /\ Len(s) \in Nat
           /\ \A i \in DOMAIN s : i \in DOMAIN Append(s, x) /\ Append(s, x)[i] = s[i]
           /\ Len(s) + 1 \in DOMAIN Append(s, x) /\ Append(s, x)[Len(s) + 1] = x
           /\ \A i \in DOMAIN Append(s, x) :
                 \/ i \in DOMAIN s /\ Append(s, x)[i] = s[i]
                 \/ i = Len(s) + 1 /\ Append(s, x)[i] = x /\ \A j \in DOMAIN s : j < i
<1>1. /\ Append(s, x) \in Seq(S) /\ Len(Append(s, x)) = Len(s) + 1
      /\ \A i \in 1 .. Len(s) : Append(s, x)[i] = s[i]
      /\ Append(s, x)[Len(s) + 1] = x
  BY AppendProperties
<1>2. /\ DOMAIN Append(s, x) = 1 .. Len(s) + 1 /\ DOMAIN s = 1 .. Len(s) /\ Len(s) \in Nat
  BY <1>1, LenProperties
<1> QED BY <1>1, <1>2

(* The file at the top is taken for the page.                              *)
LEMMA TakeStep ==
    ASSUME IInv, walk.pc = "pop", walk.stack # <<>>, Top.kind = "file",
           Wanted(Top.path), Len(walk.results) # walk.limit,
           walk' = [walk EXCEPT !.stack = Front(@), !.results = Append(@, Top.path)],
           UNCHANGED <<tree, caller, history>>
    PROVE  IInv'
<1> DEFINE rest == Front(walk.stack)
           f == Top.path
           page == walk.results
           more == Append(page, f)
           got == caller.reported
<1>1. Underway /\ walk \in Walk /\ page \in Seq(Paths) /\ walk.limit \in Nat
  BY InvUnderway, Walking
<1>2. /\ rest \in Seq(Entry) /\ f \in Paths /\ f \in Seq(Nat) /\ Top \in Pending
      /\ \A m \in DOMAIN rest : /\ m \in DOMAIN walk.stack /\ rest[m] = walk.stack[m]
                                /\ Apart(f, rest[m].path)
      /\ \A e \in Pending : e = Top \/ \E m \in DOMAIN rest : rest[m] = e
      /\ \A n \in DOMAIN page : Apart(page[n], f)
  BY TopFirst
<1>3. /\ more \in Seq(Paths) /\ Len(more) = Len(page) + 1 /\ Len(page) \in Nat
      /\ \A i \in DOMAIN page : i \in DOMAIN more /\ more[i] = page[i]
      /\ \E i \in DOMAIN more : more[i] = f
      /\ \A i \in DOMAIN more :
            \/ i \in DOMAIN page /\ more[i] = page[i]
            \/ i = Len(page) + 1 /\ more[i] = f /\ \A j \in DOMAIN page : j < i
  BY <1>1, <1>2, Appended
<1>4. /\ \A n \in DOMAIN page : page[n] \in Seq(Nat)
      /\ \A m \in DOMAIN got : got[m] \in Seq(Nat)
      /\ got \in Seq(Paths)
  BY Walking
<1>5. f \in Matching /\ f \in Objects /\ (caller.after # None => Less(caller.after, f))
  BY LocalListingAssumption DEF Wanted
<1>6. \A m \in DOMAIN got : Less(got[m], f)
  <2> SUFFICES ASSUME NEW m \in DOMAIN got PROVE Less(got[m], f)
    OBVIOUS
  <2>1. got # <<>>
    BY <1>4, LenProperties
  <2>2. caller.after # None /\ caller.after = Last(got)
    BY <2>1, Walking DEF IInv, Linked
  <2>3. /\ Len(got) \in Nat /\ DOMAIN got = 1 .. Len(got) /\ Len(got) \in DOMAIN got
    BY <1>4, <2>1, LenProperties
  <2>4. m = Len(got) \/ m < Len(got)
    BY <2>3
  <2>5. got[m] = caller.after \/ Less(got[m], caller.after)
    BY <2>2, <2>3, <2>4 DEF IInv, Ordered, Ascending, Last
  <2>6. caller.after \in Seq(Nat) /\ Less(caller.after, f)
    BY <1>4, <1>5, <2>2, <2>3 DEF Last
  <2> QED BY <1>2, <1>4, <2>5, <2>6, LessTransitive
<1> HIDE DEF rest, f, more
<1>7. /\ walk' \in Walk /\ walk'.pc = "pop" /\ walk'.stack = rest
      /\ walk'.found = walk.found /\ walk'.results = more
      /\ walk'.limit = walk.limit
  BY <1>1, <1>2, <1>3 DEF Walk, rest, more, f
<1>8. Pending' \subseteq Pending /\ \A e \in Pending : e = Top \/ e \in Pending'
  <2>1. Stacked' = {rest[m] : m \in DOMAIN rest}
    BY <1>7 DEF Stacked
  <2>2. Stacked' \subseteq Stacked
    <3>1. ASSUME NEW m \in DOMAIN rest PROVE rest[m] \in Stacked
      <4>1. m \in DOMAIN walk.stack /\ rest[m] = walk.stack[m]
        BY <1>2
      <4> QED BY <4>1 DEF Stacked
    <3> QED BY <2>1, <3>1
  <2>3. \A e \in Pending : e = Top \/ e \in Stacked'
    BY <1>2, <2>1
  <2> QED BY <1>7, <2>2, <2>3 DEF Pending
<1>9. Ordered'
  <2>1. \A i, j \in DOMAIN rest : i < j => Apart(rest[j].path, rest[i].path)
    BY <1>1, <1>2 DEF Underway, Ordered
  <2>2. \A m \in DOMAIN rest, n \in DOMAIN page : Apart(page[n], rest[m].path)
    BY <1>1, <1>2 DEF Underway, Ordered
  <2>3. \A m \in DOMAIN rest, n \in DOMAIN more : Apart(more[n], rest[m].path)
    BY <1>2, <1>3, <2>2
  <2>4. \A n \in DOMAIN page : Less(page[n], f)
    BY <1>2, <1>4, LessMeans
  <2>5. \A i, j \in DOMAIN page : i < j => Less(page[i], page[j])
    BY <1>1 DEF Underway, Ordered, Ascending
  <2>6. ASSUME NEW i \in DOMAIN more, NEW j \in DOMAIN more, i < j
        PROVE  Less(more[i], more[j])
    <3>1. DOMAIN page \subseteq Nat
      BY <1>1, LenProperties
    <3>2. CASE j \in DOMAIN page /\ more[j] = page[j]
      <4>1. i # Len(page) + 1 \/ ~(\A k \in DOMAIN page : k < i)
        BY <1>3, <2>6, <3>1, <3>2
      <4>2. i \in DOMAIN page /\ more[i] = page[i]
        BY <1>3, <4>1
      <4> QED BY <2>5, <2>6, <3>2, <4>2
    <3>3. CASE j = Len(page) + 1 /\ more[j] = f
      <4>1. i \in DOMAIN page /\ more[i] = page[i]
        BY <1>3, <2>6, <3>3
      <4> QED BY <2>4, <3>3, <4>1
    <3> QED BY <1>3, <3>2, <3>3
  <2>7. Ascending(more)
    BY <2>6 DEF Ascending
  <2>8. \A m \in DOMAIN got, n \in DOMAIN more : Less(got[m], more[n])
    BY <1>1, <1>3, <1>6 DEF Underway, Ordered
  <2> QED BY <1>1, <1>7, <2>1, <2>3, <2>7, <2>8 DEF Underway, Ordered
<1>10. \A n \in DOMAIN more : more[n] \in history.ever \cap Matching
  BY <1>1, <1>2, <1>3, <1>5 DEF Underway, f
<1>11. \A p : Taken(p) => Taken(p)'
  BY <1>3, <1>7 DEF Taken
<1>12. \A p : p = f => Taken(p)'
  BY <1>3, <1>7 DEF Taken
<1>13. \A p \in history.always \cap Matching : Reported(p) \/ Taken(p)' \/ Ahead(p)'
  <2>1. ASSUME NEW p \in history.always \cap Matching, Ahead(p), ~Taken(p)'
        PROVE  Ahead(p)'
    <3>1. PICK e \in Pending : Leads(e, p)
      BY <2>1 DEF Ahead
    <3>2. e # Top
      BY <1>12, <2>1, <3>1 DEF Leads, f
    <3> QED BY <1>8, <3>1, <3>2 DEF Ahead, Leads
  <2> QED BY <1>1, <1>11, <2>1 DEF Underway
<1>14. Files' = Files /\ \A p : Reported(p)' = Reported(p)
  BY DEF Files, Reported
<1>15. Len(more) <= walk.limit
  <2>1. Len(page) <= walk.limit
    BY <1>1 DEF Underway
  <2>2. \A a, b \in Nat : a <= b /\ a # b => a + 1 <= b
    OBVIOUS
  <2> QED BY <1>1, <1>3, <2>1, <2>2
<1>16. Underway'
  BY <1>1, <1>7, <1>8, <1>9, <1>10, <1>13, <1>14, <1>15 DEF Underway
<1> QED BY <1>16, UnderwayInv

LEMMA TakeFileStep == ASSUME IInv, TakeFile PROVE IInv'
<1>1. /\ walk.pc = "pop" /\ walk.stack # <<>> /\ Top.kind = "file"
      /\ Wanted(Top.path) /\ UNCHANGED <<tree, history>>
  BY DEF TakeFile
<1>2. Top.path \in Matching /\ Top.path \in Objects
  BY <1>1, LocalListingAssumption DEF Wanted
<1>3. /\ Top \in Pending
      /\ \A n \in DOMAIN walk.results : Apart(walk.results[n], Top.path)
      /\ Top.path \in Seq(Nat)
  BY <1>1, TopFirst
<1>4. history.quiet => Top.path \in Files
  BY <1>1, <1>2, <1>3 DEF IInv, Unchanged
<1>5. CASE Len(walk.results) = walk.limit /\ ReturnPage(walk.results, Last(walk.results))
  <2> DEFINE next == Last(walk.results)
             page == walk.results
  <2>1. page \in Seq(Paths) /\ Len(page) # 0 /\ \A n \in DOMAIN page : page[n] \in Seq(Nat)
    BY <1>1, <1>5, Walking
  <2>2. page # <<>>
    BY <2>1, EmptySeq
  <2>3. Len(page) \in DOMAIN page /\ next = page[Len(page)]
    BY <2>1, <2>2, LenProperties DEF Last
  <2>4. ASSUME NEW p \in history.always \cap Matching, ~Reported(p), ~Taken(p)
        PROVE  Less(next, p)
    <3>1. Ahead(p)
      BY <1>1, <2>4, Walking DEF IInv, Covered
    <3>2. PICK m \in DOMAIN walk.stack : Leads(walk.stack[m], p)
      BY <1>1, <3>1 DEF Ahead, Pending, Stacked, IInv, Linked
    <3>3. walk.stack[m].path \in UpTo(p) /\ walk.stack[m].path \in Seq(Nat) /\ p \in Seq(Nat)
      BY <1>1, <3>2, Walking, AlwaysThere DEF Leads, UpTo
    <3>4. Apart(next, walk.stack[m].path)
      BY <2>3 DEF IInv, Ordered
    <3> QED BY <2>1, <2>3, <3>3, <3>4, ApartInherited, LessMeans
  <2>5. history.quiet => \E p \in Files \cap Matching : Less(next, p)
    BY <1>2, <1>3, <1>4, <2>1, <2>3, LessMeans
  <2>6. next # None
    BY <2>1, <2>3, ElementOfSeq, LenProperties, LocalListingAssumption
  <2> HIDE DEF next
  <2>7. ReturnPage(walk.results, next)
    BY <1>5 DEF next
  <2>8. next = Last(walk.results)
    BY DEF next
  <2> QED BY <1>1, <2>2, <2>4, <2>5, <2>6, <2>7, <2>8, PageStep
<1>6. CASE /\ Len(walk.results) # walk.limit /\ UNCHANGED caller
           /\ walk' = [walk EXCEPT !.stack = Front(@), !.results = Append(@, Top.path)]
  BY <1>1, <1>6, TakeStep
<1>7. CASE tree[Top.path] = Absent /\ ReturnError("io")
  <2>1. ~history.quiet
    BY <1>4, <1>7, DirectoryTreeAssumption DEF Files
  <2> QED BY <1>1, <1>7, <2>1, ErrorStep
<1> QED BY <1>5, <1>6, <1>7 DEF TakeFile

LEMMA EndWalkStep == ASSUME IInv, EndWalk PROVE IInv'
<1>1. /\ walk.pc = "pop" /\ walk.stack = <<>> /\ ReturnPage(walk.results, None)
      /\ tree' = tree /\ history' = history
  BY DEF EndWalk
<1>2. Pending = {}
  <2>1. DOMAIN walk.stack = {}
    BY <1>1
  <2> QED BY <1>1, <2>1 DEF Pending, Stacked, IInv, Linked
<1>3. \A p \in history.always \cap Matching : Reported(p) \/ Taken(p)
  BY <1>1, <1>2, InvUnderway DEF Underway, Ahead
<1> QED BY <1>1, <1>3, PageStep

LEMMA WalkFailsStep == ASSUME IInv, WalkFails PROVE IInv'
BY ErrorStep DEF WalkFails

-----------------------------------------------------------------------------
(* Every step                                                              *)

LEMMA OthersStep == ASSUME IInv, Others PROVE IInv'
<1>1. /\ Next /\ walk' = walk /\ caller' = caller
      /\ history' = [always |-> history.always \cap Files',
                     ever   |-> history.ever \cup Files',
                     quiet  |-> history.quiet /\ tree' = tree]
  BY DEF Others
<1>2. /\ TypeOK /\ Linked /\ Ordered /\ Known /\ Covered /\ Unchanged /\ ListingBounded
  BY DEF IInv
<1>3. /\ tree' \in [Paths -> {Absent, Dir, Link, File}] /\ Rooted'
      /\ tree'[KeyRoot] \in {Absent, Dir}
  BY <1>1, <1>2, TreeStep DEF TypeOK, Linked
<1>4. /\ history'.always = history.always \cap Files'
      /\ history'.ever = history.ever \cup Files'
      /\ history'.quiet => history.quiet /\ tree' = tree
  BY <1>1
<1>5. Files' \subseteq Objects
  BY DEF Files
<1>6. history' \in History
  BY <1>1, <1>2, <1>5 DEF TypeOK, History
<1>7. /\ Pending' = Pending /\ \A p : Reported(p)' = Reported(p)
      /\ \A p : Taken(p)' = Taken(p) /\ Ahead(p)' = Ahead(p)
  <2>1. Pending' = Pending
    BY <1>1 DEF Pending, Stacked
  <2>2. \A p : Ahead(p)' = Ahead(p)
    BY <1>1, <2>1 DEF Ahead, Leads
  <2> QED BY <1>1, <2>1, <2>2 DEF Reported, Taken
<1>8. TypeOK'
  BY <1>1, <1>2, <1>3, <1>6 DEF TypeOK
<1>9. Linked'
  BY <1>1, <1>2, <1>3 DEF Linked
<1>10. Ordered'
  BY <1>1, <1>2 DEF Ordered
<1>11. Known'
  BY <1>1, <1>2, <1>4, <1>7 DEF Known
<1>12. Covered'
  BY <1>1, <1>2, <1>4, <1>7 DEF Covered
<1>13. Unchanged'
  <2> SUFFICES ASSUME history'.quiet PROVE Unchanged'
    BY DEF Unchanged
  <2>1. history.quiet /\ tree' = tree /\ Files' = Files
    BY <1>4 DEF Files
  <2> QED BY <1>1, <1>2, <1>7, <2>1 DEF Unchanged
<1>14. ListingBounded'
  <2>1. caller.pc = "toomany" /\ caller.mode = "list" =>
           Cardinality(history'.ever \cap Matching) > MaxItems
    <3> SUFFICES ASSUME caller.pc = "toomany", caller.mode = "list"
                 PROVE  Cardinality(history'.ever \cap Matching) > MaxItems
      OBVIOUS
    <3> DEFINE S == history.ever \cap Matching
               T == history'.ever \cap Matching
    <3>1. IsFiniteSet(T) /\ S \subseteq T
      BY <1>4, <1>6, FS_Subset, LocalListingAssumption DEF History
    <3>2. Cardinality(S) > MaxItems
      BY <1>2 DEF ListingBounded
    <3> HIDE DEF S, T
    <3>3. Cardinality(S) <= Cardinality(T)
      BY <3>1, FS_Subset
    <3>4. Cardinality(S) \in Nat /\ Cardinality(T) \in Nat
      BY <3>1, FS_Subset, FS_CardinalityType
    <3>5. Cardinality(T) > MaxItems
      BY <3>2, <3>3, <3>4, LocalListingAssumption
    <3> QED BY <3>5 DEF T
  <2> QED BY <1>1, <1>2, <2>1 DEF ListingBounded
<1> QED BY <1>8, <1>9, <1>10, <1>11, <1>12, <1>13, <1>14 DEF IInv

LEMMA InvStep == IInv /\ [ListingNext]_vars => IInv'
<1> SUFFICES ASSUME IInv, [ListingNext]_vars PROVE IInv'
  OBVIOUS
<1>1. CASE \E mode \in {"pages", "list"} : Start(mode)
  BY <1>1, StartStep
<1>2. CASE \E limit \in Limits \cup {DefaultPageSize} : CallPage(limit)
  BY <1>2, CallPageStep
<1>3. CASE Retry
  BY <1>3, RetryStep
<1>4. CASE Stop
  BY <1>4, StopStep
<1>5. CASE OpenDir
  BY <1>5, OpenDirStep
<1>6. CASE ReadEntry
  BY <1>6, ReadEntryStep
<1>7. CASE CloseDir
  BY <1>7, CloseDirStep
<1>8. CASE SkipFile
  BY <1>8, SkipFileStep
<1>9. CASE TakeFile
  BY <1>9, TakeFileStep
<1>10. CASE EndWalk
  BY <1>10, EndWalkStep
<1>11. CASE WalkFails
  BY <1>11, WalkFailsStep
<1>12. CASE Others
  BY <1>12, OthersStep
<1>13. CASE UNCHANGED vars
  <2>1. tree' = tree /\ walk' = walk /\ caller' = caller /\ history' = history
    BY <1>13 DEF vars
  <2>2. /\ Files' = Files /\ Pending' = Pending /\ \A p : Reported(p)' = Reported(p)
        /\ \A p : Taken(p)' = Taken(p) /\ Ahead(p)' = Ahead(p)
    BY <2>1 DEF Files, Pending, Stacked, Reported, Taken, Ahead, Leads
  <2> QED BY <2>1, <2>2 DEF IInv, TypeOK, Linked, Rooted, Ordered, Known, Covered,
                            Unchanged, ListingBounded
<1> QED BY <1>1, <1>2, <1>3, <1>4, <1>5, <1>6, <1>7, <1>8, <1>9, <1>10, <1>11, <1>12, <1>13
        DEF ListingNext, WalkStep

LEMMA InvAlways == ListingSpec => []IInv
BY InvInit, InvStep, PTL DEF ListingSpec

-----------------------------------------------------------------------------
(* The theorems                                                            *)

(* The expect in list_page never fails: a page that is full has an entry.  *)
THEOREM ListingTyped == ListingSpec => []TypeOK
<1>1. IInv => TypeOK
  BY DEF IInv
<1> QED BY <1>1, InvAlways, PTL

(* The cursors of list_page lead through the keys in the order of the      *)
(* walk, none of them twice, whatever other calls store and delete, and    *)
(* however often a page that failed is asked for again.                    *)
THEOREM NeverGoesBack == ListingSpec => []ReportedInOrder
<1>1. ASSUME IInv PROVE ReportedInOrder
  <2> DEFINE got == caller.reported
             page == walk.results
  <2>1. got \in Seq(Paths) /\ page \in Seq(Paths)
    BY <1>1 DEF IInv, TypeOK, Walk, Caller
  <2>2. /\ Ascending(got) /\ Ascending(page)
        /\ \A m \in DOMAIN got, n \in DOMAIN page : Less(got[m], page[n])
    BY <1>1 DEF IInv, Ordered
  <2>3. Ascending(got \o page)
    BY <2>1, <2>2, AscendingJoined
  <2> QED BY <2>3 DEF ReportedInOrder, Ascending, Got
<1> QED BY <1>1, InvAlways, PTL

(* A full walk of pages reports every object that was there from its start *)
(* to its end, and nothing that was never there or lacks the prefix.       *)
THEOREM ReportsExactly == ListingSpec => []ReportsWhatIsThere
<1>1. ASSUME IInv PROVE ReportsWhatIsThere
  <2> DEFINE got == caller.reported
             page == walk.results
  <2>1. got \in Seq(Paths) /\ page \in Seq(Paths)
    BY <1>1 DEF IInv, TypeOK, Walk, Caller
  <2>2. /\ \A m \in DOMAIN got : got[m] \in history.ever \cap Matching
        /\ \A n \in DOMAIN page : page[n] \in history.ever \cap Matching
    BY <1>1 DEF IInv, Known
  <2>3. ToSet(got \o page) = ToSet(got) \cup ToSet(page)
    BY <2>1, JoinedNames
  <2>4. ToSet(Got) \subseteq history.ever \cap Matching
    BY <2>2, <2>3 DEF Got, ToSet
  <2>5. caller.pc = "complete" => history.always \cap Matching \subseteq ToSet(got)
    BY <1>1 DEF IInv, Covered, Reported, ToSet
  <2> QED BY <2>4, <2>5 DEF ReportsWhatIsThere
<1> QED BY <1>1, InvAlways, PTL

(* list_page keeps to its limit; list refuses more than LIST_MAX_ITEMS     *)
(* objects without ever holding them, and refuses nothing smaller.         *)
THEOREM ListingAlwaysBounded == ListingSpec => []ListingBounded
<1>1. IInv => ListingBounded
  BY DEF IInv
<1> QED BY <1>1, InvAlways, PTL

(* While nothing is stored or deleted, list_page hands out a cursor only   *)
(* if something is left to report.                                         *)
THEOREM CursorAlwaysMeansMore == ListingSpec => []CursorMeansMore
<1>1. IInv => CursorMeansMore
  BY DEF IInv, Unchanged, CursorMeansMore
<1> QED BY <1>1, InvAlways, PTL

(* list_page fails on a sound disk only if another call took something     *)
(* away under it: the walk opens no file and takes no directory for one.   *)
THEOREM FailsOnlyIfDisturbed == ListingSpec => []FailsOnlyOnChange
<1>1. IInv => FailsOnlyOnChange
  BY DEF IInv, Unchanged, FailsOnlyOnChange
<1> QED BY <1>1, InvAlways, PTL
=============================================================================
