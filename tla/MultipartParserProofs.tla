------------------------ MODULE MultipartParserProofs ------------------------
(***************************************************************************)
(* What the functions of MultipartParser return, for any body, any limits  *)
(* and any state of the parser.  Multipart and Uploads are proved from it. *)
(***************************************************************************)
EXTENDS MultipartParser, FiniteSetTheorems, WellFoundedInduction, TLAPS

LEMMA NewParserType ==
    ASSUME NEW limits \in LimitsType
    PROVE  NewParser(limits) \in ParserType
  BY DEF NewParser, ParserType

(* Content never moves the parser or its counters.                         *)
LEMMA ContentOutcome ==
    ASSUME NEW b, NEW p \in ParserType, NEW o \in Content(b, p)
    PROVE  /\ o.p \in ParserType /\ o.tag \in {"read", "error"}
           /\ o.p.limits = p.limits /\ o.p.at = p.at
           /\ o.p.fields = p.fields /\ o.p.files = p.files
<1> DEFINE done == [p EXCEPT !.open = FALSE]
           cut(x) == [p EXCEPT !.broken = x]
<1>1. \/ o = Outcome("error", p)
      \/ o = Outcome("read", done)
      \/ \E x \in BOOLEAN : o = Outcome("error", cut(x))
  BY DEF Content, SizeErrors
<1>2. CASE o = Outcome("error", p)
  BY <1>2 DEF Outcome
<1>3. CASE o = Outcome("read", done)
  BY <1>3 DEF Outcome, ParserType
<1>4. CASE \E x \in BOOLEAN : o = Outcome("error", cut(x))
  BY <1>4 DEF Outcome, ParserType
<1> QED BY <1>1, <1>2, <1>3, <1>4

(* Past the end nothing comes, and a header is that of the next part.      *)
LEMMA HeaderOutcome ==
    ASSUME NEW b, Len(b) \in Nat, NEW p \in ParserType, p.at <= Len(b)
    PROVE  LET o == Header(b, p) IN
           /\ o.p \in ParserType /\ o.tag \in {"field", "end", "error"}
           /\ o.p.limits = p.limits /\ o.p.at <= Len(b) /\ p.at <= o.p.at
           /\ o.p.fields = p.fields /\ o.p.files = p.files
           /\ o.tag = "field" => o.p.at = p.at + 1 /\ o.p.open
<1> DEFINE moved == [p EXCEPT !.at = @ + 1]
           next == [moved EXCEPT !.open = TRUE]
<1>0. p.at \in Nat
  BY DEF ParserType
<1>b. /\ moved \in ParserType /\ moved.limits = p.limits /\ moved.at = p.at + 1
      /\ moved.fields = p.fields /\ moved.files = p.files
  BY DEF ParserType
<1>a. /\ next \in ParserType /\ next.limits = p.limits /\ next.at = p.at + 1
      /\ next.fields = p.fields /\ next.files = p.files /\ next.open = TRUE
  <2> HIDE DEF moved
  <2> QED BY <1>b DEF ParserType
<1>1. \/ p.at = Len(b) /\ Header(b, p) = Outcome("end", p)
      \/ /\ p.at # Len(b)
         /\ \E tag \in {"error", "field"} : Header(b, p) = Outcome(tag, next)
  BY DEF Header
<1> HIDE DEF next, moved
<1>2. CASE p.at = Len(b) /\ Header(b, p) = Outcome("end", p)
  BY <1>0, <1>2 DEF Outcome
<1>3. CASE /\ p.at # Len(b)
           /\ \E tag \in {"error", "field"} : Header(b, p) = Outcome(tag, next)
  BY <1>0, <1>a, <1>3 DEF Outcome
<1> QED BY <1>1, <1>2, <1>3

(* The counters are raised one at a time, and nothing else changes.        *)
LEMMA Raised ==
    ASSUME NEW p \in ParserType
    PROVE  /\ LET q == [p EXCEPT !.fields = @ + 1] IN
              /\ q \in ParserType /\ q.limits = p.limits /\ q.at = p.at
              /\ q.open = p.open
              /\ q.fields = p.fields + 1 /\ q.files = p.files
           /\ LET r == [p EXCEPT !.files = @ + 1] IN
              /\ r \in ParserType /\ r.limits = p.limits /\ r.at = p.at
              /\ r.open = p.open
              /\ r.fields = p.fields /\ r.files = p.files + 1
  BY DEF ParserType

(* What record lets through is within both limits, after it was counted.   *)
LEMMA RecordedOutcome ==
    ASSUME NEW p \in ParserType, NEW isFile \in BOOLEAN
    PROVE  LET o == Recorded(p, isFile) IN
           /\ o.p \in ParserType /\ o.tag \in {"field", "error"}
           /\ o.p.limits = p.limits /\ o.p.at = p.at /\ o.p.open = p.open
           /\ o.p.fields >= p.fields /\ o.p.files >= p.files
           /\ o.tag = "field" =>
                 /\ o.p.fields = p.fields + 1
                 /\ ~Over(o.p.fields, p.limits.fields)
                 /\ isFile => /\ o.p.files = p.files + 1
                              /\ ~Over(o.p.files, p.limits.files)
<1> DEFINE q == [p EXCEPT !.fields = @ + 1]
           r == [q EXCEPT !.files = @ + 1]
<1>0. /\ q \in ParserType /\ q.fields = p.fields + 1 /\ q.files = p.files
      /\ q.limits = p.limits /\ q.at = p.at /\ q.open = p.open
  BY Raised
<1>1. /\ r \in ParserType /\ r.fields = p.fields + 1 /\ r.files = p.files + 1
      /\ r.limits = p.limits /\ r.at = p.at /\ r.open = p.open
  <2> HIDE DEF q
  <2> QED BY <1>0, Raised
<1>2. p.fields \in Nat /\ p.files \in Nat
  BY DEF ParserType
<1>a. Recorded(p, isFile) =
          IF Over(q.fields, p.limits.fields) THEN Outcome("error", q)
          ELSE IF ~isFile THEN Outcome("field", q)
          ELSE Outcome(IF Over(r.files, p.limits.files) THEN "error" ELSE "field", r)
  BY DEF Recorded
<1> HIDE DEF q, r
<1>3. CASE Over(q.fields, p.limits.fields)
  <2>1. Recorded(p, isFile) = Outcome("error", q)
    BY <1>a, <1>3
  <2> QED BY <2>1, <1>0, <1>2 DEF Outcome
<1>4. CASE ~Over(q.fields, p.limits.fields) /\ ~isFile
  <2>1. Recorded(p, isFile) = Outcome("field", q)
    BY <1>a, <1>4
  <2> QED BY <2>1, <1>0, <1>2, <1>4 DEF Outcome
<1>5. CASE ~Over(q.fields, p.limits.fields) /\ isFile
  <2>1. CASE Over(r.files, p.limits.files)
    <3>1. Recorded(p, isFile) = Outcome("error", r)
      BY <1>a, <1>5, <2>1
    <3> QED BY <3>1, <1>1, <1>2 DEF Outcome
  <2>2. CASE ~Over(r.files, p.limits.files)
    <3>1. Recorded(p, isFile) = Outcome("field", r)
      BY <1>a, <1>5, <2>2
    <3>2. q.fields = r.fields
      BY <1>0, <1>1
    <3> QED BY <3>1, <3>2, <1>1, <1>2, <1>5, <2>2 DEF Outcome
  <2> QED BY <2>1, <2>2
<1> QED BY <1>3, <1>4, <1>5

(* next_field: either a part after the last one within the limits, or      *)
(* none, and the counters never go down.                                   *)
LEMMA NextFieldOutcome ==
    ASSUME NEW b, Len(b) \in Nat, NEW p \in ParserType, p.at <= Len(b),
           NEW o \in NextField(b, p)
    PROVE  /\ o.p \in ParserType /\ o.tag \in {"field", "end", "error"}
           /\ o.p.limits = p.limits /\ o.p.at <= Len(b) /\ p.at <= o.p.at
           /\ o.p.fields >= p.fields /\ o.p.files >= p.files
           /\ o.tag = "field" =>
                 /\ o.p.at = p.at + 1 /\ o.p.open
                 /\ o.p.fields = p.fields + 1
                 /\ ~Over(o.p.fields, p.limits.fields)
                 /\ IsFile(b[o.p.at]) => /\ o.p.files = p.files + 1
                                         /\ ~Over(o.p.files, p.limits.files)
<1>0. p.fields \in Nat /\ p.files \in Nat /\ p.at \in Nat
  BY DEF ParserType
<1>1. PICK h \in Polled(b, p) :
          o = IF h.tag = "field" THEN Recorded(h.p, IsFile(b[h.p.at])) ELSE h
  BY DEF NextField
<1>2. PICK c \in Content(b, p) :
          h = IF c.tag = "read" THEN Header(b, c.p) ELSE c
  BY DEF Polled
<1>3. /\ c.p \in ParserType /\ c.tag \in {"read", "error"}
      /\ c.p.limits = p.limits /\ c.p.at = p.at
      /\ c.p.fields = p.fields /\ c.p.files = p.files
  BY ContentOutcome
<1>4. /\ h.p \in ParserType /\ h.tag \in {"field", "end", "error"}
      /\ h.p.limits = p.limits /\ h.p.at <= Len(b) /\ p.at <= h.p.at
      /\ h.p.fields = p.fields /\ h.p.files = p.files
      /\ h.tag = "field" => h.p.at = p.at + 1 /\ h.p.open
  <2>1. CASE c.tag = "read"
    <3>1. h = Header(b, c.p)
      BY <1>2, <2>1
    <3> QED BY <3>1, <1>3, HeaderOutcome
  <2>2. CASE c.tag = "error"
    BY <1>0, <1>2, <1>3, <2>2
  <2> QED BY <2>1, <2>2, <1>3
<1>5. CASE h.tag # "field"
  BY <1>0, <1>1, <1>4, <1>5
<1>6. CASE h.tag = "field"
  <2>1. o = Recorded(h.p, IsFile(b[h.p.at]))
    BY <1>1, <1>6
  <2>2. IsFile(b[h.p.at]) \in BOOLEAN
    BY DEF IsFile
  <2> HIDE DEF Recorded
  <2>3. /\ o.p \in ParserType /\ o.tag \in {"field", "error"}
        /\ o.p.limits = h.p.limits /\ o.p.at = h.p.at /\ o.p.open = h.p.open
        /\ o.p.fields >= h.p.fields /\ o.p.files >= h.p.files
        /\ o.tag = "field" =>
              /\ o.p.fields = h.p.fields + 1
              /\ ~Over(o.p.fields, h.p.limits.fields)
              /\ IsFile(b[h.p.at]) => /\ o.p.files = h.p.files + 1
                                      /\ ~Over(o.p.files, h.p.limits.files)
    BY <2>1, <2>2, <1>4, RecordedOutcome
  <2> QED BY <2>3, <1>4, <1>6
<1> QED BY <1>5, <1>6

-----------------------------------------------------------------------------
(* Induction over the natural numbers, as a fact about sets: the theorems  *)
(* of the library that take a predicate cannot be applied.                 *)

(* A set of natural numbers that is not empty has a least element.         *)
LEMMA Least ==
    ASSUME NEW S \in SUBSET Nat, S # {}
    PROVE  \E m \in S : \A n \in S : m <= n
<1> DEFINE less == OpToRel(<, Nat)
<1>1. IsWellFoundedOn(less, Nat)
  BY NatLessThanWellFounded
<1>2. \A m, n \in Nat : m < n => <<m, n>> \in less
  BY DEF OpToRel
<1> HIDE DEF less
<1>3. PICK m \in S : \A n \in S : <<n, m>> \notin less
  BY <1>1, WFMin
<1>4. \A n \in S : m \in Nat /\ n \in Nat /\ ~(n < m)
  BY <1>2, <1>3
<1> QED BY <1>4

(* What holds for 0, and for n + 1 where it holds for n, holds for all.    *)
LEMMA Reached ==
    ASSUME NEW S, 0 \in S, \A n \in Nat : n \in S => n + 1 \in S
    PROVE  Nat \subseteq S
<1> SUFFICES ASSUME Nat \ S # {} PROVE FALSE
  OBVIOUS
<1>1. PICK m \in Nat \ S : \A n \in Nat \ S : m <= n
  <2> DEFINE T == Nat \ S
  <2>1. T \in SUBSET Nat /\ T # {}
    OBVIOUS
  <2> HIDE DEF T
  <2>2. \E m \in T : \A n \in T : m <= n
    BY <2>1, Least
  <2> QED BY <2>2 DEF T
<1>2. m # 0
  BY <1>1
<1>3. m - 1 \in Nat /\ ~(m <= m - 1) /\ (m - 1) + 1 = m
  BY <1>1, <1>2
<1>4. m - 1 \in S
  BY <1>1, <1>3
<1> QED BY <1>1, <1>3, <1>4

-----------------------------------------------------------------------------
(* Upto                                                                    *)

Sizes(body) == Len(body) \in Nat /\ \A i \in 1 .. Len(body) : body[i].size \in Nat

(* g holds the sizes of the first 0, 1, ..., n parts.                      *)
Sums(body, n, g) ==
    /\ g \in [0 .. n -> Nat] /\ g[0] = 0
    /\ \A i \in 1 .. n : g[i] = g[i - 1] + body[i].size

(* The recursion of Upto has a solution.                                   *)
LEMMA SumExists ==
    ASSUME NEW body, Sizes(body)
    PROVE  \E g : Sums(body, Len(body), g)
<1> DEFINE S == {n \in Nat : n <= Len(body) => \E g : Sums(body, n, g)}
<1>1. 0 \in S
  <2>1. Sums(body, 0, [i \in 0 .. 0 |-> 0])
    BY DEF Sums
  <2> QED BY <2>1
<1>2. ASSUME NEW n \in Nat, n \in S PROVE n + 1 \in S
  <2> SUFFICES ASSUME n + 1 <= Len(body) PROVE \E g : Sums(body, n + 1, g)
    OBVIOUS
  <2>1. PICK g : Sums(body, n, g)
    BY <1>2 DEF Sizes
  <2>2. n + 1 \in 1 .. Len(body) /\ body[n + 1].size \in Nat
    BY DEF Sizes
  <2> DEFINE size == body[n + 1].size
             h == [i \in 0 .. n + 1 |-> IF i = n + 1 THEN g[n] + size ELSE g[i]]
  <2>3. g[n] \in Nat /\ \A i \in 0 .. n : g[i] \in Nat /\ g[0] = 0
    BY <2>1 DEF Sums
  <2>4. /\ h[n + 1] = g[n] + size /\ \A i \in 0 .. n : h[i] = g[i]
        /\ DOMAIN h = 0 .. n + 1 /\ h = [i \in DOMAIN h |-> h[i]]
    OBVIOUS
  <2> HIDE DEF h, size
  <2>5. h \in [0 .. n + 1 -> Nat]
    <3>1. \A i \in 0 .. n + 1 : h[i] \in Nat
      <4> TAKE i \in 0 .. n + 1
      <4>1. CASE i = n + 1
        BY <4>1, <2>4, <2>3, <2>2 DEF size
      <4>2. CASE i # n + 1
        <5>1. i \in 0 .. n
          BY <4>2
        <5> QED BY <5>1, <2>4, <2>3
      <4> QED BY <4>1, <4>2
    <3> QED BY <3>1, <2>4
  <2>6. \A i \in 1 .. n + 1 : h[i] = h[i - 1] + body[i].size
    <3> TAKE i \in 1 .. n + 1
    <3>1. CASE i = n + 1
      <4>1. h[n] = g[n]
        BY <2>4
      <4> QED BY <3>1, <2>4, <4>1 DEF size
    <3>2. CASE i # n + 1
      <4>1. i \in 1 .. n /\ i \in 0 .. n /\ i - 1 \in 0 .. n
        BY <3>2
      <4> QED BY <4>1, <2>4, <2>1 DEF Sums
    <3> QED BY <3>1, <3>2
  <2>7. h[0] = 0
    BY <2>3, <2>4
  <2> QED BY <2>5, <2>6, <2>7 DEF Sums
<1> HIDE DEF S
<1>3. Nat \subseteq S
  BY <1>1, <1>2, Reached
<1>4. Len(body) \in S
  BY <1>3 DEF Sizes
<1> QED BY <1>4 DEF S, Sizes

(* Upto is such a function.                                                *)
LEMMA UptoSums ==
    ASSUME NEW body, Sizes(body)
    PROVE  \E g : /\ Sums(body, Len(body), g)
                  /\ \A n \in 0 .. Len(body) : Upto(body, n) = g[n]
<1> DEFINE sum(g) == [i \in 0 .. Len(body) |->
                         IF i = 0 THEN 0 ELSE g[i - 1] + body[i].size]
           choice == CHOOSE g : g = sum(g)
<1>1. PICK g : Sums(body, Len(body), g)
  BY SumExists
<1>2. g = sum(g)
  <2>1. /\ DOMAIN g = 0 .. Len(body) /\ g = [i \in DOMAIN g |-> g[i]]
    BY <1>1 DEF Sums
  <2>2. ASSUME NEW i \in 0 .. Len(body)
        PROVE  g[i] = IF i = 0 THEN 0 ELSE g[i - 1] + body[i].size
    <3>1. CASE i = 0
      BY <3>1, <1>1 DEF Sums
    <3>2. CASE i # 0
      <4>1. i \in 1 .. Len(body)
        BY <3>2 DEF Sizes
      <4> QED BY <4>1, <1>1, <3>2 DEF Sums
    <3> QED BY <3>1, <3>2
  <2> QED BY <2>1, <2>2
<1>3. choice = sum(choice)
  BY <1>2
<1>4. \A n : Upto(body, n) = choice[n]
  BY DEF Upto
<1> HIDE DEF choice
<1>5. /\ choice[0] = 0
      /\ \A i \in 1 .. Len(body) : choice[i] = choice[i - 1] + body[i].size
      /\ DOMAIN choice = 0 .. Len(body) /\ choice = [i \in DOMAIN choice |-> choice[i]]
  <2>1. ASSUME NEW i \in 1 .. Len(body) PROVE choice[i] = choice[i - 1] + body[i].size
    <3>1. i \in 0 .. Len(body) /\ i # 0
      BY DEF Sizes
    <3> QED BY <1>3, <3>1
  <2> QED BY <1>3, <2>1 DEF Sizes
<1> DEFINE S == {n \in Nat : n <= Len(body) => choice[n] \in Nat}
<1>6. 0 \in S
  BY <1>5
<1>7. ASSUME NEW n \in Nat, n \in S PROVE n + 1 \in S
  <2> SUFFICES ASSUME n + 1 <= Len(body) PROVE choice[n + 1] \in Nat
    OBVIOUS
  <2>1. n + 1 \in 1 .. Len(body) /\ (n + 1) - 1 = n /\ n <= Len(body)
    BY DEF Sizes
  <2>2. choice[n + 1] = choice[n] + body[n + 1].size
    BY <1>5, <2>1
  <2>3. choice[n] \in Nat /\ body[n + 1].size \in Nat
    BY <2>1, <1>7 DEF Sizes
  <2> QED BY <2>2, <2>3
<1> HIDE DEF S
<1>8. Nat \subseteq S
  BY <1>6, <1>7, Reached
<1>9. \A n \in 0 .. Len(body) : choice[n] \in Nat
  BY <1>8 DEF S, Sizes
<1>10. Sums(body, Len(body), choice)
  BY <1>5, <1>9 DEF Sums
<1> QED BY <1>4, <1>10

(* More parts are never smaller.                                           *)
LEMMA UptoGrows ==
    ASSUME NEW body, Sizes(body), NEW m \in 0 .. Len(body)
    PROVE  \A n \in m .. Len(body) : Upto(body, m) <= Upto(body, n)
<1>1. PICK g : /\ Sums(body, Len(body), g)
               /\ \A n \in 0 .. Len(body) : Upto(body, n) = g[n]
  BY UptoSums
<1>2. /\ \A n \in 0 .. Len(body) : g[n] \in Nat
      /\ \A n \in 1 .. Len(body) : g[n] = g[n - 1] + body[n].size
  BY <1>1 DEF Sums
<1> DEFINE S == {n \in Nat : m + n <= Len(body) => g[m] <= g[m + n]}
<1>3. 0 \in S
  <2>1. m \in Nat /\ m + 0 = m
    BY DEF Sizes
  <2> QED BY <2>1, <1>2
<1>4. ASSUME NEW n \in Nat, n \in S PROVE n + 1 \in S
  <2> SUFFICES ASSUME m + (n + 1) <= Len(body) PROVE g[m] <= g[m + (n + 1)]
    OBVIOUS
  <2>1. /\ m + (n + 1) \in 1 .. Len(body) /\ (m + (n + 1)) - 1 = m + n
        /\ m + n \in 0 .. Len(body) /\ m + n <= Len(body)
    BY DEF Sizes
  <2>2. g[m + (n + 1)] = g[m + n] + body[m + (n + 1)].size
    BY <1>2, <2>1
  <2>3. g[m] \in Nat /\ g[m + n] \in Nat /\ body[m + (n + 1)].size \in Nat
    BY <1>2, <2>1 DEF Sizes
  <2>4. g[m] <= g[m + n]
    BY <1>4, <2>1
  <2> QED BY <2>2, <2>3, <2>4
<1> HIDE DEF S
<1>5. Nat \subseteq S
  BY <1>3, <1>4, Reached
<1>6. ASSUME NEW n \in m .. Len(body) PROVE g[m] <= g[n]
  <2>1. n - m \in Nat /\ m + (n - m) = n /\ n <= Len(body)
    BY DEF Sizes
  <2>2. n - m \in S
    BY <1>5, <2>1
  <2> QED BY <2>1, <2>2 DEF S
<1>7. \A n \in m .. Len(body) : n \in 0 .. Len(body)
  BY DEF Sizes
<1> QED BY <1>1, <1>6, <1>7


-----------------------------------------------------------------------------
(* Why the parser answers with an error                                    *)

FilesIn(b, n) == {i \in 1 .. n : IsFile(b[i])}

(* The body as a whole breaks one of the limits.                           *)
Exceeds(b, limits) ==
    \/ Over(Len(b), limits.fields)
    \/ Over(Cardinality(FilesIn(b, Len(b))), limits.files)
    \/ Over(Upto(b, Len(b)), limits.total)
    \/ \E i \in 1 .. Len(b) : Over(b[i].size, limits.field)
    \/ limits.allowed # None /\ \E i \in 1 .. Len(b) : b[i].name \notin limits.allowed

(* No more was counted than what lies behind the parser: a part with a     *)
(* name that is not allowed, and the file that was a field too many, are   *)
(* passed without being counted.                                           *)
Tallied(b, p) ==
    /\ p.fields <= p.at
    /\ p.files <= Cardinality(FilesIn(b, p.at))
    /\ p.open => p.at # 0

(* A new parser has counted nothing.                                       *)
LEMMA NewParserTallied ==
    ASSUME NEW limits, NEW b
    PROVE  Tallied(b, NewParser(limits)) /\ ~NewParser(limits).broken
<1>1. FilesIn(b, 0) = {}
  BY DEF FilesIn
<1>2. Cardinality(FilesIn(b, 0)) = 0
  BY <1>1, FS_EmptySet
<1> QED BY <1>2 DEF NewParser, Tallied

LEMMA OverGrows ==
    ASSUME NEW m \in Nat, NEW n \in Nat, m <= n, NEW limit \in Limit, Over(m, limit)
    PROVE  Over(n, limit)
  BY DEF Over, Limit

(* Files among the first parts are counted one at a time.                  *)
LEMMA FilesInCount ==
    ASSUME NEW b, NEW n \in Nat
    PROVE  /\ Cardinality(FilesIn(b, n)) \in Nat
           /\ Cardinality(FilesIn(b, n + 1)) =
                  Cardinality(FilesIn(b, n)) + (IF IsFile(b[n + 1]) THEN 1 ELSE 0)
           /\ \A m \in Nat : m <= n =>
                  Cardinality(FilesIn(b, m)) <= Cardinality(FilesIn(b, n))
<1>1. ASSUME NEW m \in Nat
      PROVE  IsFiniteSet(FilesIn(b, m)) /\ Cardinality(FilesIn(b, m)) \in Nat
  <2>1. IsFiniteSet(1 .. m)
    BY FS_Interval
  <2>2. FilesIn(b, m) \subseteq 1 .. m
    BY DEF FilesIn
  <2> QED BY <2>1, <2>2, FS_Subset, FS_CardinalityType
<1>2. ASSUME NEW m \in Nat, m <= n
      PROVE  Cardinality(FilesIn(b, m)) <= Cardinality(FilesIn(b, n))
  <2>1. FilesIn(b, m) \subseteq FilesIn(b, n)
    BY <1>2 DEF FilesIn
  <2> QED BY <1>1, <2>1, FS_Subset
<1>3. CASE IsFile(b[n + 1])
  <2>1. FilesIn(b, n + 1) = FilesIn(b, n) \cup {n + 1} /\ n + 1 \notin FilesIn(b, n)
    BY <1>3 DEF FilesIn
  <2> QED BY <1>1, <1>3, <2>1, FS_AddElement, <1>2
<1>4. CASE ~IsFile(b[n + 1])
  <2>1. FilesIn(b, n + 1) = FilesIn(b, n)
    BY <1>4 DEF FilesIn
  <2> QED BY <1>1, <1>2, <1>4, <2>1
<1> QED BY <1>3, <1>4

(* The content of a field: an error, and a parser that is broken after it, *)
(* say that it was broken before or that the body breaks a limit.          *)
LEMMA ContentReason ==
    ASSUME NEW b, Sizes(b), NEW p \in ParserType, p.at <= Len(b), Tallied(b, p),
           NEW o \in Content(b, p)
    PROVE  /\ Tallied(b, o.p)
           /\ o.tag = "error" \/ o.p.broken => p.broken \/ Exceeds(b, p.limits)
<1> DEFINE done == [p EXCEPT !.open = FALSE]
           cut(x) == [p EXCEPT !.broken = x]
           long == Over(Upto(b, Len(b)), p.limits.total)
           large == p.open /\ Over(b[p.at].size, p.limits.field)
           early == Over(Upto(b, p.at), p.limits.total)
<1>0. p.at \in 0 .. Len(b) /\ Len(b) \in Nat /\ p.limits.total \in Limit
  BY DEF ParserType, LimitsType, Sizes
<1>1. \/ o = Outcome("error", p) /\ p.broken
      \/ o = Outcome("read", done) /\ ~p.broken
      \/ /\ long \/ large \/ early
         /\ \E x \in BOOLEAN : o = Outcome("error", cut(x))
  BY DEF Content, SizeErrors
<1>2. early => long
  <2>1. Upto(b, p.at) <= Upto(b, Len(b))
    BY <1>0, UptoGrows
  <2>2. Upto(b, p.at) \in Nat /\ Upto(b, Len(b)) \in Nat
    BY <1>0, UptoSums DEF Sums
  <2> QED BY <1>0, <2>1, <2>2, OverGrows
<1>3. large => \E i \in 1 .. Len(b) : Over(b[i].size, p.limits.field)
  BY <1>0 DEF Tallied
<1>4. long \/ large \/ early => Exceeds(b, p.limits)
  BY <1>2, <1>3 DEF Exceeds
<1> HIDE DEF long, large, early
<1>5. CASE o = Outcome("error", p) /\ p.broken
  BY <1>5 DEF Outcome
<1>6. CASE o = Outcome("read", done) /\ ~p.broken
  <2>1. /\ done.fields = p.fields /\ done.files = p.files /\ done.at = p.at
        /\ done.open = FALSE /\ done.broken = p.broken
    BY DEF ParserType
  <2> HIDE DEF done
  <2> QED BY <1>6, <2>1 DEF Outcome, Tallied
<1>7. CASE /\ long \/ large \/ early
           /\ \E x \in BOOLEAN : o = Outcome("error", cut(x))
  <2>1. PICK x \in BOOLEAN : o = Outcome("error", cut(x))
    BY <1>7
  <2>2. /\ cut(x).fields = p.fields /\ cut(x).files = p.files /\ cut(x).at = p.at
        /\ cut(x).open = p.open
    BY DEF ParserType
  <2>3. o.p = cut(x)
    BY <2>1 DEF Outcome
  <2> HIDE DEF cut
  <2> QED BY <1>4, <1>7, <2>2, <2>3 DEF Tallied
<1> QED BY <1>1, <1>5, <1>6, <1>7

(* A header leaves room for its part in the counters, and is refused only  *)
(* for a name that is not allowed; the end is the end of the body.         *)
LEMMA HeaderReason ==
    ASSUME NEW b, Sizes(b), NEW p \in ParserType, p.at <= Len(b), Tallied(b, p)
    PROVE  LET o == Header(b, p)
               room == IF IsFile(b[o.p.at]) THEN 1 ELSE 0
           IN
           /\ Tallied(b, o.p) /\ o.p.broken = p.broken
           /\ o.tag = "end" => o.p.at = Len(b) /\ o.p.at = p.at
           /\ o.tag = "error" => Exceeds(b, p.limits)
           /\ o.tag = "field" =>
                 /\ o.p.fields + 1 <= o.p.at
                 /\ o.p.files + room <= Cardinality(FilesIn(b, o.p.at))
<1> DEFINE moved == [p EXCEPT !.at = @ + 1]
           next == [moved EXCEPT !.open = TRUE]
           refused == p.limits.allowed # None /\ b[next.at].name \notin p.limits.allowed
<1>0. /\ p.at \in Nat /\ Len(b) \in Nat /\ p.fields \in Nat /\ p.files \in Nat
      /\ Cardinality(FilesIn(b, p.at)) \in Nat
      /\ Cardinality(FilesIn(b, p.at + 1)) =
             Cardinality(FilesIn(b, p.at)) + (IF IsFile(b[p.at + 1]) THEN 1 ELSE 0)
  BY FilesInCount DEF ParserType, Sizes
<1>1. /\ moved.fields = p.fields /\ moved.files = p.files /\ moved.at = p.at + 1
      /\ moved.broken = p.broken /\ DOMAIN moved = DOMAIN p
  BY DEF ParserType
<1>2. /\ next.fields = p.fields /\ next.files = p.files /\ next.at = p.at + 1
      /\ next.broken = p.broken /\ next.open = TRUE
  <2>1. "open" \in DOMAIN moved
    BY <1>1 DEF ParserType
  <2> HIDE DEF moved
  <2> QED BY <1>1, <2>1
<1>3. Header(b, p) = IF p.at = Len(b) THEN Outcome("end", p)
                     ELSE Outcome(IF refused THEN "error" ELSE "field", next)
  BY DEF Header
<1> HIDE DEF next
<1>4. CASE p.at = Len(b)
  BY <1>3, <1>4 DEF Outcome
<1>5. CASE p.at # Len(b)
  <2>1. Header(b, p).p = next /\ Header(b, p).tag = (IF refused THEN "error" ELSE "field")
    BY <1>3, <1>5 DEF Outcome
  <2>2. next.at \in 1 .. Len(b)
    BY <1>0, <1>2, <1>5
  <2>3. refused => Exceeds(b, p.limits)
    BY <2>2 DEF Exceeds
  <2>4. /\ next.fields + 1 <= next.at
        /\ next.files + (IF IsFile(b[next.at]) THEN 1 ELSE 0)
               <= Cardinality(FilesIn(b, next.at))
    <3>1. CASE IsFile(b[p.at + 1])
      BY <1>0, <1>2, <3>1 DEF Tallied
    <3>2. CASE ~IsFile(b[p.at + 1])
      BY <1>0, <1>2, <3>2 DEF Tallied
    <3> QED BY <3>1, <3>2
  <2>5. Tallied(b, next)
    <3>1. CASE IsFile(b[p.at + 1])
      BY <1>0, <1>2, <3>1 DEF Tallied
    <3>2. CASE ~IsFile(b[p.at + 1])
      BY <1>0, <1>2, <3>2 DEF Tallied
    <3> QED BY <3>1, <3>2
  <2> HIDE DEF refused
  <2> QED BY <1>2, <2>1, <2>3, <2>4, <2>5
<1> QED BY <1>4, <1>5

(* record refuses only a field or a file too many for the body.            *)
LEMMA RecordedReason ==
    ASSUME NEW b, Sizes(b), NEW p \in ParserType, p.at \in 1 .. Len(b),
           p.fields + 1 <= p.at,
           p.files + (IF IsFile(b[p.at]) THEN 1 ELSE 0) <= Cardinality(FilesIn(b, p.at))
    PROVE  LET o == Recorded(p, IsFile(b[p.at])) IN
           /\ Tallied(b, o.p) /\ o.p.broken = p.broken
           /\ o.tag = "error" => Exceeds(b, p.limits)
<1> DEFINE q == [p EXCEPT !.fields = @ + 1]
           r == [q EXCEPT !.files = @ + 1]
           isFile == IsFile(b[p.at])
           all == Cardinality(FilesIn(b, Len(b)))
<1>0. /\ p.fields \in Nat /\ p.files \in Nat /\ p.at \in Nat /\ Len(b) \in Nat
      /\ p.limits.fields \in Limit /\ p.limits.files \in Limit /\ p.at <= Len(b)
      /\ all \in Nat /\ Cardinality(FilesIn(b, p.at)) \in Nat
      /\ Cardinality(FilesIn(b, p.at)) <= all
  <2>1. p.at \in Nat /\ Len(b) \in Nat /\ p.at <= Len(b)
    BY DEF Sizes
  <2>2. /\ p.fields \in Nat /\ p.files \in Nat
        /\ p.limits.fields \in Limit /\ p.limits.files \in Limit
    BY DEF ParserType, LimitsType
  <2> QED BY <2>1, <2>2, FilesInCount
<1>1. /\ q \in ParserType /\ q.fields = p.fields + 1 /\ q.files = p.files
      /\ q.at = p.at /\ q.broken = p.broken
  BY DEF ParserType
<1>2. /\ r.fields = p.fields + 1 /\ r.files = p.files + 1
      /\ r.at = p.at /\ r.broken = p.broken
  <2> HIDE DEF q
  <2> QED BY <1>1 DEF ParserType
<1>3. Recorded(p, isFile) =
          IF Over(q.fields, p.limits.fields) THEN Outcome("error", q)
          ELSE IF ~isFile THEN Outcome("field", q)
          ELSE Outcome(IF Over(r.files, p.limits.files) THEN "error" ELSE "field", r)
  BY DEF Recorded
<1> HIDE DEF q, r, all
<1>4. Over(q.fields, p.limits.fields) => Exceeds(b, p.limits)
  <2>1. q.fields \in Nat /\ q.fields <= Len(b)
    BY <1>0, <1>1
  <2> QED BY <1>0, <2>1, OverGrows DEF Exceeds
<1>5. isFile /\ Over(r.files, p.limits.files) => Exceeds(b, p.limits)
  <2> SUFFICES ASSUME isFile, Over(r.files, p.limits.files) PROVE Exceeds(b, p.limits)
    OBVIOUS
  <2>1. r.files \in Nat /\ r.files <= all
    BY <1>0, <1>2
  <2>2. Over(all, p.limits.files)
    BY <1>0, <2>1, OverGrows
  <2> QED BY <2>2 DEF Exceeds, all
<1>6. Tallied(b, q)
  <2>1. q.files <= Cardinality(FilesIn(b, q.at))
    BY <1>0, <1>1
  <2> QED BY <1>0, <1>1, <2>1 DEF Tallied
<1>7. isFile => Tallied(b, r)
  BY <1>0, <1>2 DEF Tallied
<1> HIDE DEF isFile
<1>8. \/ Recorded(p, isFile) = Outcome("field", q)
      \/ Recorded(p, isFile) = Outcome("error", q) /\ Exceeds(b, p.limits)
      \/ Recorded(p, isFile) = Outcome("field", r) /\ isFile
      \/ /\ Recorded(p, isFile) = Outcome("error", r)
         /\ isFile /\ Exceeds(b, p.limits)
  BY <1>3, <1>4, <1>5
<1>9. LET o == Recorded(p, isFile) IN
      /\ Tallied(b, o.p) /\ o.p.broken = p.broken
      /\ o.tag = "error" => Exceeds(b, p.limits)
  BY <1>1, <1>2, <1>6, <1>7, <1>8 DEF Outcome
<1> QED BY <1>9 DEF isFile

(* next_field: the end is the end of the body, and an error has a reason.  *)
LEMMA NextFieldReason ==
    ASSUME NEW b, Sizes(b), NEW p \in ParserType, p.at <= Len(b), Tallied(b, p),
           NEW o \in NextField(b, p)
    PROVE  /\ Tallied(b, o.p)
           /\ o.tag = "end" => o.p.at = Len(b) /\ o.p.at = p.at
           /\ o.tag = "error" \/ o.p.broken => p.broken \/ Exceeds(b, p.limits)
<1>1. PICK h \in Polled(b, p) :
          o = IF h.tag = "field" THEN Recorded(h.p, IsFile(b[h.p.at])) ELSE h
  BY DEF NextField
<1>2. PICK c \in Content(b, p) :
          h = IF c.tag = "read" THEN Header(b, c.p) ELSE c
  BY DEF Polled
<1>3. /\ c.p \in ParserType /\ c.tag \in {"read", "error"}
      /\ c.p.limits = p.limits /\ c.p.at = p.at
      /\ Tallied(b, c.p)
      /\ c.tag = "error" \/ c.p.broken => p.broken \/ Exceeds(b, p.limits)
  BY ContentOutcome, ContentReason
<1>4. CASE c.tag = "error"
  BY <1>1, <1>2, <1>3, <1>4
<1>5. CASE c.tag = "read"
  <2> DEFINE room == IF IsFile(b[h.p.at]) THEN 1 ELSE 0
  <2>1. h = Header(b, c.p) /\ Len(b) \in Nat /\ p.at \in Nat
    BY <1>2, <1>5 DEF Sizes, ParserType
  <2>2. /\ h.p \in ParserType /\ h.tag \in {"field", "end", "error"}
        /\ h.p.limits = p.limits /\ h.p.at <= Len(b)
        /\ h.tag = "field" => h.p.at = p.at + 1
    BY <1>3, <2>1, HeaderOutcome
  <2>3. /\ Tallied(b, h.p) /\ h.p.broken = c.p.broken
        /\ h.tag = "end" => h.p.at = Len(b) /\ h.p.at = p.at
        /\ h.tag = "error" => Exceeds(b, p.limits)
        /\ h.tag = "field" =>
              /\ h.p.fields + 1 <= h.p.at
              /\ h.p.files + room <= Cardinality(FilesIn(b, h.p.at))
    BY <1>3, <2>1, HeaderReason
  <2>4. CASE h.tag # "field"
    BY <1>1, <1>3, <2>3, <2>4
  <2>5. CASE h.tag = "field"
    <3>1. o = Recorded(h.p, IsFile(b[h.p.at]))
      BY <1>1, <2>5
    <3>2. h.p.at \in 1 .. Len(b)
      BY <2>1, <2>2, <2>5
    <3>3. /\ Tallied(b, o.p) /\ o.p.broken = h.p.broken
          /\ o.tag = "error" => Exceeds(b, p.limits)
      BY <2>2, <2>3, <2>5, <3>1, <3>2, RecordedReason
    <3>4. o.tag # "end"
      <4>1. IsFile(b[h.p.at]) \in BOOLEAN
        BY DEF IsFile
      <4> QED BY <2>2, <3>1, <4>1, RecordedOutcome
    <3> QED BY <1>3, <2>3, <3>3, <3>4
  <2> QED BY <2>4, <2>5
<1> QED BY <1>3, <1>4, <1>5
=============================================================================
