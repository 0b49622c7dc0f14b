-------------------------- MODULE MultipartProofs --------------------------
(***************************************************************************)
(* Proofs about Multipart: the type invariant and the limits, for any      *)
(* bodies, any limits and any mix of calls.                                *)
(***************************************************************************)
EXTENDS Multipart, MultipartParserProofs

-----------------------------------------------------------------------------
(* Types                                                                   *)

(* Before a request there is nothing.                                      *)
Typed ==
    /\ TypeOK
    /\ mode = "none" => held = 0 /\ yielded = <<>> /\ start = 0

LEMMA InitialParser ==
    /\ NewParser(Unlimited) \in ParserType
    /\ NewParser(Unlimited).limits \in Entries
    /\ NewParser(Unlimited).at = 0
  BY DEF NewParser, Unlimited, ParserType, LimitsType, Limit, Entries

LEMMA NewParserTyped ==
    ASSUME NEW limits \in Entries
    PROVE  /\ NewParser(limits) \in ParserType /\ NewParser(limits).limits = limits
           /\ NewParser(limits).at = 0
           /\ NewParser(limits).fields = 0 /\ NewParser(limits).files = 0
<1>1. Default \in LimitsType /\ Unlimited \in LimitsType
  BY DEF Default, Unlimited, LimitsType, Limit
<1>2. limits \in LimitsType
  BY <1>1, MultipartAssumption DEF Entries
<1> QED BY <1>2 DEF NewParser, ParserType

LEMMA BodyLength ==
    ASSUME Typed
    PROVE  body \in Seq(Part) /\ Len(body) \in Nat
<1>1. body \in Seq(Part)
  BY MultipartAssumption DEF Typed, TypeOK
<1> QED BY <1>1

(* A call of next_field keeps the types of what it changes.                *)
LEMMA NextKeepsTypes ==
    ASSUME Typed, mode # "none", NEW o \in NextField(body, parser),
           parser' = o.p, body' = body, last' = o.tag, yielded' = Handed(o)
    PROVE  /\ parser' \in ParserType /\ parser'.limits \in Entries
           /\ parser'.at <= Len(body')
           /\ last' \in {"none", "field", "read", "end", "error"}
           /\ yielded' \in Seq(1 .. Len(body'))
           /\ o.tag = "field" => parser'.open
<1>1. Len(body) \in Nat /\ parser \in ParserType /\ parser.at <= Len(body)
  BY BodyLength DEF Typed, TypeOK
<1>2. parser.at \in Nat /\ o.p.at \in Nat
  <2>1. o.p \in ParserType
    BY <1>1, NextFieldOutcome
  <2> QED BY <1>1, <2>1 DEF ParserType
<1>3. /\ o.p \in ParserType /\ o.tag \in {"field", "end", "error"}
      /\ o.p.limits = parser.limits /\ o.p.at <= Len(body)
      /\ o.tag = "field" => o.p.at = parser.at + 1 /\ o.p.open
  BY <1>1, NextFieldOutcome
<1>4. yielded' \in Seq(1 .. Len(body'))
  <2>1. yielded \in Seq(1 .. Len(body))
    BY DEF Typed, TypeOK
  <2>2. o.tag = "field" => o.p.at \in 1 .. Len(body)
    BY <1>1, <1>2, <1>3
  <2>3. CASE o.tag = "field"
    <3>1. yielded' = Append(yielded, o.p.at)
      BY <2>3 DEF Handed
    <3> QED BY <2>1, <2>2, <2>3, <3>1
  <2>4. CASE o.tag # "field"
    BY <2>1, <2>4 DEF Handed
  <2> QED BY <2>3, <2>4
<1> QED BY <1>1, <1>3, <1>4 DEF Typed, TypeOK

(* Reading the held field keeps the types of what it changes.              *)
LEMMA ReadKeepsTypes ==
    ASSUME Typed, NEW o \in ReadField(body, parser),
           parser' = o.p, body' = body, last' = o.tag
    PROVE  /\ parser' \in ParserType /\ parser'.limits \in Entries
           /\ parser'.at <= Len(body')
           /\ last' \in {"none", "field", "read", "end", "error"}
<1>1. /\ o.p \in ParserType /\ o.tag \in {"read", "error"}
      /\ o.p.limits = parser.limits /\ o.p.at = parser.at
  BY ContentOutcome DEF ReadField, Typed, TypeOK
<1> QED BY <1>1 DEF Typed, TypeOK

LEMMA TypedStep == ASSUME Typed, [Next]_vars PROVE Typed'
<1> USE DEF Typed, TypeOK
<1>1. CASE UNCHANGED vars
  BY <1>1 DEF vars
<1>2. CASE \E limits \in Entries : FromRequest(limits)
  <2>1. PICK limits \in Entries : FromRequest(limits)
    BY <1>2
  <2>2. CASE Open(limits)
    <3>1. body' \in Seq(Part)
      BY <2>2, MultipartAssumption DEF Open
    <3>2. Len(body') \in Nat
      BY <3>1
    <3> QED BY <2>2, <3>2, NewParserTyped DEF Open, Asking
  <2>3. CASE NoBoundary
    BY <2>3 DEF NoBoundary
  <2> QED BY <2>1, <2>2, <2>3 DEF FromRequest
<1>3. CASE AskNext
  <2>1. PICK o \in NextField(body, parser) :
            /\ parser' = o.p /\ last' = o.tag
            /\ held' = IF o.tag = "field" THEN o.p.at ELSE 0
            /\ yielded' = Handed(o)
    BY <1>3 DEF AskNext
  <2>2. mode # "none" /\ UNCHANGED <<body, mode, data, start, cut>>
    BY <1>3 DEF AskNext, Asking
  <2> QED BY <2>1, <2>2, NextKeepsTypes
<1>4. CASE ReadHeld
  <2>1. PICK o \in ReadField(body, parser) : parser' = o.p /\ last' = o.tag
    BY <1>4 DEF ReadHeld
  <2>2. mode # "none" /\ held' = 0 /\ UNCHANGED <<body, mode, data, yielded, start, cut>>
    BY <1>4 DEF ReadHeld, Asking
  <2> QED BY <2>1, <2>2, ReadKeepsTypes
<1>5. CASE DropHeld
  BY <1>5 DEF DropHeld
<1>6. CASE IntoStream \/ IntoMultipart
  BY <1>6 DEF IntoStream, IntoMultipart, Asking
<1>7. CASE CollectFiles \/ CollectAll
  <2>1. parser.at \in 0 .. Len(body)
    BY BodyLength DEF ParserType
  <2> QED BY <1>7, <2>1 DEF CollectFiles, CollectAll, Collecting
<1>8. CASE CollectNext
  <2>1. PICK o \in NextField(body, parser) :
            /\ parser' = o.p /\ last' = o.tag /\ yielded' = Handed(o)
            /\ held' = IF /\ o.tag = "field"
                          /\ mode = "all" \/ IsFile(body[o.p.at])
                       THEN o.p.at ELSE 0
            /\ mode' = IF o.tag = "field" THEN mode ELSE "done"
    BY <1>8 DEF CollectNext
  <2>2. mode # "none" /\ mode' # "none" /\ UNCHANGED <<body, start, cut>>
    BY <1>8, <2>1 DEF CollectNext, Collecting
  <2> QED BY <2>1, <2>2, NextKeepsTypes
<1>9. CASE CollectRead
  <2>1. PICK o \in ReadField(body, parser) :
            /\ parser' = o.p /\ last' = o.tag
            /\ mode' = IF o.tag = "read" THEN mode ELSE "done"
    BY <1>9 DEF CollectRead
  <2>2. /\ mode # "none" /\ mode' # "none" /\ held' = 0
        /\ UNCHANGED <<body, yielded, start, cut>>
    BY <1>9, <2>1 DEF CollectRead, Collecting
  <2> QED BY <2>1, <2>2, ReadKeepsTypes
<1>10. CASE \E name \in PartNames : TakeFile(name)
  BY <1>10 DEF TakeFile
<1>11. CASE StreamBreaks
  <2>1. /\ parser' \in ParserType /\ parser'.limits = parser.limits
        /\ parser'.at = parser.at /\ parser'.open = parser.open
    BY <1>11 DEF StreamBreaks, ParserType
  <2> QED BY <1>11, <2>1 DEF StreamBreaks, Asking, Collecting
<1>12. CASE Cancel
  BY <1>12 DEF Cancel
<1>13. CASE NextRequest
  <2>1. body' = <<>> /\ yielded' = <<>> /\ parser' = NewParser(Unlimited)
    BY <1>13 DEF NextRequest
  <2>2. Len(body') = 0 /\ yielded' \in Seq(1 .. Len(body'))
    BY <2>1
  <2>3. /\ parser' \in ParserType /\ parser'.limits \in Entries
        /\ parser'.at <= Len(body')
    BY <2>1, <2>2, InitialParser
  <2>4. start' \in 0 .. Len(body')
    BY <1>13, <2>2 DEF NextRequest
  <2>5. held' = 0 /\ mode' = "none" /\ last' = "none" /\ cut' = FALSE /\ start' = 0
    BY <1>13 DEF NextRequest
  <2> HIDE DEF TypeOK, Typed
  <2>6. TypeOK'
    BY <2>1, <2>2, <2>3, <2>4, <2>5 DEF TypeOK
  <2> QED BY <2>1, <2>5, <2>6 DEF Typed
<1> QED BY <1>1, <1>2, <1>3, <1>4, <1>5, <1>6, <1>7, <1>8, <1>9, <1>10, <1>11,
           <1>12, <1>13 DEF Next, Collect

LEMMA InitTyped == ASSUME Init PROVE Typed
<1>1. body = <<>> /\ yielded = <<>> /\ parser = NewParser(Unlimited)
  BY DEF Init
<1>2. Len(body) = 0 /\ yielded \in Seq(1 .. Len(body))
  BY <1>1
<1>3. /\ parser \in ParserType /\ parser.limits \in Entries
      /\ parser.at <= Len(body)
  BY <1>1, <1>2, InitialParser
<1>4. start \in 0 .. Len(body)
  BY <1>2 DEF Init
<1>5. held = 0 /\ mode = "none" /\ last = "none" /\ cut = FALSE /\ start = 0
  BY DEF Init
<1>6. TypeOK
  BY <1>1, <1>2, <1>3, <1>4, <1>5 DEF TypeOK
<1> QED BY <1>1, <1>5, <1>6 DEF Typed

(* Whatever is mixed, goes wrong or is dropped, the state keeps its type:  *)
(* in particular a field that is held is the last part and still unread.   *)
THEOREM TypeCorrect == Spec => []TypeOK
<1>1. Init => Typed
  BY InitTyped
<1>2. Typed /\ [Next]_vars => Typed'
  BY TypedStep
<1>3. Typed => TypeOK
  BY DEF Typed
<1> QED BY <1>1, <1>2, <1>3, PTL DEF Spec

-----------------------------------------------------------------------------
(* The limits                                                              *)

FilesOf(parts, b) == {i \in DOMAIN parts : IsFile(b[parts[i]])}

(* The parts handed out were all counted, and they lie behind the parser.  *)
Counted ==
    /\ Typed /\ LimitsHold
    /\ Len(yielded) <= parser.fields
    /\ Cardinality(FilesOf(yielded, body)) <= parser.files
    /\ \A i \in DOMAIN yielded : yielded[i] <= parser.at

LEMMA FilesOfFinite ==
    ASSUME NEW parts \in Seq(Nat), NEW b
    PROVE  /\ IsFiniteSet(FilesOf(parts, b))
           /\ Cardinality(FilesOf(parts, b)) \in Nat
           /\ FilesOf(parts, b) \subseteq 1 .. Len(parts)
<1>1. FilesOf(parts, b) \subseteq 1 .. Len(parts)
  BY DEF FilesOf
<1>2. IsFiniteSet(1 .. Len(parts))
  BY FS_Interval
<1> QED BY <1>1, <1>2, FS_Subset, FS_CardinalityType

(* Another part adds a file exactly if it is one.                          *)
LEMMA FilesOfAppend ==
    ASSUME NEW parts \in Seq(Nat), NEW b, NEW i \in Nat
    PROVE  Cardinality(FilesOf(Append(parts, i), b)) =
               Cardinality(FilesOf(parts, b)) + (IF IsFile(b[i]) THEN 1 ELSE 0)
<1> DEFINE more == Append(parts, i)
           n == Len(parts) + 1
<1>1. /\ DOMAIN more = DOMAIN parts \cup {n} /\ more[n] = i
      /\ \A j \in DOMAIN parts : more[j] = parts[j]
      /\ n \notin DOMAIN parts
  OBVIOUS
<1> HIDE DEF more, n
<1>2. CASE IsFile(b[i])
  <2>1. FilesOf(more, b) = FilesOf(parts, b) \cup {n}
    BY <1>1, <1>2 DEF FilesOf
  <2>2. n \notin FilesOf(parts, b)
    BY <1>1 DEF FilesOf
  <2>3. Cardinality(FilesOf(parts, b) \cup {n}) = Cardinality(FilesOf(parts, b)) + 1
    BY <2>2, FilesOfFinite, FS_AddElement
  <2> QED BY <1>2, <2>1, <2>3 DEF more
<1>3. CASE ~IsFile(b[i])
  <2>1. FilesOf(more, b) = FilesOf(parts, b)
    BY <1>1, <1>3 DEF FilesOf
  <2> QED BY <1>3, <2>1, FilesOfFinite DEF more
<1> QED BY <1>2, <1>3

LEMMA OverMonotone ==
    ASSUME NEW m \in Nat, NEW n \in Nat, m <= n, NEW limit \in Limit, ~Over(n, limit)
    PROVE  ~Over(m, limit)
  BY DEF Over, Limit

LEMMA LimitsTyped ==
    ASSUME Typed
    PROVE  parser.limits.fields \in Limit /\ parser.limits.files \in Limit
  BY DEF Typed, TypeOK, ParserType, LimitsType

(* next_field hands out a part only if the counters, which count it and    *)
(* all before it, are within the limits.                                   *)
LEMMA NextKeepsCount ==
    ASSUME Counted, mode # "none", NEW o \in NextField(body, parser),
           parser' = o.p, body' = body, yielded' = Handed(o), Typed'
    PROVE  Counted'
<1>0. /\ Len(body) \in Nat /\ parser \in ParserType /\ parser.at <= Len(body)
      /\ yielded \in Seq(Nat) /\ parser.limits.fields \in Limit
      /\ parser.limits.files \in Limit
  <2>1. yielded \in Seq(1 .. Len(body))
    BY DEF Counted, Typed, TypeOK
  <2> QED BY <2>1, BodyLength, LimitsTyped DEF Counted, Typed, TypeOK
<1>1. /\ o.p \in ParserType /\ o.p.limits = parser.limits /\ parser.at <= o.p.at
      /\ o.p.fields >= parser.fields /\ o.p.files >= parser.files
      /\ o.tag = "field" =>
            /\ o.p.at = parser.at + 1
            /\ o.p.fields = parser.fields + 1
            /\ ~Over(o.p.fields, parser.limits.fields)
            /\ IsFile(body[o.p.at]) => /\ o.p.files = parser.files + 1
                                       /\ ~Over(o.p.files, parser.limits.files)
  BY <1>0, NextFieldOutcome
<1>2. /\ parser.fields \in Nat /\ parser.files \in Nat /\ parser.at \in Nat
      /\ o.p.fields \in Nat /\ o.p.files \in Nat /\ o.p.at \in Nat
  BY <1>0, <1>1 DEF ParserType
<1>3. Cardinality(FilesOf(yielded, body)) \in Nat
  BY <1>0, FilesOfFinite
<1>4. /\ Len(yielded) \in Nat /\ Len(yielded) <= parser.fields
      /\ Cardinality(FilesOf(yielded, body)) <= parser.files
      /\ ~Over(Len(yielded), parser.limits.fields)
      /\ ~Over(Cardinality(FilesOf(yielded, body)), parser.limits.files)
      /\ \A i \in DOMAIN yielded : yielded[i] \in Nat /\ yielded[i] <= parser.at
      /\ \A i, j \in DOMAIN yielded : i < j => yielded[i] < yielded[j]
  BY <1>0 DEF Counted, LimitsHold, FilesOf
<1>5. CASE o.tag # "field"
  <2>1. yielded' = yielded
    BY <1>5 DEF Handed
  <2> QED BY <1>1, <1>2, <1>3, <1>4, <2>1 DEF Counted, LimitsHold, FilesOf
<1>6. CASE o.tag = "field"
  <2>1. yielded' = Append(yielded, o.p.at)
    BY <1>6 DEF Handed
  <2>2. /\ Len(yielded') = Len(yielded) + 1
        /\ DOMAIN yielded' = DOMAIN yielded \cup {Len(yielded) + 1}
        /\ DOMAIN yielded = 1 .. Len(yielded)
        /\ yielded'[Len(yielded) + 1] = o.p.at
        /\ \A i \in DOMAIN yielded : yielded'[i] = yielded[i]
    BY <1>0, <1>2, <2>1
  <2>3. Cardinality(FilesOf(yielded', body)) =
            Cardinality(FilesOf(yielded, body)) + (IF IsFile(body[o.p.at]) THEN 1 ELSE 0)
    BY <1>0, <1>2, <2>1, FilesOfAppend
  <2>4. Len(yielded') <= o.p.fields /\ ~Over(Len(yielded'), parser.limits.fields)
    <3>1. Len(yielded') \in Nat /\ Len(yielded') <= o.p.fields
      BY <1>1, <1>2, <1>4, <1>6, <2>2
    <3> QED BY <1>0, <1>1, <1>2, <1>6, <3>1, OverMonotone
  <2>5. /\ Cardinality(FilesOf(yielded', body)) <= o.p.files
        /\ ~Over(Cardinality(FilesOf(yielded', body)), parser.limits.files)
    <3>1. CASE IsFile(body[o.p.at])
      <4>1. /\ Cardinality(FilesOf(yielded', body)) \in Nat
            /\ Cardinality(FilesOf(yielded', body)) <= o.p.files
        BY <1>1, <1>2, <1>3, <1>4, <1>6, <2>3, <3>1
      <4> QED BY <1>0, <1>1, <1>2, <1>6, <3>1, <4>1, OverMonotone
    <3>2. CASE ~IsFile(body[o.p.at])
      BY <1>1, <1>2, <1>3, <1>4, <2>3, <3>2
    <3> QED BY <3>1, <3>2
  <2>6. \A i \in DOMAIN yielded' : yielded'[i] <= o.p.at
    BY <1>1, <1>2, <1>4, <2>2
  <2>7. \A i, j \in DOMAIN yielded' : i < j => yielded'[i] < yielded'[j]
    <3> SUFFICES ASSUME NEW i \in DOMAIN yielded', NEW j \in DOMAIN yielded', i < j
                 PROVE  yielded'[i] < yielded'[j]
      OBVIOUS
    <3>1. i \in DOMAIN yielded
      BY <1>4, <2>2
    <3>2. CASE j \in DOMAIN yielded
      BY <1>4, <2>2, <3>1, <3>2
    <3>3. CASE j = Len(yielded) + 1
      BY <1>1, <1>2, <1>4, <1>6, <2>2, <3>1, <3>3
    <3> QED BY <2>2, <3>2, <3>3
  <2> QED BY <1>1, <2>4, <2>5, <2>6, <2>7 DEF Counted, LimitsHold, FilesOf
<1> QED BY <1>5, <1>6

(* A step that hands out nothing and leaves position and counters alone.   *)
LEMMA QuietKeepsCount ==
    ASSUME Counted, Typed', mode # "none", body' = body, yielded' = yielded,
           parser'.limits = parser.limits, parser'.at = parser.at,
           parser'.fields = parser.fields, parser'.files = parser.files
    PROVE  Counted'
  BY DEF Counted, LimitsHold, FilesOf

(* Before the first part there is nothing to count.                        *)
LEMMA NothingCounted ==
    ASSUME NEW b
    PROVE  /\ FilesOf(<<>>, b) = {} /\ Cardinality(FilesOf(<<>>, b)) = 0
           /\ Len(<<>>) = 0 /\ DOMAIN <<>> = {}
           /\ \A limit \in Limit : ~Over(0, limit)
<1>1. FilesOf(<<>>, b) = {}
  BY DEF FilesOf
<1>2. Cardinality({}) = 0
  BY FS_EmptySet
<1>3. \A limit \in Limit : ~Over(0, limit)
  BY DEF Over, Limit
<1>4. Len(<<>>) = 0 /\ DOMAIN <<>> = {}
  OBVIOUS
<1>5. Cardinality(FilesOf(<<>>, b)) = 0
  BY <1>1, <1>2
<1> HIDE DEF FilesOf
<1> QED BY <1>1, <1>3, <1>4, <1>5

LEMMA CountedStep == ASSUME Counted, [Next]_vars PROVE Counted'
<1>0. Typed /\ Typed'
  BY TypedStep DEF Counted
<1>1. CASE UNCHANGED vars
  BY <1>1 DEF vars, Counted, LimitsHold, Typed, TypeOK, FilesOf
<1>2. CASE \E limits \in Entries : FromRequest(limits)
  <2>1. PICK limits \in Entries : FromRequest(limits)
    BY <1>2
  <2>2. CASE Open(limits)
    <3>1. yielded' = <<>> /\ parser' = NewParser(limits)
      BY <1>0, <2>2 DEF Open, Typed
    <3>2. /\ parser'.fields = 0 /\ parser'.files = 0
          /\ parser'.limits.fields \in Limit /\ parser'.limits.files \in Limit
      BY <1>0, <3>1, NewParserTyped DEF Typed, TypeOK, ParserType, LimitsType
    <3> QED BY <1>0, <3>1, <3>2, NothingCounted DEF Counted, LimitsHold, FilesOf
  <2>3. CASE NoBoundary
    <3>1. yielded' = <<>> /\ parser' = parser /\ body' = body /\ yielded = <<>>
      BY <1>0, <2>3 DEF NoBoundary, Typed
    <3>2. Len(yielded) <= parser.fields /\ Cardinality(FilesOf(yielded, body)) <= parser.files
      BY DEF Counted
    <3>3. parser.limits.fields \in Limit /\ parser.limits.files \in Limit
      BY <1>0, LimitsTyped
    <3> QED BY <1>0, <3>1, <3>2, <3>3, NothingCounted DEF Counted, LimitsHold, FilesOf
  <2> QED BY <2>1, <2>2, <2>3 DEF FromRequest
<1>3. CASE AskNext
  <2>1. PICK o \in NextField(body, parser) : parser' = o.p /\ yielded' = Handed(o)
    BY <1>3 DEF AskNext
  <2>2. mode # "none" /\ body' = body
    BY <1>3 DEF AskNext, Asking
  <2> QED BY <1>0, <2>1, <2>2, NextKeepsCount
<1>4. CASE CollectNext
  <2>1. PICK o \in NextField(body, parser) : parser' = o.p /\ yielded' = Handed(o)
    BY <1>4 DEF CollectNext
  <2>2. mode # "none" /\ body' = body
    BY <1>4 DEF CollectNext, Collecting
  <2> QED BY <1>0, <2>1, <2>2, NextKeepsCount
<1>5. CASE ReadHeld \/ CollectRead
  <2>1. PICK o \in ReadField(body, parser) : parser' = o.p
    BY <1>5 DEF ReadHeld, CollectRead
  <2>2. mode # "none" /\ body' = body /\ yielded' = yielded
    BY <1>5 DEF ReadHeld, CollectRead, Asking, Collecting
  <2>3. /\ o.p.limits = parser.limits /\ o.p.at = parser.at
        /\ o.p.fields = parser.fields /\ o.p.files = parser.files
    BY <1>0, ContentOutcome DEF ReadField, Typed, TypeOK
  <2> QED BY <1>0, <2>1, <2>2, <2>3, QuietKeepsCount
<1>6. CASE \/ DropHeld \/ IntoStream \/ IntoMultipart \/ CollectFiles \/ CollectAll
           \/ Cancel \/ \E name \in PartNames : TakeFile(name)
  <2>1. mode # "none" /\ body' = body /\ yielded' = yielded /\ parser' = parser
    BY <1>6 DEF DropHeld, IntoStream, IntoMultipart, CollectFiles, CollectAll,
                Cancel, TakeFile, Asking, Collecting
  <2> QED BY <1>0, <2>1, QuietKeepsCount
<1>7. CASE StreamBreaks
  <2>1. mode # "none" /\ body' = body /\ yielded' = yielded
    BY <1>7 DEF StreamBreaks, Asking, Collecting
  <2>2. /\ parser'.limits = parser.limits /\ parser'.at = parser.at
        /\ parser'.fields = parser.fields /\ parser'.files = parser.files
    BY <1>0, <1>7 DEF StreamBreaks, Typed, TypeOK, ParserType
  <2> QED BY <1>0, <2>1, <2>2, QuietKeepsCount
<1>8. CASE NextRequest
  <2>1. yielded' = <<>> /\ parser' = NewParser(Unlimited)
    BY <1>8 DEF NextRequest
  <2>2. /\ parser'.fields = 0 /\ parser'.files = 0
        /\ parser'.limits.fields \in Limit /\ parser'.limits.files \in Limit
    BY <2>1 DEF NewParser, Unlimited, Limit
  <2> QED BY <1>0, <2>1, <2>2, NothingCounted DEF Counted, LimitsHold, FilesOf
<1> QED BY <1>1, <1>2, <1>3, <1>4, <1>5, <1>6, <1>7, <1>8 DEF Next, Collect

(* next_field, streams and collectors together never hand out more fields  *)
(* or more files than the limits allow, nor a part twice or out of order:  *)
(* the parser counts before it hands out, and the counters move with it.   *)
THEOREM LimitsAlwaysHold == Spec => []LimitsHold
<1>1. Init => Counted
  <2> SUFFICES ASSUME Init PROVE Counted
    OBVIOUS
  <2>1. Typed
    BY InitTyped
  <2>2. yielded = <<>> /\ parser = NewParser(Unlimited)
    BY DEF Init
  <2>3. /\ parser.fields = 0 /\ parser.files = 0
        /\ parser.limits.fields \in Limit /\ parser.limits.files \in Limit
    BY <2>2 DEF NewParser, Unlimited, Limit
  <2> QED BY <2>1, <2>2, <2>3, NothingCounted DEF Counted, LimitsHold, FilesOf
<1>2. Counted /\ [Next]_vars => Counted'
  BY CountedStep
<1>3. Counted => LimitsHold
  BY DEF Counted
<1> QED BY <1>1, <1>2, <1>3, PTL DEF Spec

-----------------------------------------------------------------------------
(* Errors have a reason                                                    *)

LEMMA BodySizes == ASSUME Typed PROVE Sizes(body)
<1>1. body \in Seq(Part) /\ Len(body) \in Nat
  BY BodyLength
<1>2. \A i \in 1 .. Len(body) : body[i] \in Part
  BY <1>1
<1> QED BY <1>1, <1>2 DEF Sizes, Part

LEMMA ExceedsMeansNotFits ==
    ASSUME NEW b, NEW limits, Exceeds(b, limits)
    PROVE  ~Fits(b, limits)
<1>1. Files(b) = FilesIn(b, Len(b))
  BY DEF Files, FilesIn
<1> QED BY <1>1 DEF Exceeds, Fits

(* The parser has counted no more than lies behind it; it is broken, and   *)
(* the last answer an error, only with a reason.                           *)
Reason == cut \/ Exceeds(body, parser.limits)

Reasoned ==
    /\ Typed /\ Tallied(body, parser)
    /\ parser.broken => Reason
    /\ mode # "gone" /\ last = "error" => mode # "none" /\ Reason

LEMMA NextKeepsReason ==
    ASSUME Reasoned, Typed', NEW o \in NextField(body, parser),
           parser' = o.p, body' = body, last' = o.tag, cut' = cut,
           mode' # "none"
    PROVE  Reasoned'
<1>1. /\ Len(body) \in Nat /\ parser \in ParserType /\ parser.at <= Len(body)
      /\ Sizes(body) /\ Tallied(body, parser)
  BY BodyLength, BodySizes DEF Reasoned, Typed, TypeOK
<1>2. o.p.limits = parser.limits
  BY <1>1, NextFieldOutcome
<1>3. /\ Tallied(body, o.p)
      /\ o.tag = "error" \/ o.p.broken => parser.broken \/ Exceeds(body, parser.limits)
  BY <1>1, NextFieldReason
<1>4. o.tag = "error" \/ o.p.broken => Reason
  BY <1>3 DEF Reasoned, Reason
<1> QED BY <1>2, <1>3, <1>4 DEF Reasoned, Reason

LEMMA ReadKeepsReason ==
    ASSUME Reasoned, Typed', NEW o \in ReadField(body, parser),
           parser' = o.p, body' = body, last' = o.tag, cut' = cut,
           mode' # "none"
    PROVE  Reasoned'
<1>1. /\ parser \in ParserType /\ parser.at <= Len(body)
      /\ Sizes(body) /\ Tallied(body, parser) /\ o \in Content(body, parser)
  BY BodySizes DEF Reasoned, Typed, TypeOK, ReadField
<1>2. o.p.limits = parser.limits
  BY <1>1, ContentOutcome
<1>3. /\ Tallied(body, o.p)
      /\ o.tag = "error" \/ o.p.broken => parser.broken \/ Exceeds(body, parser.limits)
  BY <1>1, ContentReason
<1>4. o.tag = "error" \/ o.p.broken => Reason
  BY <1>3 DEF Reasoned, Reason
<1> QED BY <1>2, <1>3, <1>4 DEF Reasoned, Reason

LEMMA ReasonedStep == ASSUME Reasoned, [Next]_vars PROVE Reasoned'
<1>0. Typed /\ Typed'
  BY TypedStep DEF Reasoned
<1>1. CASE UNCHANGED vars
  BY <1>0, <1>1 DEF vars, Reasoned, Reason
<1>2. CASE \E limits \in Entries : FromRequest(limits)
  <2>1. PICK limits \in Entries : FromRequest(limits)
    BY <1>2
  <2>2. CASE Open(limits)
    <3>1. parser' = NewParser(limits) /\ last' = last /\ mode = "none"
      BY <2>2 DEF Open
    <3>2. last # "error"
      BY <3>1 DEF Reasoned
    <3> QED BY <1>0, <3>1, <3>2, NewParserTallied DEF Reasoned
  <2>3. CASE NoBoundary
    BY <1>0, <2>3 DEF NoBoundary, Reasoned, Reason
  <2> QED BY <2>1, <2>2, <2>3 DEF FromRequest
<1>3. CASE AskNext \/ CollectNext
  <2>1. \E o \in NextField(body, parser) : parser' = o.p /\ last' = o.tag
    BY <1>3 DEF AskNext, CollectNext
  <2>2. body' = body /\ cut' = cut /\ mode' # "none"
    BY <1>3 DEF AskNext, CollectNext, Asking, Collecting
  <2> QED BY <1>0, <2>1, <2>2, NextKeepsReason
<1>4. CASE ReadHeld \/ CollectRead
  <2>1. \E o \in ReadField(body, parser) : parser' = o.p /\ last' = o.tag
    BY <1>4 DEF ReadHeld, CollectRead
  <2>2. body' = body /\ cut' = cut /\ mode' # "none"
    BY <1>4 DEF ReadHeld, CollectRead, Asking, Collecting
  <2> QED BY <1>0, <2>1, <2>2, ReadKeepsReason
<1>5. CASE \/ DropHeld \/ IntoStream \/ IntoMultipart \/ CollectFiles \/ CollectAll
           \/ \E name \in PartNames : TakeFile(name)
  <2>1. /\ body' = body /\ parser' = parser /\ last' = last /\ cut' = cut
        /\ mode \notin {"none", "gone"} /\ mode' # "none"
    BY <1>5 DEF DropHeld, IntoStream, IntoMultipart, CollectFiles, CollectAll,
                TakeFile, Asking, Collecting
  <2> QED BY <1>0, <2>1 DEF Reasoned, Reason
<1>6. CASE StreamBreaks
  <2>1. /\ parser'.fields = parser.fields /\ parser'.files = parser.files
        /\ parser'.at = parser.at /\ parser'.open = parser.open
        /\ body' = body /\ cut' = TRUE /\ mode' # "none"
    BY <1>0, <1>6 DEF StreamBreaks, Asking, Collecting, Typed, TypeOK, ParserType
  <2> QED BY <1>0, <2>1 DEF Reasoned, Reason, Tallied
<1>7. CASE Cancel
  BY <1>0, <1>7 DEF Cancel, Reasoned, Reason
<1>8. CASE NextRequest
  <2>1. parser' = NewParser(Unlimited) /\ last' = "none"
    BY <1>8 DEF NextRequest
  <2> QED BY <1>0, <2>1, NewParserTallied DEF Reasoned
<1> QED BY <1>1, <1>2, <1>3, <1>4, <1>5, <1>6, <1>7, <1>8 DEF Next, Collect

(* A body within the limits is never refused, whatever calls are mixed: an *)
(* error of next_field, of a field or of a collector means that the        *)
(* connection broke or that the body as a whole breaks a limit, because    *)
(* the parser never counts more than it has passed.                        *)
THEOREM AlwaysRefusedForAReason == Spec => []RefusedForAReason
<1>1. Init => Reasoned
  <2> SUFFICES ASSUME Init PROVE Reasoned
    OBVIOUS
  <2>1. Typed
    BY InitTyped
  <2>2. parser = NewParser(Unlimited) /\ last = "none"
    BY DEF Init
  <2> QED BY <2>1, <2>2, NewParserTallied DEF Reasoned
<1>2. Reasoned /\ [Next]_vars => Reasoned'
  BY ReasonedStep
<1>3. Reasoned => RefusedForAReason
  BY ExceedsMeansNotFits DEF Reasoned, Reason, RefusedForAReason
<1> QED BY <1>1, <1>2, <1>3, PTL DEF Spec
-----------------------------------------------------------------------------
(* What the collectors return                                              *)

(* The parts that a collector has passed and is done with.                 *)
Passed == (start + 1 .. parser.at) \ {held}

PassedFiles == Files(body) \cap Passed

(* collect_files has a list, collect_all two maps.                         *)
Listing(d, parts) ==
    /\ d.list \in Seq(Nat) /\ ListOf(d.list, parts)
    /\ d.files = <<>> /\ d.fields = <<>>

Mapping(d, parts, others) ==
    /\ d.list = <<>>
    /\ LastOf(d.files, parts) /\ LastOf(d.fields, others)

Fitting(parts) == \A i \in parts : ~Over(body[i].size, parser.limits.field)

(* While a collector runs, it has kept what it has passed.                 *)
Gathered ==
    /\ Reasoned /\ CollectedIsTheBody
    /\ DOMAIN data = {"list", "files", "fields"}
    /\ mode \in Asking \cup {"none"} => data = NoData
    /\ mode \in Collecting =>
          /\ start <= parser.at /\ (held # 0 => start < held)
          /\ Fitting(PassedFiles)
    /\ mode = "files" /\ held # 0 => IsFile(body[held])
    /\ mode = "files" => Listing(data, PassedFiles)
    /\ mode = "all" => Mapping(data, PassedFiles, Passed \ Files(body))

(* A content that came in is within the limit of a field.                  *)
LEMMA ContentFits ==
    ASSUME NEW b, NEW p, p.open, NEW o \in Content(b, p), o.tag = "read"
    PROVE  ~Over(b[p.at].size, p.limits.field)
  BY DEF Content, SizeErrors, Outcome

(* Nothing kept is what there is in no parts.                              *)
LEMMA NothingKept ==
    /\ DOMAIN NoData = {"list", "files", "fields"}
    /\ Listing(NoData, {}) /\ Mapping(NoData, {}, {})
<1>1. NoData.list = <<>> /\ NoData.files = <<>> /\ NoData.fields = <<>>
  BY DEF NoData
<1>2. DOMAIN <<>> = {}
  OBVIOUS
<1>3. ListOf(<<>>, {}) /\ LastOf(<<>>, {})
  BY <1>2 DEF ListOf, LastOf
<1> HIDE DEF NoData
<1>4. DOMAIN NoData = {"list", "files", "fields"}
  BY DEF NoData
<1> QED BY <1>1, <1>3, <1>4 DEF Listing, Mapping

(* A later part goes to the end of the list.                               *)
LEMMA ListGrows ==
    ASSUME NEW list \in Seq(Nat), NEW parts, ListOf(list, parts),
           NEW i \in Nat, \A j \in parts : j < i
    PROVE  Append(list, i) \in Seq(Nat) /\ ListOf(Append(list, i), parts \cup {i})
<1> DEFINE more == Append(list, i)
           n == Len(list) + 1
<1>1. /\ more \in Seq(Nat) /\ DOMAIN more = DOMAIN list \cup {n} /\ more[n] = i
      /\ \A j \in DOMAIN list : more[j] = list[j] /\ j \in Nat /\ j < n
      /\ n \in Nat
  OBVIOUS
<1> HIDE DEF more, n
<1>2. {more[j] : j \in DOMAIN more} = parts \cup {i}
  BY <1>1 DEF ListOf
<1>3. ASSUME NEW j \in DOMAIN more, NEW k \in DOMAIN more, j < k
      PROVE  more[j] < more[k]
  <2>1. j \in DOMAIN list
    BY <1>1, <1>3
  <2>2. CASE k \in DOMAIN list
    BY <1>1, <1>3, <2>1, <2>2 DEF ListOf
  <2>3. CASE k = n
    <3>1. list[j] \in parts
      BY <2>1 DEF ListOf
    <3>2. list[j] < i
      BY <3>1
    <3>3. more[j] = list[j] /\ more[k] = i
      BY <1>1, <2>1, <2>3
    <3> QED BY <3>2, <3>3
  <2> QED BY <1>1, <2>2, <2>3
<1>4. ListOf(more, parts \cup {i})
  BY <1>2, <1>3 DEF ListOf
<1> QED BY <1>1, <1>4 DEF more

(* A later part takes the place of those of its name.                      *)
LEMMA MapGrows ==
    ASSUME NEW map, NEW parts \in SUBSET Nat, LastOf(map, parts),
           NEW i \in Nat, \A j \in parts : j < i, body[i].name # None
    PROVE  LastOf(Put(map, body[i].name, i), parts \cup {i})
<1> DEFINE name == body[i].name
           more == Put(map, name, i)
<1>1. /\ DOMAIN more = DOMAIN map \cup {name} /\ more[name] = i
      /\ \A n \in DOMAIN map : n # name => more[n] = map[n]
  BY DEF Put
<1> HIDE DEF more
<1>2. DOMAIN more = {body[j].name : j \in parts \cup {i}} \ {None}
  BY <1>1 DEF LastOf
<1>3. ASSUME NEW n \in DOMAIN more
      PROVE  /\ more[n] \in parts \cup {i} /\ body[more[n]].name = n
             /\ \A j \in parts \cup {i} : body[j].name = n => j <= more[n]
  <2>1. CASE n = name
    BY <1>1, <2>1
  <2>2. CASE n # name
    <3>1. n \in DOMAIN map /\ more[n] = map[n]
      BY <1>1, <2>2
    <3> QED BY <2>2, <3>1 DEF LastOf
  <2> QED BY <2>1, <2>2
<1>4. LastOf(more, parts \cup {i})
  BY <1>2, <1>3 DEF LastOf
<1> QED BY <1>4 DEF more

(* A part without a name is not missed.                                    *)
LEMMA MapIgnores ==
    ASSUME NEW map, NEW parts \in SUBSET Nat, LastOf(map, parts),
           NEW i \in Nat, body[i].name = None
    PROVE  LastOf(map, parts \cup {i})
<1>1. {body[j].name : j \in parts \cup {i}} \ {None}
          = {body[j].name : j \in parts} \ {None}
  OBVIOUS
<1>2. \A n \in DOMAIN map : n # None
  BY DEF LastOf
<1> QED BY <1>1, <1>2 DEF LastOf

(* What the collector keeps of a part that comes after all it has passed.  *)
LEMMA KeptGrows ==
    ASSUME Typed, DOMAIN data = {"list", "files", "fields"},
           NEW i \in Nat \ {0}, i <= Len(body),
           NEW parts \in SUBSET Nat, \A j \in parts : j < i
    PROVE  LET more == parts \cup {i} IN
           /\ DOMAIN Kept(i) = DOMAIN data
           /\ mode = "files" /\ IsFile(body[i])
                 /\ Listing(data, Files(body) \cap parts)
                 => Listing(Kept(i), Files(body) \cap more)
           /\ mode = "all" /\ Mapping(data, Files(body) \cap parts, parts \ Files(body))
                 => Mapping(Kept(i), Files(body) \cap more, more \ Files(body))
<1> DEFINE more == parts \cup {i}
           files == Files(body) \cap parts
           others == parts \ Files(body)
<1>0. Len(body) \in Nat /\ (i \in Files(body) <=> IsFile(body[i]))
  BY BodyLength DEF Files
<1>1. /\ files \in SUBSET Nat /\ others \in SUBSET Nat
      /\ \A j \in files : j < i
      /\ \A j \in others : j < i
  OBVIOUS
<1>2. /\ IsFile(body[i]) => /\ Files(body) \cap more = files \cup {i}
                            /\ more \ Files(body) = others
      /\ ~IsFile(body[i]) => /\ Files(body) \cap more = files
                             /\ more \ Files(body) = others \cup {i}
  BY <1>0
<1> HIDE DEF more, files, others
<1>3. DOMAIN Kept(i) = DOMAIN data
  BY DEF Kept
<1>4. ASSUME mode = "files", IsFile(body[i]), Listing(data, files)
      PROVE  Listing(Kept(i), Files(body) \cap more)
  <2> DEFINE d == [data EXCEPT !.list = Append(@, i)]
  <2>1. Kept(i) = d
    BY <1>4 DEF Kept
  <2>2. d.list = Append(data.list, i) /\ d.files = data.files /\ d.fields = data.fields
    OBVIOUS
  <2> HIDE DEF d
  <2>3. d.list \in Seq(Nat) /\ ListOf(d.list, files \cup {i})
    BY <1>1, <1>4, <2>2, ListGrows DEF Listing
  <2> QED BY <1>2, <1>4, <2>1, <2>2, <2>3 DEF Listing
<1>5. ASSUME mode = "all", Mapping(data, files, others)
      PROVE  Mapping(Kept(i), Files(body) \cap more, more \ Files(body))
  <2>1. CASE body[i].name = None
    <3>1. Kept(i) = data
      BY <1>5, <2>1 DEF Kept
    <3>2. LastOf(data.files, files \cup {i}) /\ LastOf(data.fields, others \cup {i})
      BY <1>1, <1>5, <2>1, MapIgnores DEF Mapping
    <3> QED BY <1>2, <1>5, <3>1, <3>2 DEF Mapping
  <2>2. CASE body[i].name # None /\ IsFile(body[i])
    <3> DEFINE d == [data EXCEPT !.files = Put(@, body[i].name, i)]
    <3>1. Kept(i) = d
      BY <1>5, <2>2 DEF Kept
    <3>2. /\ d.files = Put(data.files, body[i].name, i)
          /\ d.list = data.list /\ d.fields = data.fields
      OBVIOUS
    <3> HIDE DEF d
    <3>3. LastOf(data.files, files)
      BY <1>5 DEF Mapping
    <3>4. LastOf(Put(data.files, body[i].name, i), files \cup {i})
      BY <1>1, <2>2, <3>3, MapGrows
    <3> QED BY <1>2, <1>5, <2>2, <3>1, <3>2, <3>4 DEF Mapping
  <2>3. CASE body[i].name # None /\ ~IsFile(body[i])
    <3> DEFINE d == [data EXCEPT !.fields = Put(@, body[i].name, i)]
    <3>1. Kept(i) = d
      BY <1>5, <2>3 DEF Kept
    <3>2. /\ d.fields = Put(data.fields, body[i].name, i)
          /\ d.list = data.list /\ d.files = data.files
      OBVIOUS
    <3> HIDE DEF d
    <3>3. LastOf(data.fields, others)
      BY <1>5 DEF Mapping
    <3>4. LastOf(Put(data.fields, body[i].name, i), others \cup {i})
      BY <1>1, <2>3, <3>3, MapGrows
    <3> QED BY <1>2, <1>5, <2>3, <3>1, <3>2, <3>4 DEF Mapping
  <2> QED BY <2>1, <2>2, <2>3
<1>6. /\ mode = "files" /\ IsFile(body[i]) /\ Listing(data, files)
            => Listing(Kept(i), Files(body) \cap more)
      /\ mode = "all" /\ Mapping(data, files, others)
            => Mapping(Kept(i), Files(body) \cap more, more \ Files(body))
  BY <1>4, <1>5
<1> QED BY <1>3, <1>6 DEF more, files, others


(* A collector asks: what it has kept is what it has passed, until the end *)
(* of the body makes that all there was.                                   *)
LEMMA CollectNextGathers ==
    ASSUME Gathered, CollectNext, Reasoned'
    PROVE  Gathered'
<1>0. /\ Typed /\ Len(body) \in Nat /\ parser \in ParserType /\ parser.at \in Nat
      /\ parser.at <= Len(body) /\ Sizes(body) /\ Tallied(body, parser)
      /\ start \in Nat
  BY BodyLength, BodySizes DEF Gathered, Reasoned, Typed, TypeOK, ParserType
<1>1. PICK o \in NextField(body, parser) :
          /\ parser' = o.p /\ last' = o.tag
          /\ held' = IF /\ o.tag = "field"
                        /\ mode = "all" \/ IsFile(body[o.p.at])
                     THEN o.p.at ELSE 0
          /\ mode' = IF o.tag = "field" THEN mode ELSE "done"
          /\ data' = IF o.tag = "error" THEN NoData ELSE data
  BY DEF CollectNext
<1>2. mode \in Collecting /\ held = 0 /\ body' = body /\ start' = start
  BY DEF CollectNext
<1>3. /\ o.tag \in {"field", "end", "error"} /\ o.p.at <= Len(body)
      /\ o.p.limits = parser.limits /\ o.p \in ParserType
      /\ o.tag = "field" => o.p.at = parser.at + 1
      /\ o.tag = "end" => o.p.at = Len(body) /\ o.p.at = parser.at
  BY <1>0, NextFieldOutcome, NextFieldReason
<1>4. DOMAIN data' = {"list", "files", "fields"}
  BY <1>1, NothingKept DEF Gathered
<1>5. Passed = start + 1 .. parser.at
  BY <1>0, <1>2 DEF Passed
<1>6. CASE o.tag = "error"
  BY <1>1, <1>4, <1>6 DEF Gathered, CollectedIsTheBody, Asking, Collecting
<1>7. CASE o.tag = "end"
  <2>1. mode' = "done" /\ data' = data
    BY <1>1, <1>7
  <2>2. Passed = start + 1 .. Len(body) /\ PassedFiles = Files(body) \cap (start + 1 .. Len(body))
    BY <1>3, <1>5, <1>7 DEF PassedFiles
  <2>3. Fitting(PassedFiles)
    BY <1>2 DEF Gathered
  <2>4. Listing(data, PassedFiles) \/ Mapping(data, PassedFiles, Passed \ Files(body))
    BY <1>2 DEF Gathered, Collecting
  <2>5. Passed \ Files(body) = (start + 1 .. Len(body)) \ PassedFiles
    BY <2>2
  <2>6. CollectedIsTheBody'
    <3> DEFINE rest == start + 1 .. Len(body)
    <3>1. /\ PassedFiles = Files(body) \cap rest
          /\ Passed \ Files(body) = rest \ PassedFiles
      BY <2>2, <2>5
    <3>2. /\ parser'.at = Len(body)
          /\ \A i \in PassedFiles : ~Over(body[i].size, parser'.limits.field)
      BY <1>1, <1>3, <1>7, <2>3 DEF Fitting
    <3>3. \/ /\ ListOf(data.list, PassedFiles)
             /\ data.files = <<>> /\ data.fields = <<>>
          \/ /\ data.list = <<>>
             /\ LastOf(data.files, PassedFiles)
             /\ LastOf(data.fields, rest \ PassedFiles)
      BY <2>4, <3>1 DEF Listing, Mapping
    <3> HIDE DEF rest, PassedFiles
    <3>4. /\ \A i \in Files(body) \cap rest : ~Over(body[i].size, parser'.limits.field)
          /\ \/ /\ ListOf(data.list, Files(body) \cap rest)
                /\ data.files = <<>> /\ data.fields = <<>>
             \/ /\ data.list = <<>>
                /\ LastOf(data.files, Files(body) \cap rest)
                /\ LastOf(data.fields, rest \ (Files(body) \cap rest))
      BY <3>1, <3>2, <3>3
    <3> QED BY <1>2, <2>1, <3>2, <3>4 DEF CollectedIsTheBody, LastOf, rest
  <2> QED BY <1>4, <2>1, <2>6 DEF Gathered, Asking, Collecting
<1>8. CASE o.tag = "field"
  <2>1. mode' = mode /\ data' = data /\ parser'.at = parser.at + 1
    BY <1>1, <1>3, <1>8
  <2>2. /\ PassedFiles' = PassedFiles
        /\ mode = "all" => Passed' = Passed
        /\ start <= parser'.at /\ (held' # 0 => start < held')
    <3>1. CASE mode = "all" \/ IsFile(body[parser.at + 1])
      <4>1. held' = parser.at + 1
        BY <1>1, <1>8, <2>1, <3>1
      <4>2. Passed' = Passed
        BY <1>0, <1>2, <1>5, <2>1, <4>1 DEF Passed
      <4> QED BY <1>0, <1>2, <2>1, <4>1, <4>2 DEF PassedFiles, Gathered
    <3>2. CASE mode = "files" /\ ~IsFile(body[parser.at + 1])
      <4>1. held' = 0
        BY <1>1, <1>8, <2>1, <3>2
      <4>2. Passed' = Passed \cup (IF start <= parser.at THEN {parser.at + 1} ELSE {})
        BY <1>0, <1>2, <1>5, <2>1, <4>1 DEF Passed
      <4>3. parser.at + 1 \notin Files(body)
        BY <3>2 DEF Files
      <4>4. PassedFiles' = PassedFiles
        BY <1>2, <4>2, <4>3 DEF PassedFiles
      <4> QED BY <1>0, <1>2, <2>1, <3>2, <4>1, <4>4 DEF Gathered
    <3> QED BY <1>2, <3>1, <3>2 DEF Collecting
  <2>3. parser'.limits = parser.limits
    BY <1>1, <1>3
  <2>4. Fitting(PassedFiles)'
    BY <1>2, <2>2, <2>3 DEF Fitting, Gathered
  <2>5. mode' = "files" => Listing(data, PassedFiles)'
    BY <1>2, <2>1, <2>2 DEF Listing, Gathered, ListOf
  <2>6. mode' = "all" => Mapping(data, PassedFiles, Passed \ Files(body))'
    BY <1>2, <2>1, <2>2 DEF Mapping, Gathered, LastOf
  <2>7. CollectedIsTheBody'
    BY <1>2, <2>1 DEF CollectedIsTheBody, Collecting
  <2>8. mode' = "files" /\ held' # 0 => IsFile(body[held])'
    <3>1. mode = "files" /\ held' # 0 => held' = o.p.at /\ IsFile(body[o.p.at])
      BY <1>1
    <3> QED BY <1>2, <2>1, <3>1 DEF IsFile
  <2> QED BY <1>2, <1>4, <2>1, <2>2, <2>4, <2>5, <2>6, <2>7, <2>8
          DEF Gathered, Asking, Collecting
<1> QED BY <1>3, <1>6, <1>7, <1>8

(* A collector reads: it keeps the part in hand, whose content fits.       *)
LEMMA CollectReadGathers ==
    ASSUME Gathered, CollectRead, Reasoned'
    PROVE  Gathered'
<1>0. /\ Typed /\ Len(body) \in Nat /\ parser \in ParserType /\ parser.at \in Nat
      /\ parser.at <= Len(body) /\ start \in Nat
  BY BodyLength DEF Gathered, Reasoned, Typed, TypeOK, ParserType
<1>1. PICK o \in ReadField(body, parser) :
          /\ parser' = o.p /\ last' = o.tag
          /\ data' = IF o.tag = "read" THEN Kept(held) ELSE NoData
          /\ mode' = IF o.tag = "read" THEN mode ELSE "done"
  BY DEF CollectRead
<1>2. /\ mode \in Collecting /\ held # 0 /\ held' = 0
      /\ body' = body /\ start' = start
  BY DEF CollectRead
<1>3. /\ o.tag \in {"read", "error"} /\ o.p.limits = parser.limits
      /\ o.p.at = parser.at
  BY <1>0, ContentOutcome DEF ReadField
<1>4. /\ held = parser.at /\ parser.open /\ start < held
      /\ (mode = "files" => IsFile(body[held]))
  BY <1>2 DEF Gathered, Reasoned, Typed, TypeOK
<1>5. CASE o.tag = "error"
  BY <1>1, <1>5, NothingKept DEF Gathered, CollectedIsTheBody, Asking, Collecting
<1>6. CASE o.tag = "read"
  <2>1. mode' = mode /\ data' = Kept(held) /\ parser'.at = parser.at
    BY <1>1, <1>3, <1>6
  <2>2. /\ held \in Nat \ {0} /\ held <= Len(body)
        /\ Passed \in SUBSET Nat /\ \A j \in Passed : j < held
        /\ Passed' = Passed \cup {held}
    BY <1>0, <1>2, <1>4, <2>1 DEF Passed
  <2>3. PassedFiles' = Files(body) \cap (Passed \cup {held})
    BY <1>2, <2>2 DEF PassedFiles
  <2>4. DOMAIN data = {"list", "files", "fields"}
    BY DEF Gathered
  <2>5. /\ DOMAIN data' = DOMAIN data
        /\ mode = "files" => Listing(data', PassedFiles')
        /\ mode = "all" => Mapping(data', PassedFiles', Passed' \ Files(body))
    BY <1>0, <1>4, <2>1, <2>2, <2>3, <2>4, KeptGrows DEF Gathered, PassedFiles
  <2>6. Fitting(PassedFiles)'
    <3>1. ~Over(body[held].size, parser.limits.field)
      BY <1>4, <1>6, ContentFits DEF ReadField
    <3>2. Fitting(PassedFiles) /\ PassedFiles' \subseteq PassedFiles \cup {held}
      BY <1>2, <2>3 DEF Gathered, PassedFiles
    <3>3. parser'.limits = parser.limits
      BY <1>1, <1>3
    <3> QED BY <1>2, <3>1, <3>2, <3>3 DEF Fitting
  <2>7. CollectedIsTheBody'
    BY <1>2, <2>1 DEF CollectedIsTheBody, Collecting
  <2>8. mode' = "files" => Listing(data, PassedFiles)'
    BY <2>1, <2>5 DEF Listing, ListOf
  <2>9. mode' = "all" => Mapping(data, PassedFiles, Passed \ Files(body))'
    BY <1>2, <2>1, <2>5 DEF Mapping, LastOf
  <2>10. start' <= parser'.at
    BY <1>0, <1>2, <1>4, <2>1
  <2> QED BY <1>2, <2>1, <2>4, <2>5, <2>6, <2>7, <2>8, <2>9, <2>10
          DEF Gathered, Asking, Collecting
<1> QED BY <1>3, <1>5, <1>6

(* A step outside the collectors.                                          *)
LEMMA IdleGathers ==
    ASSUME Gathered, Reasoned', mode' \notin Collecting,
           mode' = "done" => UNCHANGED <<mode, body, parser, data, last, start>>,
           DOMAIN data' = {"list", "files", "fields"},
           mode' \in Asking \cup {"none"} => data' = NoData
    PROVE  Gathered'
<1>1. CollectedIsTheBody'
  BY DEF CollectedIsTheBody, Gathered, LastOf, ListOf, Files
<1> QED BY <1>1 DEF Gathered, Collecting

LEMMA GatheredStep == ASSUME Gathered, [Next]_vars PROVE Gathered'
<1>0. Reasoned /\ Typed /\ Reasoned' /\ DOMAIN data = {"list", "files", "fields"}
  BY ReasonedStep DEF Gathered, Reasoned
<1>1. CASE UNCHANGED vars
  BY <1>0, <1>1 DEF vars, Gathered, CollectedIsTheBody, Listing, Mapping, ListOf,
                    LastOf, Passed, PassedFiles, Fitting
<1>2. CASE CollectNext
  BY <1>0, <1>2, CollectNextGathers
<1>3. CASE CollectRead
  BY <1>0, <1>3, CollectReadGathers
<1>4. CASE CollectFiles \/ CollectAll
  <2>1. /\ data' = data /\ data = NoData /\ held' = 0 /\ body' = body
        /\ start' = parser.at /\ parser' = parser
        /\ mode' \in Collecting
    BY <1>4 DEF CollectFiles, CollectAll, Gathered, Asking, Collecting
  <2>2. parser.at \in Nat
    BY <1>0 DEF Typed, TypeOK, ParserType
  <2>3. Passed' = {}
    BY <2>1, <2>2 DEF Passed
  <2>4. PassedFiles' = {} /\ (Passed \ Files(body))' = {}
    BY <2>3 DEF PassedFiles
  <2>5. Listing(data, PassedFiles)' /\ Mapping(data, PassedFiles, Passed \ Files(body))'
    BY <2>1, <2>4, NothingKept DEF Listing, Mapping, ListOf, LastOf
  <2>6. Fitting(PassedFiles)'
    BY <2>4 DEF Fitting
  <2>7. CollectedIsTheBody'
    BY <2>1 DEF CollectedIsTheBody, Collecting
  <2> QED BY <1>0, <2>1, <2>2, <2>5, <2>6, <2>7 DEF Gathered, Asking, Collecting
<1>5. CASE StreamBreaks
  <2>1. parser'.at = parser.at /\ parser'.limits = parser.limits
    BY <1>0, <1>5 DEF StreamBreaks, Typed, TypeOK, ParserType
  <2>2. UNCHANGED <<body, mode, held, data, last, start>>
    BY <1>5 DEF StreamBreaks
  <2> QED BY <1>0, <2>1, <2>2 DEF Gathered, CollectedIsTheBody, Listing, Mapping,
                                  ListOf, LastOf, Passed, PassedFiles, Fitting
<1>6. CASE AskNext \/ ReadHeld \/ DropHeld \/ IntoStream \/ IntoMultipart
  <2>1. /\ mode \in Asking /\ mode' \in Asking /\ data' = data
    BY <1>6 DEF AskNext, ReadHeld, DropHeld, IntoStream, IntoMultipart, Asking
  <2> QED BY <1>0, <2>1, IdleGathers DEF Gathered, Asking, Collecting
<1>7. CASE \E limits \in Entries : FromRequest(limits)
  <2>1. mode = "none" /\ mode' \in {"multipart", "gone"} /\ data' = data
    BY <1>7 DEF FromRequest, Open, NoBoundary
  <2> QED BY <1>0, <2>1, IdleGathers DEF Gathered, Asking, Collecting
<1>8. CASE \E name \in PartNames : TakeFile(name)
  <2>1. mode' = "taken" /\ DOMAIN data' = DOMAIN data
    BY <1>8 DEF TakeFile
  <2> QED BY <1>0, <2>1, IdleGathers DEF Asking, Collecting
<1>9. CASE Cancel \/ NextRequest
  <2>1. mode' \in {"gone", "none"} /\ data' = NoData
    BY <1>9 DEF Cancel, NextRequest
  <2> QED BY <1>0, <2>1, IdleGathers, NothingKept DEF Collecting
<1> QED BY <1>1, <1>2, <1>3, <1>4, <1>5, <1>6, <1>7, <1>8, <1>9 DEF Next, Collect

(* A collector that answers Ok returns what the rest of the body says:     *)
(* collect_files all its files in order, collect_all the last file and the *)
(* last text of each name, whatever the caller has taken before.           *)
THEOREM AlwaysCollectsTheBody == Spec => []CollectedIsTheBody
<1>1. Init => Gathered
  <2> SUFFICES ASSUME Init PROVE Gathered
    OBVIOUS
  <2>1. Typed
    BY InitTyped
  <2>2. parser = NewParser(Unlimited) /\ last = "none" /\ mode = "none" /\ data = NoData
    BY DEF Init
  <2>3. Reasoned
    BY <2>1, <2>2, NewParserTallied DEF Reasoned
  <2> QED BY <2>2, <2>3, NothingKept DEF Gathered, CollectedIsTheBody, Collecting
<1>2. Gathered /\ [Next]_vars => Gathered'
  BY GatheredStep
<1>3. Gathered => CollectedIsTheBody
  BY DEF Gathered
<1> QED BY <1>1, <1>2, <1>3, PTL DEF Spec
=============================================================================
