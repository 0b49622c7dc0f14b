------------------------------ MODULE Multipart ------------------------------
(***************************************************************************)
(* A caller and the multipart parser of src/multipart.rs.  The caller asks *)
(* for fields one by one, reads or drops them, turns the parser into a     *)
(* stream and back, goes on after an error, and may hand what is left to   *)
(* collect_files or collect_all.  The body arrives bit by bit, so each     *)
(* wait for it is a step; the connection may break and the caller may drop *)
(* the future at any of them.                                              *)
(***************************************************************************)
EXTENDS MultipartParser, FiniteSets

CONSTANTS
    Bodies,         \* the request bodies considered
    CustomLimits    \* constraints that callers build themselves

Part == [name : PartNames \cup {None}, filename : FileNames \cup {None},
         size : Nat]

ASSUME MultipartAssumption ==
    Bodies \subseteq Seq(Part) /\ CustomLimits \subseteq LimitsType

VARIABLES
    body,       \* the body of the request
    parser,     \* what is left of it, and the counters
    mode,       \* who drives the parser: the caller, or a collector
    held,       \* the part whose field is held and unread, or 0
    data,       \* what a collector has kept, as numbers of parts
    last,       \* the answer to the last call
    yielded,    \* history: the parts handed out as fields
    start,      \* history: the last part before the collector began
    cut         \* history: the connection broke

vars == <<body, parser, mode, held, data, last, yielded, start, cut>>

Asking == {"multipart", "stream"}
Collecting == {"files", "all"}

(* list: the result of collect_files; files and fields: of collect_all.    *)
NoData == [list |-> <<>>, files |-> <<>>, fields |-> <<>>]

(* The limits of new, unconstrained and with_constraints.                  *)
Entries == {Default, Unlimited} \cup CustomLimits

Files(b) == {i \in 1 .. Len(b) : IsFile(b[i])}

TypeOK ==
    /\ body \in Bodies \cup {<<>>}
    /\ parser \in ParserType /\ parser.limits \in Entries
    /\ parser.at <= Len(body)
    /\ mode \in Asking \cup Collecting \cup {"none", "done", "taken", "gone"}
    /\ held \in {0, parser.at} /\ (held # 0 => parser.open)
    /\ last \in {"none", "field", "read", "end", "error"}
    /\ yielded \in Seq(1 .. Len(body))
    /\ start \in 0 .. Len(body) /\ cut \in BOOLEAN

Init ==
    /\ body = <<>>
    /\ parser = NewParser(Unlimited)
    /\ mode = "none" /\ held = 0 /\ data = NoData /\ last = "none"
    /\ yielded = <<>> /\ start = 0 /\ cut = FALSE

-----------------------------------------------------------------------------
(* Building a parser                                                       *)

Open(limits) ==
    /\ mode = "none"
    /\ body' \in Bodies
    /\ parser' = NewParser(limits)
    /\ mode' = "multipart"
    /\ UNCHANGED <<held, data, last, yielded, start, cut>>

(* The content type of the request names no boundary.                      *)
NoBoundary ==
    /\ mode = "none"
    /\ mode' = "gone" /\ last' = "error"
    /\ UNCHANGED <<body, parser, held, data, yielded, start, cut>>

FromRequest(limits) == Open(limits) \/ NoBoundary

-----------------------------------------------------------------------------
(* The caller asks                                                         *)

Handed(o) == IF o.tag = "field" THEN Append(yielded, o.p.at) ELSE yielded

AskNext ==
    /\ mode \in Asking /\ held = 0
    /\ \E o \in NextField(body, parser) :
          /\ parser' = o.p /\ last' = o.tag
          /\ held' = IF o.tag = "field" THEN o.p.at ELSE 0
          /\ yielded' = Handed(o)
    /\ UNCHANGED <<body, mode, data, start, cut>>

ReadHeld ==
    /\ mode \in Asking /\ held # 0
    /\ \E o \in ReadField(body, parser) : parser' = o.p /\ last' = o.tag
    /\ held' = 0
    /\ UNCHANGED <<body, mode, data, yielded, start, cut>>

(* The caller has no use for the field.                                    *)
DropHeld ==
    /\ mode \in Asking /\ held # 0
    /\ held' = 0
    /\ UNCHANGED <<body, parser, mode, data, last, yielded, start, cut>>

(* Mutant: the stream starts with counters of its own.                     *)
IntoStreamAnew ==
    /\ mode = "multipart" /\ mode' = "stream"
    /\ parser' = [parser EXCEPT !.fields = 0, !.files = 0]
    /\ UNCHANGED <<body, held, data, last, yielded, start, cut>>

IntoStream ==
    /\ mode = "multipart" /\ mode' = "stream"
    /\ UNCHANGED <<body, parser, held, data, last, yielded, start, cut>>

IntoMultipart ==
    /\ mode = "stream" /\ mode' = "multipart"
    /\ UNCHANGED <<body, parser, held, data, last, yielded, start, cut>>

-----------------------------------------------------------------------------
(* The collectors                                                          *)

CollectFiles ==
    /\ mode = "multipart" /\ held = 0
    /\ mode' = "files" /\ start' = parser.at
    /\ UNCHANGED <<body, parser, held, data, last, yielded, cut>>

CollectAll ==
    /\ mode = "multipart" /\ held = 0
    /\ mode' = "all" /\ start' = parser.at
    /\ UNCHANGED <<body, parser, held, data, last, yielded, cut>>

(* HashMap::insert.  Mutant: what is there stays.                          *)
PutIfAbsent(map, name, i) ==
    IF name \in DOMAIN map THEN map
    ELSE [n \in DOMAIN map \cup {name} |-> IF n = name THEN i ELSE map[n]]

Put(map, name, i) ==
    [n \in DOMAIN map \cup {name} |-> IF n = name THEN i ELSE map[n]]

(* The collector keeps part i; collect_all drops what has no name.         *)
Kept(i) ==
    LET part == body[i] IN
    CASE mode = "files" -> [data EXCEPT !.list = Append(@, i)]
      [] mode = "all" /\ part.name = None -> data
      [] mode = "all" /\ part.name # None /\ IsFile(part) ->
             [data EXCEPT !.files = Put(@, part.name, i)]
      [] OTHER -> [data EXCEPT !.fields = Put(@, part.name, i)]

(* Mutant: an error is taken for a part to pass over.                      *)
CollectNextStubborn ==
    /\ mode \in Collecting /\ held = 0
    /\ \E o \in NextField(body, parser) :
          /\ parser' = o.p /\ last' = o.tag /\ yielded' = Handed(o)
          /\ held' = IF /\ o.tag = "field"
                        /\ mode = "all" \/ IsFile(body[o.p.at])
                     THEN o.p.at ELSE 0
          /\ mode' = IF o.tag = "end" THEN "done" ELSE mode
    /\ UNCHANGED <<body, data, start, cut>>

(* One turn of the loop: collect_files drops a field that is not a file.   *)
(* An error is the answer of the call, and what was kept is gone.          *)
CollectNext ==
    /\ mode \in Collecting /\ held = 0
    /\ \E o \in NextField(body, parser) :
          /\ parser' = o.p /\ last' = o.tag /\ yielded' = Handed(o)
          /\ held' = IF /\ o.tag = "field"
                        /\ mode = "all" \/ IsFile(body[o.p.at])
                     THEN o.p.at ELSE 0
          /\ mode' = IF o.tag = "field" THEN mode ELSE "done"
          /\ data' = IF o.tag = "error" THEN NoData ELSE data
    /\ UNCHANGED <<body, start, cut>>

(* Mutant: the field is kept in hand when its content was too large.       *)
CollectReadHolding ==
    /\ mode \in Collecting /\ held # 0
    /\ \E o \in ReadField(body, parser) :
          /\ parser' = o.p /\ last' = o.tag
          /\ data' = IF o.tag = "read" THEN Kept(held) ELSE data
          /\ mode' = IF o.tag = "read" THEN mode ELSE "multipart"
    /\ held' = held
    /\ UNCHANGED <<body, yielded, start, cut>>

(* The content of the field is read whole before it is kept.               *)
CollectRead ==
    /\ mode \in Collecting /\ held # 0
    /\ \E o \in ReadField(body, parser) :
          /\ parser' = o.p /\ last' = o.tag
          /\ data' = IF o.tag = "read" THEN Kept(held) ELSE NoData
          /\ mode' = IF o.tag = "read" THEN mode ELSE "done"
    /\ held' = 0
    /\ UNCHANGED <<body, yielded, start, cut>>

(* MultipartData::take_file.                                               *)
TakeFile(name) ==
    /\ mode \in {"done", "taken"} /\ name \in DOMAIN data.files
    /\ data' = [data EXCEPT !.files =
                   [n \in DOMAIN data.files \ {name} |-> data.files[n]]]
    /\ mode' = "taken"
    /\ UNCHANGED <<body, parser, held, last, yielded, start, cut>>

-----------------------------------------------------------------------------
(* The connection breaks; the caller drops everything, also the future of  *)
(* a collector; the next request comes.                                    *)

StreamBreaks ==
    /\ mode \in Asking \cup Collecting
    /\ parser' = [parser EXCEPT !.broken = TRUE] /\ cut' = TRUE
    /\ UNCHANGED <<body, mode, held, data, last, yielded, start>>

Cancel ==
    /\ mode \in Asking \cup Collecting
    /\ mode' = "gone" /\ held' = 0 /\ data' = NoData /\ last' = "none"
    /\ UNCHANGED <<body, parser, yielded, start, cut>>

NextRequest ==
    /\ mode \in {"done", "taken", "gone"}
    /\ body' = <<>> /\ parser' = NewParser(Unlimited)
    /\ mode' = "none" /\ held' = 0 /\ data' = NoData /\ last' = "none"
    /\ yielded' = <<>> /\ start' = 0 /\ cut' = FALSE

Collect == CollectNext \/ CollectRead

Next ==
    \/ \E limits \in Entries : FromRequest(limits)
    \/ AskNext \/ ReadHeld \/ DropHeld
    \/ IntoStream \/ IntoMultipart
    \/ CollectFiles \/ CollectAll \/ Collect
    \/ \E name \in PartNames : TakeFile(name)
    \/ StreamBreaks \/ Cancel \/ NextRequest

Spec == Init /\ [][Next]_vars

(* The runtime polls the collector, and the body arrives or breaks off.    *)
FairSpec == Spec /\ WF_vars(Collect)

-----------------------------------------------------------------------------
(* Properties                                                              *)

(* However next_field, streams and collectors are mixed, and whether or    *)
(* not the caller goes on after an error: no more fields and no more files *)
(* are handed out than the limits allow, each part once and in order.      *)
LimitsHold ==
    LET limits == parser.limits IN
    mode # "none" =>
    /\ ~Over(Len(yielded), limits.fields)
    /\ ~Over(Cardinality({i \in DOMAIN yielded : IsFile(body[yielded[i]])}),
             limits.files)
    /\ \A i, j \in DOMAIN yielded : i < j => yielded[i] < yielded[j]

(* A body within the limits is never refused: an error of any call means   *)
(* that the connection broke or that the body breaks a limit.              *)
Fits(b, limits) ==
    /\ ~Over(Len(b), limits.fields)
    /\ ~Over(Cardinality(Files(b)), limits.files)
    /\ ~Over(Upto(b, Len(b)), limits.total)
    /\ \A i \in 1 .. Len(b) : ~Over(b[i].size, limits.field)
    /\ limits.allowed # None => \A i \in 1 .. Len(b) : b[i].name \in limits.allowed

RefusedForAReason ==
    mode \notin {"none", "gone"} /\ last = "error" =>
        cut \/ ~Fits(body, parser.limits)

(* A collector that answers Ok has seen the body to its end: collect_files *)
(* returns every file that was left, in order; collect_all returns, under  *)
(* each name, the last file and the last text of that name, and nothing    *)
(* else.  A file among them is within the limit of a field.                *)
ListOf(list, parts) ==
    /\ {list[j] : j \in DOMAIN list} = parts
    /\ \A j, k \in DOMAIN list : j < k => list[j] < list[k]

LastOf(map, parts) ==
    /\ DOMAIN map = {body[i].name : i \in parts} \ {None}
    /\ \A n \in DOMAIN map :
          /\ map[n] \in parts /\ body[map[n]].name = n
          /\ \A i \in parts : body[i].name = n => i <= map[n]

CollectedIsTheBody ==
    mode = "done" /\ last = "end" =>
        LET rest == start + 1 .. Len(body)
            files == Files(body) \cap rest
        IN
        /\ parser.at = Len(body)
        /\ \A i \in files : ~Over(body[i].size, parser.limits.field)
        /\ \/ /\ ListOf(data.list, files)
              /\ data.files = <<>> /\ data.fields = <<>>
           \/ /\ data.list = <<>>
              /\ LastOf(data.files, files)
              /\ LastOf(data.fields, rest \ files)

(* collect_files and collect_all answer.                                   *)
CollectorsAnswer == mode \in Collecting ~> mode \notin Collecting
=============================================================================
