-------------------------- MODULE MultipartParser --------------------------
(***************************************************************************)
(* The parser of src/multipart.rs as a value: what is left of a request    *)
(* body, and the counters of its fields and files.  The functions that may *)
(* wait for more of the body return the set of their outcomes.             *)
(*                                                                         *)
(* A body is a sequence of parts, each with its name, the file name it     *)
(* declares and its size in megabytes.  The parsing itself, the limits on  *)
(* sizes and the list of allowed names are those of the library multer.    *)
(***************************************************************************)
EXTENDS Naturals, Sequences

CONSTANTS
    PartNames,      \* names of fields
    FileNames,      \* file names that clients declare
    None            \* no name, no file name, no limit

ASSUME MultipartParserAssumption ==
    /\ None \notin Nat /\ None \notin PartNames /\ None \notin FileNames
    /\ \A names \in SUBSET PartNames : names # None

Limit == {None} \cup Nat
LimitsType == [total : Limit, field : Limit, fields : Limit, files : Limit,
               allowed : {None} \cup SUBSET PartNames]

Over(n, limit) == limit # None /\ n > limit

(* MultipartConstraints::default and unlimited.                            *)
Default   == [total |-> 100, field |-> 50, fields |-> 100, files |-> 10,
              allowed |-> None]
Unlimited == [total |-> None, field |-> None, fields |-> None, files |-> None,
              allowed |-> None]

IsFile(part) == part.filename # None

(* limits: the constraints; fields, files: how many were recorded; at: the *)
(* last part whose header was read; open: its content is still unread;     *)
(* broken: the connection, or multer after an error, yields nothing more.  *)
ParserType == [limits : LimitsType, fields : Nat, files : Nat, at : Nat,
               open : BOOLEAN, broken : BOOLEAN]

NewParser(limits) == [limits |-> limits, fields |-> 0, files |-> 0, at |-> 0,
                      open |-> FALSE, broken |-> FALSE]

(* The size of the first n parts.                                          *)
Upto(body, n) ==
    LET sum[i \in 0 .. Len(body)] ==
            IF i = 0 THEN 0 ELSE sum[i - 1] + body[i].size
    IN sum[n]

Outcome(tag, p) == [tag |-> tag, p |-> p]

(* An error on sizes; whether anything can be read after it is left open.  *)
SizeErrors(p) == {Outcome("error", [p EXCEPT !.broken = b]) : b \in BOOLEAN}

(* What is left of the open part comes in: the field may be too large, and *)
(* the stream, which is read ahead, may turn out to be too long before.    *)
Content(body, p) ==
    LET done == Outcome("read", [p EXCEPT !.open = FALSE])
        long == Over(Upto(body, Len(body)), p.limits.total)
        must == \/ p.open /\ Over(body[p.at].size, p.limits.field)
                \/ Over(Upto(body, p.at), p.limits.total)
    IN IF p.broken THEN {Outcome("error", p)}
       ELSE (IF must THEN {} ELSE {done})
            \cup (IF must \/ long THEN SizeErrors(p) ELSE {})

(* multer's next_field: the rest of the open part is skipped, then comes   *)
(* the end or the header of a part, whose name must be an allowed one.     *)
Header(body, p) ==
    LET moved == [p EXCEPT !.at = @ + 1]
        next == [moved EXCEPT !.open = TRUE]
        refused == /\ p.limits.allowed # None
                   /\ body[next.at].name \notin p.limits.allowed
    IN IF p.at = Len(body) THEN Outcome("end", p)
       ELSE Outcome(IF refused THEN "error" ELSE "field", next)

Polled(body, p) ==
    {IF o.tag = "read" THEN Header(body, o.p) ELSE o : o \in Content(body, p)}

(* Mutant: every field counts as a file.                                   *)
RecordedAsFile(p, isFile) ==
    LET q == [p EXCEPT !.fields = @ + 1, !.files = @ + 1]
    IN Outcome(IF \/ Over(q.fields, p.limits.fields)
                  \/ Over(q.files, p.limits.files)
               THEN "error" ELSE "field", q)

(* ConstraintCounters::record.                                             *)
Recorded(p, isFile) ==
    LET q == [p EXCEPT !.fields = @ + 1]
        r == [q EXCEPT !.files = @ + 1]
    IN IF Over(q.fields, p.limits.fields) THEN Outcome("error", q)
       ELSE IF ~isFile THEN Outcome("field", q)
       ELSE Outcome(IF Over(r.files, p.limits.files) THEN "error" ELSE "field", r)

(* Multipart::next_field.                                                  *)
NextField(body, p) ==
    {IF o.tag = "field" THEN Recorded(o.p, IsFile(body[o.p.at])) ELSE o :
        o \in Polled(body, p)}

(* UploadedFile::from_field, Field::text: the content of the open field.   *)
ReadField(body, p) == Content(body, p)
=============================================================================
