---------------------------- MODULE CloudStorage ----------------------------
(***************************************************************************)
(* The cloud backends (src/s3.rs, src/gcs.rs, src/azure.rs): any number of *)
(* tasks make calls on one bucket.  A call is a program of requests, each  *)
(* of which the service executes at once at some moment before it answers. *)
(* An answer may be an error or be lost, the client library may send a     *)
(* request again, and a request whose caller no longer waits may be        *)
(* executed late.  What is between an answer and the next request or the   *)
(* result of the call is one action.                                       *)
(***************************************************************************)
EXTENDS Naturals, Sequences, FiniteSets

CONSTANTS
    Tasks,          \* concurrent callers
    Calls,          \* the calls they may make, see CallType
    Backends,       \* the backends considered, of "s3", "gcs" and "azure"
    PathPrefix,     \* StorageConfig::path_prefix, split at "/"; <<>> for None
    OptionsParse,   \* S3: ACL, encryption and storage class are known ones
    Data,           \* what objects hold
    TooBig,         \* the data that exceeds max_file_size
    ByteOrder,      \* the object names that occur, in the order of their bytes
    Buckets,        \* what the bucket may hold at first
    Refusals,       \* the errors of the service other than a missing object
    PageSize,       \* DEFAULT_LIST_PAGE_SIZE
    MaxItems,       \* LIST_MAX_ITEMS
    MaxSends,       \* bound: how often the client library sends a request
    MaxLate,        \* bound: requests on their way without a caller
    None            \* no object, no call, no cursor

(* A key is split at "/".  pages is a caller that asks list_page for one   *)
(* page after the other.  For it and list, key is the prefix, which ends   *)
(* in "/" or is empty: its last part is "".                                *)
Lists == {"list", "pages"}
Kinds == {"put", "get", "head", "exists", "delete", "copy", "rename"} \cup Lists
CallType == [kind : Kinds, key : Seq(STRING), to : Seq(STRING),
             data : Data \cup {None}, limit : Nat]

Names == {ByteOrder[i] : i \in 1 .. Len(ByteOrder)}
Rank(name) == CHOOSE i \in 1 .. Len(ByteOrder) : ByteOrder[i] = name

VARIABLES
    backend,    \* the backend that was built; it stays the same
    objects,    \* the bucket: name -> data or None
    late,       \* requests on their way whose caller does not wait for them
    control,    \* GCS: the control client is built
    queue,      \* GCS: tasks that wait for it, the first of them building it
    task        \* the call each task is in

vars == <<backend, objects, late, control, queue, task>>

-----------------------------------------------------------------------------
(* Names of objects                                                        *)

(* trim_end_matches('/') of the path prefix: what is left is never empty,  *)
(* as split("") is one empty part.                                         *)
Trimmed(p) ==
    IF p = <<>> THEN <<>>
    ELSE SubSeq(p, 1, CHOOSE n \in 1 .. Len(p) :
                          /\ \A i \in n + 1 .. Len(p) : p[i] = ""
                          /\ n = 1 \/ p[n] # "")

FullKey(key) == Trimmed(PathPrefix) \o key

ASSUME CloudStorageAssumption ==
    /\ Calls \subseteq CallType
    /\ \A c \in Calls : /\ c.kind \notin {"copy", "rename"} => c.to = c.key
                        /\ c.kind = "put" => c.data \in Data
                        /\ c.kind \in Lists => c.key # <<>>
                        /\ c.kind \notin Lists =>
                               FullKey(c.key) \in Names /\ FullKey(c.to) \in Names
    /\ Backends \subseteq {"s3", "gcs", "azure"}
    /\ PathPrefix \in Seq(STRING) /\ OptionsParse \in BOOLEAN
    /\ ByteOrder \in Seq(Seq(STRING))
    /\ \A i, j \in 1 .. Len(ByteOrder) : ByteOrder[i] = ByteOrder[j] => i = j
    /\ None \notin Data \cup Tasks /\ None \notin CallType /\ None \notin Names
    /\ Buckets \subseteq [Names -> Data \cup {None}]
    /\ Refusals \subseteq {"denied", "denied404"}
    /\ PageSize \in Nat \ {0} /\ MaxItems \in Nat
    /\ MaxSends \in Nat \ {0} /\ MaxLate \in Nat

(* starts_with, for a prefix whose last part is "".                        *)
StartsWith(name, prefix) ==
    /\ Len(name) >= Len(prefix)
    /\ \A i \in 1 .. Len(prefix) - 1 : name[i] = prefix[i]

(* What list_page asks for, and the key it reports for a name: here the    *)
(* path prefix is taken as it is written.                                  *)
ListPrefix(prefix) == PathPrefix \o prefix

RelativeKey(name) ==
    IF PathPrefix # <<>> /\ StartsWith(name, PathPrefix \o <<"">>)
    THEN SubSeq(name, Len(PathPrefix) + 1, Len(name)) ELSE name

(* encode_key_for_url refuses a key with a ".." segment.                   *)
HasUrl(key) == \A i \in 1 .. Len(FullKey(key)) : FullKey(key)[i] # ".."

-----------------------------------------------------------------------------
(* Calls and requests                                                      *)

NoAnswer == [tag |-> "none", value |-> None, names |-> <<>>, token |-> None]

(* op is the request the call is at, sends how often it was sent, value    *)
(* what a get has read, cursor and found the state of a list.  ever, orig  *)
(* and alone are history: what the names of the call have named since it   *)
(* began, what its key named then, and that no other call has changed them.*)
Idle == [pc |-> "idle", call |-> None, op |-> "none", answer |-> NoAnswer,
         sends |-> 0, value |-> None, cursor |-> None, found |-> <<>>,
         res |-> "none", ever |-> {}, orig |-> None, alone |-> FALSE]

Busy == {"control", "wait"}

FirstOp(c) == CASE c.kind \in {"put", "get", "delete"} -> c.kind
                [] c.kind \in {"head", "exists"}       -> "head"
                [] c.kind \in {"copy", "rename"}       -> "copy"
                [] c.kind \in Lists                    -> "list"

(* How many objects list_page asks for: limit 0 stands for the default,    *)
(* which is what list asks for.                                            *)
PageLimit(c) == IF c.kind = "list" \/ c.limit = 0 THEN PageSize ELSE c.limit

(* put and get of GCS use the data client, all others the control client.  *)
NeedsControl(op) == backend = "gcs" /\ op \notin {"put", "get"}

(* The names a call is about; for a list those of the keys below its prefix.*)
Uses(c) == IF c.kind \in Lists
           THEN {n \in Names : StartsWith(n, FullKey(c.key))}
           ELSE {FullKey(c.key), FullKey(c.to)}

(* What a request does to the bucket, and the names it changes.            *)
Request(t) ==
    LET c == task[t].call
        op == task[t].op
    IN [op |-> op, from |-> FullKey(c.key),
        name |-> FullKey(IF op = "head" THEN c.to ELSE
                         IF op = "copy" THEN c.to ELSE c.key),
        data |-> c.data]

Executed(r) ==
    CASE r.op = "put"    -> [objects EXCEPT ![r.name] = r.data]
      [] r.op = "delete" -> [objects EXCEPT ![r.name] = None]
      [] r.op = "copy"   -> [objects EXCEPT ![r.name] =
                                IF objects[r.from] # None THEN objects[r.from] ELSE @]
      [] OTHER           -> objects

(* The answer of the service; S3 deletes what is not there.                *)
Outcome(r) ==
    LET missing == \/ r.op \in {"get", "head"} /\ objects[r.name] = None
                   \/ r.op = "copy" /\ objects[r.from] = None
                   \/ r.op = "delete" /\ backend # "s3" /\ objects[r.name] = None
    IN [NoAnswer EXCEPT !.tag = IF missing THEN "missing" ELSE "ok",
                        !.value = IF r.op = "get" THEN objects[r.name] ELSE None]

(* A caller may ask again for a page that failed.                          *)
Repeatable(k) == k.pc = "done" /\ k.call.kind = "pages"
                     /\ k.res \in {"storage", "config"}

(* How the history of the calls in progress goes on when the bucket turns  *)
(* into objs by a request of owner.                                        *)
Observed(ts, objs, owner) == [u \in Tasks |->
    IF ts[u].pc = "idle" THEN ts[u]
    ELSE [ts[u] EXCEPT
             !.ever = IF ts[u].pc = "done" /\ ~Repeatable(ts[u]) THEN @
                      ELSE @ \cup {<<n, objs[n]>> : n \in Uses(ts[u].call)},
             !.alone = @ /\ (u = owner
                 \/ \A n \in Uses(ts[u].call) : objs[n] = objects[n])]]

Finish(t, res) ==
    task' = [task EXCEPT ![t].pc = "done", ![t].res = res, ![t].op = "none",
                         ![t].answer = NoAnswer, ![t].sends = 0]

(* The call goes on to its next request.                                   *)
Send(t, op) ==
    task' = [task EXCEPT ![t].op = op, ![t].answer = NoAnswer, ![t].sends = 1]

At(t, op) == /\ task[t].pc = "wait" /\ task[t].op = op
             /\ task[t].answer.tag # "none"

Answered(t, tag) == task[t].answer.tag = tag

(* Mutant: every error of a lookup is taken for a missing object.          *)
AnyErrorSaysMissing(t) == ~Answered(t, "ok")

(* Whether the text of an error says that there is no such object.  GCS    *)
(* and Azure take any text with "404" in it for that; S3 does not look at  *)
(* the errors of delete.                                                   *)
SaysMissingS3(t)    == Answered(t, "missing") /\ task[t].op # "delete"
SaysMissingGcs(t)   == Answered(t, "missing") \/ Answered(t, "denied404")
SaysMissingAzure(t) == Answered(t, "missing") \/ Answered(t, "denied404")

SaysMissing(t) == CASE backend = "s3"    -> SaysMissingS3(t)
                    [] backend = "gcs"   -> SaysMissingGcs(t)
                    [] backend = "azure" -> SaysMissingAzure(t)

Failure(t) == IF SaysMissing(t) THEN "notfound" ELSE "storage"

TypeOK ==
    /\ backend \in Backends
    /\ objects \in [Names -> Data \cup {None}]
    /\ control \in BOOLEAN
    /\ \A i \in 1 .. Len(queue) : queue[i] \in Tasks
    /\ Cardinality(late) <= MaxLate
    /\ \A t \in Tasks :
          LET k == task[t] IN
          /\ k.pc \in Busy \cup {"idle", "done"}
          /\ k.pc # "idle" => k.call \in Calls
          /\ k.pc \in Busy <=> k.op # "none"
          /\ k.value \in Data \cup {None} /\ k.cursor \in Names \cup {None}
          /\ (k.pc # "idle" /\ k.call.kind = "list") => Len(k.found) <= MaxItems
          /\ k.sends <= MaxSends

Init ==
    /\ backend \in Backends
    /\ objects \in Buckets
    /\ late = {} /\ control = FALSE /\ queue = <<>>
    /\ task = [t \in Tasks |-> Idle]

-----------------------------------------------------------------------------
(* The start of a call                                                     *)

(* What put answers before it sends anything: the size check, and for S3   *)
(* the options of the request.                                             *)
Admit(c) == CASE c.kind = "put" /\ c.data \in TooBig -> "toolarge"
              [] c.kind = "put" /\ c.data \notin TooBig
                   /\ backend = "s3" /\ ~OptionsParse -> "config"
              [] OTHER -> "ok"

Begin(t, c) ==
    LET ok == Admit(c) = "ok"
        waits == ok /\ NeedsControl(FirstOp(c)) /\ ~control
    IN
    /\ task[t] = Idle
    /\ task' = [task EXCEPT ![t] = [Idle EXCEPT
           !.call = c,
           !.pc = IF ~ok THEN "done" ELSE IF waits THEN "control" ELSE "wait",
           !.op = IF ok THEN FirstOp(c) ELSE "none",
           !.sends = IF ok THEN 1 ELSE 0,
           !.res = IF ok THEN "none" ELSE Admit(c),
           !.ever = {<<n, objects[n]>> : n \in Uses(c)},
           !.orig = IF c.kind \in Lists THEN None ELSE objects[FullKey(c.key)],
           !.alone = TRUE]]
    /\ queue' = IF waits THEN Append(queue, t) ELSE queue
    /\ UNCHANGED <<backend, objects, late, control>>

-----------------------------------------------------------------------------
(* The control client of GCS (OnceCell::get_or_try_init)                   *)

(* The queue without t, which stands in it once or not at all.             *)
Left(t) ==
    IF \A i \in 1 .. Len(queue) : queue[i] # t THEN queue
    ELSE LET n == CHOOSE i \in 1 .. Len(queue) : queue[i] = t
         IN SubSeq(queue, 1, n - 1) \o SubSeq(queue, n + 1, Len(queue))

Builds(t) == task[t].pc = "control" /\ ~control /\ Head(queue) = t

ControlBuilt(t) ==
    /\ Builds(t)
    /\ control' = TRUE /\ queue' = Left(t)
    /\ task' = [task EXCEPT ![t].pc = "wait"]
    /\ UNCHANGED <<backend, objects, late>>

(* The first of the queue fails; the next one tries for itself.            *)
ControlFails(t) ==
    /\ Builds(t)
    /\ queue' = Left(t)
    /\ Finish(t, "config")
    /\ UNCHANGED <<backend, objects, late, control>>

ControlThere(t) ==
    /\ task[t].pc = "control" /\ control
    /\ queue' = Left(t)
    /\ task' = [task EXCEPT ![t].pc = "wait"]
    /\ UNCHANGED <<backend, objects, late, control>>

-----------------------------------------------------------------------------
(* The service and the way to it                                           *)

Waiting(t) == task[t].pc = "wait" /\ task[t].answer.tag = "none"

Serve(t) ==
    LET r == Request(t) IN
    /\ Waiting(t) /\ r.op # "list"
    /\ objects' = Executed(r)
    /\ task' = Observed([task EXCEPT ![t].answer = Outcome(r)], objects', t)
    /\ UNCHANGED <<backend, late, control, queue>>

(* A page: the first of the names after the cursor, in order, at most as   *)
(* many as were asked for, and fewer when the service chooses.  The token  *)
(* is the last name when there are more, and "" when not.                  *)
ServePage(t) ==
    LET after == IF task[t].cursor = None THEN 0 ELSE Rank(task[t].cursor)
        match == {i \in after + 1 .. Len(ByteOrder) :
                     /\ objects[ByteOrder[i]] # None
                     /\ StartsWith(ByteOrder[i], ListPrefix(task[t].call.key))}
    IN
    /\ Waiting(t) /\ task[t].op = "list"
    /\ \E n \in 0 .. PageLimit(task[t].call) : \E page \in [1 .. n -> match] :
          LET left == match \ {page[i] : i \in 1 .. n} IN
          /\ \A i, j \in 1 .. n : i < j => page[i] < page[j]
          /\ \A i \in 1 .. n : \A j \in left : page[i] < j
          /\ n = 0 => match = {}
          /\ task' = [task EXCEPT ![t].answer = [tag |-> "ok", value |-> None,
                 names |-> [i \in 1 .. n |-> ByteOrder[page[i]]],
                 token |-> IF left = {} THEN <<>> ELSE ByteOrder[page[n]]]]
    /\ UNCHANGED <<backend, objects, late, control, queue>>

Refuse(t) ==
    /\ Waiting(t)
    /\ \E tag \in Refusals :
          task' = [task EXCEPT ![t].answer = [NoAnswer EXCEPT !.tag = tag]]
    /\ UNCHANGED <<backend, objects, late, control, queue>>

Changes(r) == r.op \in {"put", "delete", "copy"}

(* The connection breaks: the answer is lost, or the request, or the       *)
(* request is still on its way.                                            *)
Break(t) ==
    /\ task[t].pc = "wait"
    /\ ~Answered(t, "broken")
    /\ task' = [task EXCEPT ![t].answer = [NoAnswer EXCEPT !.tag = "broken"]]
    /\ \/ late' = late
       \/ /\ Waiting(t) /\ Changes(Request(t)) /\ Cardinality(late) < MaxLate
          /\ late' = late \cup {Request(t)}
    /\ UNCHANGED <<backend, objects, control, queue>>

(* The client library sends the request again.                             *)
Resend(t) ==
    /\ task[t].pc = "wait" /\ Answered(t, "broken")
    /\ task[t].sends < MaxSends
    /\ task' = [task EXCEPT ![t].answer = NoAnswer, ![t].sends = @ + 1]
    /\ UNCHANGED <<backend, objects, late, control, queue>>

ServeLate ==
    /\ \E r \in late :
          /\ late' = late \ {r}
          /\ objects' = Executed(r)
          /\ task' = Observed(task, objects', None)
    /\ UNCHANGED <<backend, control, queue>>

-----------------------------------------------------------------------------
(* What the backend makes of an answer                                     *)

ReceivePut(t) ==
    /\ At(t, "put")
    /\ Finish(t, CASE ~Answered(t, "ok") -> "storage"
                   [] Answered(t, "ok") /\ ~HasUrl(task[t].call.key) -> "invalid"
                   [] OTHER -> "ok")
    /\ UNCHANGED <<backend, objects, late, control, queue>>

ReceiveGet(t) ==
    /\ At(t, "get")
    /\ \/ /\ Answered(t, "ok")
          /\ task' = [task EXCEPT ![t].pc = "done", ![t].res = "ok",
                 ![t].op = "none", ![t].sends = 0, ![t].answer = NoAnswer,
                 ![t].value = task[t].answer.value]
       \/ /\ ~Answered(t, "ok")
          /\ Finish(t, Failure(t))
    /\ UNCHANGED <<backend, objects, late, control, queue>>

(* head, exists, and the head(to) of copy, after which rename goes on.     *)
ReceiveHead(t) ==
    LET kind == task[t].call.kind
        found == Answered(t, "ok")
        url == HasUrl(task[t].call.to)
    IN
    /\ At(t, "head")
    /\ \/ /\ found /\ url /\ kind = "rename"
          /\ Send(t, "delete")
       \/ /\ found /\ url /\ kind # "rename"
          /\ Finish(t, IF kind = "exists" THEN "true" ELSE "ok")
       \/ /\ found /\ ~url
          /\ Finish(t, "invalid")
       \/ /\ ~found
          /\ Finish(t, IF kind = "exists" /\ SaysMissing(t) THEN "false"
                       ELSE Failure(t))
    /\ UNCHANGED <<backend, objects, late, control, queue>>

(* Mutant: rename deletes the source whatever became of the copy.          *)
ReceiveCopyBlindly(t) ==
    /\ At(t, "copy")
    /\ IF task[t].call.kind = "rename" THEN Send(t, "delete") ELSE Send(t, "head")
    /\ UNCHANGED <<backend, objects, late, control, queue>>

ReceiveCopy(t) ==
    /\ At(t, "copy")
    /\ IF Answered(t, "ok") THEN Send(t, "head") ELSE Finish(t, Failure(t))
    /\ UNCHANGED <<backend, objects, late, control, queue>>

(* Mutant: delete takes every error for a missing object.                  *)
DeleteIgnoresErrors(t) ==
    /\ At(t, "delete")
    /\ Finish(t, "ok")
    /\ UNCHANGED <<backend, objects, late, control, queue>>

(* delete, and the delete(from) that ends rename.  Where the service says  *)
(* that the object is not there, delete is done.                           *)
ReceiveDelete(t) ==
    /\ At(t, "delete")
    /\ Finish(t, IF Answered(t, "ok") \/ SaysMissing(t)
                 THEN "ok" ELSE "storage")
    /\ UNCHANGED <<backend, objects, late, control, queue>>

(* Mutant: the empty token of the last page is passed on as a cursor, and  *)
(* the service starts again.                                               *)
NextCursorRaw(token) == IF token = <<>> THEN ByteOrder[1] ELSE token

NextCursor(token) == IF token = <<>> THEN None ELSE token

(* list_page: the page under the keys that callers know, each of which     *)
(* needs a URL.                                                            *)
PageOf(t) == [i \in DOMAIN task[t].answer.names |->
                  RelativeKey(task[t].answer.names[i])]

(* Mutant: list returns the last page instead of all of them.              *)
ReceivePageAlone(t) ==
    LET page == PageOf(t)
        next == NextCursor(task[t].answer.token)
    IN
    /\ At(t, "list")
    /\ IF Answered(t, "ok")
       THEN task' = [task EXCEPT ![t].found = page, ![t].cursor = next,
                ![t].answer = NoAnswer,
                ![t].sends = IF next = None THEN 0 ELSE 1,
                ![t].pc = IF next = None THEN "done" ELSE "wait",
                ![t].op = IF next = None THEN "none" ELSE "list",
                ![t].res = IF next = None THEN "ok" ELSE "none"]
       ELSE Finish(t, "storage")
    /\ UNCHANGED <<backend, objects, late, control, queue>>

(* A page that came in is added, for list unless it becomes too much, and  *)
(* the next one is asked for with the cursor.                              *)
ReceivePage(t) ==
    LET page == PageOf(t)
        next == NextCursor(task[t].answer.token)
        urls == \A i \in DOMAIN page : HasUrl(page[i])
        good == /\ Answered(t, "ok") /\ urls
                /\ \/ task[t].call.kind = "pages"
                   \/ Len(task[t].found) + Len(page) <= MaxItems
    IN
    /\ At(t, "list")
    /\ \/ /\ ~good
          /\ Finish(t, IF Answered(t, "ok") /\ ~urls THEN "invalid" ELSE "storage")
       \/ /\ good /\ next # None
          /\ task' = [task EXCEPT ![t].found = @ \o page, ![t].cursor = next,
                                  ![t].answer = NoAnswer, ![t].sends = 1]
       \/ /\ good /\ next = None
          /\ task' = [task EXCEPT ![t].found = @ \o page, ![t].cursor = None,
                 ![t].answer = NoAnswer, ![t].sends = 0,
                 ![t].pc = "done", ![t].op = "none", ![t].res = "ok"]
    /\ UNCHANGED <<backend, objects, late, control, queue>>

(* The caller asks for the page that failed again, with the same cursor.   *)
Repeat(t) ==
    LET waits == NeedsControl("list") /\ ~control IN
    /\ Repeatable(task[t])
    /\ task' = [task EXCEPT ![t].pc = IF waits THEN "control" ELSE "wait",
                            ![t].op = "list", ![t].sends = 1, ![t].res = "none"]
    /\ queue' = IF waits THEN Append(queue, t) ELSE queue
    /\ UNCHANGED <<backend, objects, late, control>>

Return(t) ==
    /\ task[t].pc = "done"
    /\ task' = [task EXCEPT ![t] = Idle]
    /\ UNCHANGED <<backend, objects, late, control, queue>>

(* Mutants: a dropped future loses its call and still runs; it keeps its   *)
(* place in the queue.                                                     *)
CancelHalf(t) ==
    /\ task[t].pc \in Busy
    /\ task' = [task EXCEPT ![t].call = None]
    /\ UNCHANGED <<backend, objects, late, control, queue>>

CancelQueued(t) ==
    /\ task[t].pc \in Busy
    /\ task' = [task EXCEPT ![t] = Idle]
    /\ UNCHANGED <<backend, objects, late, control, queue>>

(* The caller drops the future; its request may still be on its way.       *)
Cancel(t) ==
    /\ task[t].pc \in Busy
    /\ task' = [task EXCEPT ![t] = Idle]
    /\ queue' = Left(t)
    /\ \/ late' = late
       \/ /\ Waiting(t) /\ Changes(Request(t)) /\ Cardinality(late) < MaxLate
          /\ late' = late \cup {Request(t)}
    /\ UNCHANGED <<backend, objects, control>>

Receive(t) ==
    \/ ReceivePut(t) \/ ReceiveGet(t) \/ ReceiveHead(t)
    \/ ReceiveCopy(t) \/ ReceiveDelete(t) \/ ReceivePage(t)

(* What happens to a call without any help from its caller.                *)
Progress(t) ==
    \/ ControlBuilt(t) \/ ControlFails(t) \/ ControlThere(t)
    \/ Serve(t) \/ ServePage(t) \/ Receive(t)

Next ==
    \/ \E t \in Tasks :
          \/ \E c \in Calls : Begin(t, c)
          \/ Progress(t)
          \/ Refuse(t) \/ Break(t) \/ Resend(t)
          \/ Repeat(t) \/ Return(t) \/ Cancel(t)
    \/ ServeLate

Spec == Init /\ [][Next]_vars

(* The runtime polls a woken future, building a client comes to an end,    *)
(* and the service answers.                                                *)
FairSpec == Spec /\ \A t \in Tasks : WF_vars(Progress(t))

-----------------------------------------------------------------------------
(* Properties                                                              *)

(* An answer of Ok, NotFound, true or false was the truth at some moment   *)
(* of the call, whatever other calls, lost answers, repeated and late      *)
(* requests did: a put was stored, a get returns what was there, what was  *)
(* deleted was gone, what was copied was under both keys.  The NotFound of *)
(* copy and rename may also be that of the target.  The error of a key     *)
(* that has no URL comes after the call has taken effect.                  *)
AnswersAreTrue ==
    \A t \in Tasks : task[t].pc = "done" =>
        LET k == task[t]
            from == FullKey(k.call.key)
            to == FullKey(k.call.to)
            was(name, value) == <<name, value>> \in k.ever
            there(name) == \E d \in Data : was(name, d)
            ok(kinds) == k.res = "ok" /\ k.call.kind \in kinds
        IN
        /\ ok({"put"}) => was(from, k.call.data)
        /\ ok({"get"}) => k.value # None /\ was(from, k.value)
        /\ ok({"head"}) \/ k.res = "true" => there(from)
        /\ ok({"delete", "rename"}) => was(from, None)
        /\ ok({"copy", "rename"}) => \E d \in Data : was(from, d) /\ was(to, d)
        /\ k.res = "false" => was(from, None)
        /\ k.res = "notfound" => was(from, None) \/ was(to, None)
        /\ k.res = "invalid" /\ k.call.kind = "put" => was(from, k.call.data)
        /\ k.res = "invalid" /\ k.call.kind \notin Lists => there(to)

(* A rename to another key that nobody else disturbs has the object whole  *)
(* under one of the two keys at every moment and however it ends.          *)
MoveKeepsData ==
    \A t \in Tasks :
        /\ task[t].pc # "idle" /\ task[t].alone /\ task[t].orig # None
        /\ task[t].call.kind \in {"copy", "rename"}
        /\ FullKey(task[t].call.key) # FullKey(task[t].call.to)
        => task[t].orig \in {objects[FullKey(task[t].call.key)],
                             objects[FullKey(task[t].call.to)]}

(* The control client is never waited for in vain: whoever is first in the *)
(* queue is a call that builds it, or the client is there.                 *)
QueueMoves ==
    /\ \A i \in 1 .. Len(queue) : task[queue[i]].pc = "control"
    /\ \A t \in Tasks : task[t].pc = "control" =>
          \E i \in 1 .. Len(queue) : queue[i] = t

(* What list, or all pages together, report under a prefix: every object   *)
(* that was there all the time once, in order, and nothing that was not    *)
(* there at some moment, whatever limits the pages have and however often  *)
(* they fail and are asked for again.                                      *)
ListReportsEveryObject ==
    \A t \in Tasks :
        task[t].pc = "done" /\ task[t].call.kind \in Lists /\ task[t].res = "ok"
        => LET k == task[t]
               name(i) == FullKey(k.found[i])
           IN
           /\ \A n \in Uses(k.call) : <<n, None>> \notin k.ever =>
                  \E i \in DOMAIN k.found : name(i) = n
           /\ \A i \in DOMAIN k.found : \E d \in Data : <<name(i), d>> \in k.ever
           /\ \A i, j \in DOMAIN k.found : i < j => Rank(name(i)) < Rank(name(j))

(* Every call answers, with requests lost and repeated, the bucket         *)
(* changing during a list, and other calls failing to build the client.    *)
CallsReturn == \A t \in Tasks : task[t].pc \in Busy ~> task[t].pc \notin Busy

-----------------------------------------------------------------------------
(* What docs and comments say and the code does not do                     *)

(* storage.rs, delete: "Errors are still reported for anything else:       *)
(* permission failures".                                                   *)
DeleteReportsErrors ==
    \A t \in Tasks :
        task[t].pc = "done" /\ task[t].call.kind = "delete" /\ task[t].res = "ok"
        => <<FullKey(task[t].call.key), None>> \in task[t].ever
=============================================================================
