------------------------- MODULE CloudStorageProofs -------------------------
(***************************************************************************)
(* Proofs about CloudStorage, for any tasks, calls, buckets and bounds: a  *)
(* rename never loses its object, answers are true, and nobody waits for   *)
(* the control client outside its queue.                                   *)
(***************************************************************************)
EXTENDS CloudStorage, FiniteSetTheorems, TLAPS

Fields == {"pc", "call", "op", "answer", "sends", "value", "cursor", "found",
           "res", "ever", "orig", "alone"}

-----------------------------------------------------------------------------
(* What is known of one call, from its record q and the bucket b           *)

Ops(c) == CASE c.kind \in {"put", "get", "delete"} -> {c.kind}
            [] c.kind \in {"head", "exists"} -> {"head"}
            [] c.kind = "copy"   -> {"copy", "head"}
            [] c.kind = "rename" -> {"copy", "head", "delete"}
            [] c.kind \in Lists  -> {"list"}

Tags == {"none", "ok", "missing", "broken"} \cup Refusals

Sound(q) ==
    /\ DOMAIN q = Fields
    /\ q.pc \in Busy \cup {"idle", "done"}
    /\ q.pc # "idle" => q.call \in Calls
    /\ q.pc \in Busy => q.op \in Ops(q.call)
    /\ q.answer.tag \in Tags
    /\ q.pc \in {"control", "done"} => q.answer.tag = "none"

(* An undisturbed move that is under way or was answered: its object is    *)
(* under its old name until the copy is known to exist.                    *)
Moving(q) == /\ q.pc # "idle" /\ q.alone /\ q.orig # None
             /\ q.call.kind \in {"copy", "rename"}
             /\ FullKey(q.call.key) # FullKey(q.call.to)

Whole(b, q) ==
    Moving(q) =>
        LET old == b[FullKey(q.call.key)]
            new == b[FullKey(q.call.to)]
        IN
        /\ q.pc \in Busy /\ q.op = "copy" =>
              old = q.orig /\ (q.answer.tag = "ok" => new = q.orig)
        /\ q.pc \in Busy /\ q.op = "head"   => old = q.orig /\ new = q.orig
        /\ q.pc \in Busy /\ q.op = "delete" => new = q.orig
        /\ q.pc = "done" => q.orig \in {old, new}

(* What the answers so far say of what the names of the call have named.   *)
Was(q, key, value) == <<FullKey(key), value>> \in q.ever
There(q, key) == \E d \in Data : Was(q, key, d)
Copied(q) == \E d \in Data : Was(q, q.call.key, d) /\ Was(q, q.call.to, d)

Knows(q) ==
    LET from == q.call.key
        to == q.call.to
        tag == q.answer.tag
        moves == q.call.kind \in {"copy", "rename"}
    IN
    q.pc \in Busy =>
        /\ q.op = "put" /\ tag = "ok" => Was(q, from, q.call.data)
        /\ q.op = "get" /\ tag = "ok" => /\ q.answer.value # None
                                         /\ Was(q, from, q.answer.value)
        /\ q.op \in {"get", "copy", "delete"} /\ tag = "missing" => Was(q, from, None)
        /\ q.op = "copy" /\ tag = "ok" => Copied(q)
        /\ q.op \in {"head", "delete"} /\ moves => Copied(q)
        /\ q.op = "head" /\ tag = "ok" => There(q, to)
        /\ q.op = "head" /\ tag = "missing" => Was(q, to, None)
        /\ q.op = "delete" /\ tag = "ok" => Was(q, from, None)

(* An answer that was given is true.                                       *)
Truth(k) ==
    k.pc = "done" =>
        LET from == k.call.key
            to == k.call.to
            ok(kinds) == k.res = "ok" /\ k.call.kind \in kinds
        IN
        /\ ok({"put"}) => Was(k, from, k.call.data)
        /\ ok({"get"}) => k.value # None /\ Was(k, from, k.value)
        /\ ok({"head"}) \/ k.res = "true" => There(k, from)
        /\ ok({"delete", "rename"}) => Was(k, from, None)
        /\ ok({"copy", "rename"}) => Copied(k)
        /\ k.res = "false" => Was(k, from, None)
        /\ k.res = "notfound" => Was(k, from, None) \/ Was(k, to, None)
        /\ k.res = "invalid" /\ k.call.kind = "put" => Was(k, from, k.call.data)
        /\ k.res = "invalid" /\ k.call.kind \notin Lists => There(k, to)

(* The requests that are late stay within the bucket.                      *)
RequestOK(r) == /\ r.op \in {"put", "delete", "copy"}
                /\ r.from \in Names /\ (r.op = "put" => r.data \in Data)

Bucket == [Names -> Data \cup {None}]

(* Errors that name a missing object are about a missing object.           *)
Honest == "denied404" \notin Refusals

Good(b, q) == Sound(q) /\ Whole(b, q) /\ Knows(q) /\ (Honest => Truth(q))

Inv ==
    /\ backend \in Backends /\ objects \in Bucket
    /\ \A r \in late : RequestOK(r)
    /\ DOMAIN task = Tasks
    /\ \A t \in Tasks : Good(objects, task[t])

-----------------------------------------------------------------------------
(* The bucket                                                              *)

LEMMA NamesOfCall ==
    ASSUME NEW c \in Calls, c.kind \notin Lists
    PROVE  FullKey(c.key) \in Names /\ FullKey(c.to) \in Names
  BY CloudStorageAssumption

(* A request changes at most the object it names.                          *)
LEMMA ExecutedInBucket ==
    ASSUME objects \in Bucket, NEW r,
           r.op = "copy" => r.from \in Names, r.op = "put" => r.data \in Data
    PROVE  /\ Executed(r) \in Bucket
           /\ \A n \in Names : n # r.name => Executed(r)[n] = objects[n]
           /\ r.op \notin {"put", "delete", "copy"} => Executed(r) = objects
<1> USE DEF Bucket
<1>1. CASE r.op = "put"
  BY <1>1 DEF Executed
<1>2. CASE r.op = "delete"
  BY <1>2 DEF Executed
<1>3. CASE r.op = "copy"
  BY <1>3 DEF Executed
<1>4. CASE r.op \notin {"put", "delete", "copy"}
  BY <1>4 DEF Executed
<1> QED BY <1>1, <1>2, <1>3, <1>4

-----------------------------------------------------------------------------
(* Calls that look on while a request is executed                          *)

(* p is q with more history.                                               *)
Grown(q, p) ==
    /\ DOMAIN p = Fields
    /\ \A f \in Fields \ {"ever", "alone"} : p[f] = q[f]
    /\ q.ever \subseteq p.ever /\ (p.alone => q.alone)

LEMMA GrownFields ==
    ASSUME NEW q, NEW p, Grown(q, p)
    PROVE  /\ p.pc = q.pc /\ p.call = q.call /\ p.op = q.op /\ p.answer = q.answer
           /\ p.value = q.value /\ p.res = q.res /\ p.orig = q.orig
  BY DEF Grown, Fields

LEMMA GrownStaysTrue ==
    ASSUME NEW q, NEW p, Grown(q, p), Sound(q), Knows(q)
    PROVE  Sound(p) /\ Knows(p) /\ (Truth(q) => Truth(p))
<1>1. /\ p.pc = q.pc /\ p.call = q.call /\ p.op = q.op /\ p.answer = q.answer
      /\ p.value = q.value /\ p.res = q.res /\ DOMAIN p = Fields
      /\ \A x : x \in q.ever => x \in p.ever
  BY GrownFields DEF Grown
<1>2. Sound(p)
  BY <1>1 DEF Sound
<1>3. ASSUME NEW key, NEW value, Was(q, key, value) PROVE Was(p, key, value)
  BY <1>1, <1>3 DEF Was
<1>4. ASSUME NEW key, There(q, key) PROVE There(p, key)
  BY <1>3, <1>4 DEF There
<1>5. Copied(q) => Copied(p)
  BY <1>1, <1>3 DEF Copied
<1> HIDE DEF Was, There, Copied
<1>6. Knows(p)
  BY <1>1, <1>3, <1>4, <1>5 DEF Knows
<1>7. ASSUME Truth(q) PROVE Truth(p)
  BY <1>1, <1>3, <1>4, <1>5, <1>7 DEF Truth
<1> QED BY <1>2, <1>6, <1>7

LEMMA GrownStaysWhole ==
    ASSUME NEW q, NEW p, Grown(q, p), NEW a, NEW b, Whole(a, q),
           p.alone /\ q.pc # "idle" => \A n \in Uses(q.call) : b[n] = a[n]
    PROVE  Whole(b, p)
<1>1. SUFFICES ASSUME Moving(p) PROVE Whole(b, p)
  BY DEF Whole
<1>2. /\ p.pc = q.pc /\ p.call = q.call /\ p.op = q.op /\ p.answer = q.answer
      /\ p.orig = q.orig /\ (p.alone => q.alone)
  BY GrownFields DEF Grown
<1>3. Moving(q)
  BY <1>1, <1>2 DEF Moving
<1>4. q.call.kind \notin Lists
  BY <1>3 DEF Moving, Lists
<1>5. /\ b[FullKey(q.call.key)] = a[FullKey(q.call.key)]
      /\ b[FullKey(q.call.to)] = a[FullKey(q.call.to)]
  BY <1>1, <1>2, <1>3, <1>4 DEF Uses, Moving
<1> QED BY <1>2, <1>3, <1>5 DEF Whole

(* What Observed makes of one record.                                      *)
LEMMA ObservedRecord ==
    ASSUME NEW ts, NEW objs, NEW owner, NEW u \in Tasks, Sound(ts[u])
    PROVE  LET q == ts[u]
               p == Observed(ts, objs, owner)[u]
           IN
           /\ Grown(q, p)
           /\ q.pc \in Busy \/ Repeatable(q) =>
                 \A n \in Uses(q.call) : <<n, objs[n]>> \in p.ever
           /\ p.alone /\ q.pc # "idle" /\ u # owner =>
                 \A n \in Uses(q.call) : objs[n] = objects[n]
<1> DEFINE q == ts[u]
           p == Observed(ts, objs, owner)[u]
           more == [q EXCEPT
             !.ever = IF q.pc = "done" /\ ~Repeatable(q) THEN @
                      ELSE @ \cup {<<n, objs[n]>> : n \in Uses(q.call)},
             !.alone = @ /\ (u = owner
                 \/ \A n \in Uses(q.call) : objs[n] = objects[n])]
<1>1. p = IF q.pc = "idle" THEN q ELSE more
  BY DEF Observed
<1>2. DOMAIN q = Fields
  BY DEF Sound
<1> DEFINE Goal ==
              /\ Grown(q, p)
              /\ q.pc \in Busy \/ Repeatable(q) =>
                    \A n \in Uses(q.call) : <<n, objs[n]>> \in p.ever
              /\ p.alone /\ q.pc # "idle" /\ u # owner =>
                    \A n \in Uses(q.call) : objs[n] = objects[n]
<1>3. ASSUME q.pc = "idle" PROVE Goal
  <2>1. p = q
    BY <1>1, <1>3
  <2> HIDE DEF p, q
  <2> QED BY <1>2, <1>3, <2>1 DEF Grown, Busy, Repeatable
<1>4. ASSUME q.pc # "idle" PROVE Goal
  <2> HIDE DEF q
  <2>1. /\ DOMAIN more = Fields
        /\ \A f \in Fields \ {"ever", "alone"} : more[f] = q[f]
        /\ more.ever = (IF q.pc = "done" /\ ~Repeatable(q) THEN q.ever
                        ELSE q.ever \cup {<<n, objs[n]>> : n \in Uses(q.call)})
        /\ more.alone = (q.alone /\ (u = owner
                 \/ \A n \in Uses(q.call) : objs[n] = objects[n]))
    BY <1>2 DEF Fields
  <2> HIDE DEF more, p
  <2>2. p = more
    BY <1>1, <1>4
  <2>3. q.ever \subseteq more.ever
    BY <2>1
  <2>4. q.pc \in Busy \/ Repeatable(q) =>
            \A n \in Uses(q.call) : <<n, objs[n]>> \in more.ever
    BY <2>1 DEF Busy
  <2>5. Grown(q, p)
    BY <2>1, <2>2, <2>3 DEF Grown
  <2>6. p.alone /\ q.pc # "idle" /\ u # owner => \A n \in Uses(q.call) : objs[n] = objects[n]
    BY <2>1, <2>2
  <2>7. q.pc \in Busy \/ Repeatable(q) =>
            \A n \in Uses(q.call) : <<n, objs[n]>> \in p.ever
    BY <2>2, <2>4
  <2> QED BY <2>5, <2>6, <2>7
<1> QED BY <1>3, <1>4

-----------------------------------------------------------------------------
(* Steps of one call that leave the bucket alone                           *)

Private(t) ==
    /\ backend' = backend /\ objects' = objects
    /\ \A r \in late' : r \in late \/ RequestOK(r)
    /\ DOMAIN task' = Tasks
    /\ \A u \in Tasks \ {t} : task'[u] = task[u]
    /\ Good(objects, task'[t])

LEMMA PrivateStep == ASSUME Inv, NEW t \in Tasks, Private(t) PROVE Inv'
<1>1. \A u \in Tasks : Good(objects', task'[u])
  BY DEF Inv, Private
<1> QED BY <1>1 DEF Inv, Private

(* The end of a call, and the way to its next request.                     *)
Finished(q, res) == [q EXCEPT !.pc = "done", !.res = res, !.op = "none",
                              !.answer = NoAnswer, !.sends = 0]

Sent(q, op) == [q EXCEPT !.op = op, !.answer = NoAnswer, !.sends = 1]

LEMMA FinishedFields ==
    ASSUME NEW q, Sound(q), NEW res
    PROVE  LET e == Finished(q, res) IN
           /\ DOMAIN e = Fields /\ e.pc = "done" /\ e.res = res /\ e.call = q.call
           /\ e.answer.tag = "none" /\ e.value = q.value /\ e.ever = q.ever
           /\ e.orig = q.orig /\ e.alone = q.alone
  BY DEF Finished, Sound, Fields, NoAnswer

LEMMA SentFields ==
    ASSUME NEW q, Sound(q), NEW op
    PROVE  LET e == Sent(q, op) IN
           /\ DOMAIN e = Fields /\ e.pc = q.pc /\ e.res = q.res /\ e.call = q.call
           /\ e.answer.tag = "none" /\ e.value = q.value /\ e.ever = q.ever
           /\ e.orig = q.orig /\ e.alone = q.alone /\ e.op = op
  BY DEF Sent, Sound, Fields, NoAnswer

(* However a busy call ends, a move it was has its object whole.           *)
LEMMA FinishGood ==
    ASSUME NEW b, NEW q, Good(b, q), q.pc \in Busy, NEW e, DOMAIN e = Fields,
           e.pc = "done", e.call = q.call, e.answer.tag = "none",
           e.orig = q.orig, e.alone = q.alone, Honest => Truth(e)
    PROVE  Good(b, e)
<1>1. Sound(q) /\ Whole(b, q)
  BY DEF Good
<1>2. Sound(e) /\ Knows(e)
  BY <1>1 DEF Sound, Knows, Busy, Tags
<1>3. Whole(b, e)
  <2>1. SUFFICES ASSUME Moving(e)
                 PROVE  q.orig \in {b[FullKey(q.call.key)], b[FullKey(q.call.to)]}
    BY DEF Whole, Busy
  <2>2. Moving(q)
    BY <2>1 DEF Moving, Busy
  <2>3. q.op \in {"copy", "head", "delete"}
    BY <1>1, <2>2 DEF Sound, Ops, Moving, Lists
  <2> QED BY <1>1, <2>2, <2>3 DEF Whole
<1> QED BY <1>2, <1>3 DEF Good

LEMMA FinishPrivate ==
    ASSUME Inv, NEW t \in Tasks, task[t].pc \in Busy, NEW res, Finish(t, res),
           UNCHANGED <<backend, objects, late>>,
           Honest => Truth(Finished(task[t], res))
    PROVE  Private(t)
<1> DEFINE q == task[t]
<1>1. Good(objects, q) /\ Sound(q) /\ DOMAIN task = Tasks
  BY DEF Inv, Good
<1>2. /\ task'[t] = Finished(q, res) /\ DOMAIN task' = Tasks
      /\ \A u \in Tasks \ {t} : task'[u] = task[u]
  BY <1>1 DEF Finish, Finished
<1> HIDE DEF q
<1>3. Good(objects, Finished(q, res))
  BY <1>1, FinishedFields, FinishGood DEF q
<1> QED BY <1>2, <1>3 DEF Private

LEMMA IdleGood == ASSUME NEW b PROVE Good(b, Idle)
<1>1. DOMAIN Idle = Fields /\ Idle.pc = "idle" /\ Idle.answer.tag = "none"
  BY DEF Idle, Fields, NoAnswer
<1> QED BY <1>1 DEF Good, Sound, Whole, Moving, Knows, Truth, Busy, Tags

(* Whatever a list finds, it claims nothing of single names.               *)
LEMMA ListGood ==
    ASSUME NEW b, NEW p, Sound(p), p.pc # "idle", p.call.kind \in Lists,
           p.pc = "done" => p.res \in {"ok", "invalid", "storage", "config"}
    PROVE  Good(b, p)
<1>1. Whole(b, p)
  BY DEF Whole, Moving, Lists
<1>2. Knows(p)
  BY DEF Knows, Sound, Ops, Lists
<1>3. Truth(p)
  BY DEF Truth, Lists
<1> QED BY <1>1, <1>2, <1>3 DEF Good

(* A call that goes on with its request, with no answer of the service.    *)
LEMMA WaitGood ==
    ASSUME NEW b, NEW q, Good(b, q), q.pc \in Busy, NEW p, DOMAIN p = Fields,
           p.pc = "wait", p.call = q.call, p.op = q.op, p.ever = q.ever,
           p.orig = q.orig, p.alone = q.alone,
           p.answer.tag \in {"none", "broken"} \cup Refusals
    PROVE  Good(b, p)
<1>1. Sound(q) /\ Whole(b, q) /\ Knows(q)
  BY DEF Good
<1>2. p.answer.tag \notin {"ok", "missing"}
  BY CloudStorageAssumption
<1>3. Sound(p)
  BY <1>1 DEF Sound, Tags, Busy
<1>4. Whole(b, p)
  BY <1>1, <1>2 DEF Whole, Moving, Busy
<1>5. Knows(p)
  BY <1>1, <1>2 DEF Knows, Busy, Copied, Was
<1> QED BY <1>3, <1>4, <1>5 DEF Good, Truth

(* The record of t becomes p, and a request of its own may be late.        *)
Becomes(t, p) ==
    /\ task'[t] = p /\ DOMAIN task' = Tasks
    /\ \A u \in Tasks \ {t} : task'[u] = task[u]

Leaves(t) == late' = late \/ (Changes(Request(t)) /\ late' = late \cup {Request(t)})

LEMMA RequestFits ==
    ASSUME Inv, NEW t \in Tasks, task[t].pc = "wait", task[t].op # "list"
    PROVE  /\ task[t].call \in Calls /\ task[t].call.kind \notin Lists
           /\ Request(t).from \in Names /\ Request(t).name \in Names
           /\ Request(t).op = "put" => Request(t).data \in Data
<1> DEFINE c == task[t].call
<1>1. c \in Calls /\ task[t].op \in Ops(c)
  BY DEF Inv, Good, Sound, Busy
<1>2. c.kind \notin Lists
  BY <1>1 DEF Ops, Lists
<1>3. FullKey(c.key) \in Names /\ FullKey(c.to) \in Names
  BY <1>1, <1>2, NamesOfCall
<1>4. task[t].op = "put" => c.data \in Data
  <2>1. task[t].op = "put" => c.kind = "put"
    BY <1>1, CloudStorageAssumption DEF Ops, Lists, CallType, Kinds
  <2> QED BY <1>1, <2>1, CloudStorageAssumption
<1> HIDE DEF c
<1>5. /\ Request(t).from = FullKey(c.key) /\ Request(t).data = c.data
      /\ Request(t).op = task[t].op
      /\ Request(t).name \in {FullKey(c.key), FullKey(c.to)}
  BY DEF Request, c
<1> QED BY <1>1, <1>2, <1>3, <1>4, <1>5 DEF c

LEMMA BecomesPrivate ==
    ASSUME Inv, NEW t \in Tasks, NEW p, Becomes(t, p), Good(objects, p),
           UNCHANGED <<backend, objects>>,
           late' = late \/ (task[t].pc = "wait" /\ Leaves(t))
    PROVE  Private(t)
<1>1. \A r \in late' : r \in late \/ RequestOK(r)
  <2>1. CASE late' = late
    BY <2>1
  <2>2. CASE task[t].pc = "wait" /\ Changes(Request(t)) /\ late' = late \cup {Request(t)}
    <3>1. task[t].op # "list"
      BY <2>2 DEF Changes, Request
    <3>2. RequestOK(Request(t))
      BY <2>2, <3>1, RequestFits DEF Changes, RequestOK
    <3> QED BY <2>2, <3>2
  <2> QED BY <2>1, <2>2 DEF Leaves
<1> QED BY <1>1 DEF Becomes, Private

-----------------------------------------------------------------------------
(* One lemma per action                                                    *)

LEMMA BeginStep ==
    ASSUME Inv, NEW t \in Tasks, NEW c \in Calls, Begin(t, c) PROVE Private(t)
<1> DEFINE ok == Admit(c) = "ok"
           waits == ok /\ NeedsControl(FirstOp(c)) /\ ~control
           p == [Idle EXCEPT
                   !.call = c,
                   !.pc = IF ~ok THEN "done" ELSE IF waits THEN "control" ELSE "wait",
                   !.op = IF ok THEN FirstOp(c) ELSE "none",
                   !.sends = IF ok THEN 1 ELSE 0,
                   !.res = IF ok THEN "none" ELSE Admit(c),
                   !.ever = {<<n, objects[n]>> : n \in Uses(c)},
                   !.orig = IF c.kind \in Lists THEN None ELSE objects[FullKey(c.key)],
                   !.alone = TRUE]
<1> USE DEF Lists
<1>1. Becomes(t, p)
  BY DEF Begin, Inv, Becomes
<1>2. /\ DOMAIN p = Fields /\ p.call = c /\ p.answer.tag = "none"
      /\ p.pc = IF ~ok THEN "done" ELSE IF waits THEN "control" ELSE "wait"
      /\ p.op = IF ok THEN FirstOp(c) ELSE "none"
      /\ p.res = IF ok THEN "none" ELSE Admit(c)
      /\ c.kind \notin Lists => p.orig = objects[FullKey(c.key)]
  BY DEF Idle, Fields, NoAnswer
<1> HIDE DEF p
<1>3. c.kind \in Kinds
  BY CloudStorageAssumption DEF CallType
<1>4. ok => FirstOp(c) \in Ops(c)
  BY <1>3 DEF FirstOp, Ops, Kinds
<1>5. Sound(p)
  BY <1>2, <1>4 DEF Sound, Busy, Tags
<1>6. ~ok => Admit(c) \in {"toolarge", "config"} /\ c.kind = "put"
  BY DEF Admit
<1>7. Whole(objects, p)
  BY <1>2, <1>3, <1>6 DEF Whole, Moving, FirstOp, Busy, Kinds
<1>8. Knows(p)
  BY <1>2, <1>3, <1>6 DEF Knows, FirstOp, Kinds, Busy
<1>9. Truth(p)
  BY <1>2, <1>6 DEF Truth, Busy
<1>10. Good(objects, p)
  BY <1>5, <1>7, <1>8, <1>9 DEF Good
<1> QED BY <1>1, <1>10, BecomesPrivate DEF Begin

(* The control client, the way to the service and the end of a call.       *)
LEMMA WaySteps ==
    ASSUME Inv, NEW t \in Tasks,
           \/ ControlBuilt(t) \/ ControlThere(t)
           \/ Refuse(t) \/ Break(t) \/ Resend(t)
    PROVE  Private(t)
<1> DEFINE q == task[t]
<1>1. Good(objects, q) /\ DOMAIN q = Fields /\ DOMAIN task = Tasks /\ Sound(q)
  BY DEF Inv, Good, Sound
<1>2. CASE ControlBuilt(t) \/ ControlThere(t)
  <2> DEFINE p == [q EXCEPT !.pc = "wait"]
  <2>1. Becomes(t, p) /\ q.pc = "control"
    BY <1>1, <1>2 DEF ControlBuilt, ControlThere, Builds, Becomes
  <2> HIDE DEF q
  <2>2. /\ DOMAIN p = Fields /\ p.pc = "wait" /\ p.call = q.call /\ p.op = q.op
        /\ p.ever = q.ever /\ p.orig = q.orig /\ p.alone = q.alone
        /\ p.answer.tag = "none"
    BY <1>1, <2>1 DEF Fields, Sound
  <2> HIDE DEF p
  <2>3. Good(objects, p)
    BY <1>1, <2>1, <2>2, WaitGood DEF Busy
  <2> QED BY <1>2, <2>1, <2>3, BecomesPrivate DEF ControlBuilt, ControlThere
<1>3. ASSUME NEW answer, answer.tag \in {"none", "broken"} \cup Refusals, NEW sends,
             Becomes(t, [q EXCEPT !.answer = answer, !.sends = sends]),
             UNCHANGED <<backend, objects>>, late' = late \/ Leaves(t),
             q.pc = "wait"
      PROVE  Private(t)
  <2> DEFINE p == [q EXCEPT !.answer = answer, !.sends = sends]
  <2>1. q.pc = "wait"
    BY <1>3
  <2> HIDE DEF q
  <2>2. /\ DOMAIN p = Fields /\ p.pc = "wait" /\ p.call = q.call /\ p.op = q.op
        /\ p.ever = q.ever /\ p.orig = q.orig /\ p.alone = q.alone
        /\ p.answer = answer
    BY <1>1, <2>1 DEF Fields
  <2> HIDE DEF p
  <2>3. Good(objects, p)
    BY <1>1, <1>3, <2>1, <2>2, WaitGood DEF Busy
  <2> QED BY <1>3, <2>3, BecomesPrivate DEF p, q
<1>4. CASE Refuse(t)
  <2>1. PICK tag \in Refusals :
            task' = [task EXCEPT ![t].answer = [NoAnswer EXCEPT !.tag = tag]]
    BY <1>4 DEF Refuse
  <2> DEFINE answer == [NoAnswer EXCEPT !.tag = tag]
  <2>2. answer.tag = tag
    BY DEF NoAnswer
  <2>3. Becomes(t, [q EXCEPT !.answer = answer, !.sends = q.sends])
    BY <1>1, <2>1 DEF Becomes, Fields
  <2> HIDE DEF answer
  <2> QED BY <1>3, <1>4, <2>2, <2>3 DEF Refuse, Waiting
<1>5. CASE Break(t)
  <2> DEFINE answer == [NoAnswer EXCEPT !.tag = "broken"]
  <2>1. answer.tag = "broken"
    BY DEF NoAnswer
  <2>2. Becomes(t, [q EXCEPT !.answer = answer, !.sends = q.sends])
    BY <1>1, <1>5 DEF Break, Becomes, Fields
  <2> HIDE DEF answer
  <2> QED BY <1>3, <1>5, <2>1, <2>2 DEF Break, Leaves
<1>6. CASE Resend(t)
  <2>1. NoAnswer.tag = "none"
    BY DEF NoAnswer
  <2>2. Becomes(t, [q EXCEPT !.answer = NoAnswer, !.sends = q.sends + 1])
    BY <1>1, <1>6 DEF Resend, Becomes, Fields
  <2> QED BY <1>3, <1>6, <2>1, <2>2 DEF Resend
<1> QED BY <1>2, <1>4, <1>5, <1>6

LEMMA EndSteps ==
    ASSUME Inv, NEW t \in Tasks, ControlFails(t) \/ Return(t) \/ Cancel(t)
    PROVE  Private(t)
<1>1. CASE ControlFails(t)
  <2> DEFINE e == Finished(task[t], "config")
  <2>1. Sound(task[t])
    BY DEF Inv, Good
  <2>2. e.res = "config"
    BY <2>1, FinishedFields
  <2> HIDE DEF e
  <2>3. Truth(e)
    BY <2>2 DEF Truth
  <2> QED BY <1>1, <2>3, FinishPrivate DEF ControlFails, Builds, Busy, e
<1>2. CASE Return(t) \/ Cancel(t)
  <2>1. Becomes(t, Idle)
    BY <1>2 DEF Return, Cancel, Becomes, Inv
  <2>2. UNCHANGED <<backend, objects>> /\ (late' = late \/ (task[t].pc = "wait" /\ Leaves(t)))
    BY <1>2 DEF Return, Cancel, Waiting, Leaves
  <2> QED BY <2>1, <2>2, IdleGood, BecomesPrivate
<1> QED BY <1>1, <1>2

(* The steps of a list.                                                    *)
LEMMA PageSteps ==
    ASSUME Inv, NEW t \in Tasks, ServePage(t) \/ ReceivePage(t) \/ Repeat(t)
    PROVE  Private(t)
<1> DEFINE q == task[t]
<1>1. /\ Good(objects, q) /\ DOMAIN q = Fields /\ DOMAIN task = Tasks /\ Sound(q)
      /\ UNCHANGED <<backend, objects, late>>
  BY DEF Inv, Good, Sound, ServePage, ReceivePage, Repeat
<1>2. q.pc # "idle" /\ q.call.kind \in Lists
  <2>1. CASE Repeat(t)
    BY <2>1 DEF Repeat, Repeatable, Lists
  <2>2. CASE ServePage(t) \/ ReceivePage(t)
    <3>1. q.pc = "wait" /\ q.op = "list"
      BY <2>2 DEF ServePage, ReceivePage, Waiting, At
    <3>2. q.call \in Calls /\ "list" \in Ops(q.call)
      BY <1>1, <3>1 DEF Sound, Busy
    <3>3. q.call.kind \in Kinds
      BY <3>2, CloudStorageAssumption DEF CallType
    <3> QED BY <3>1, <3>2, <3>3 DEF Ops, Kinds
  <2> QED BY <2>1, <2>2
<1>3. ASSUME NEW p, Becomes(t, p), DOMAIN p = Fields, p.call = q.call,
             p.answer.tag \in Tags,
             \/ p.pc = "wait" /\ p.op = "list"
             \/ p.pc = "control" /\ p.op = "list" /\ p.answer.tag = "none"
             \/ /\ p.pc = "done" /\ p.answer.tag = "none"
                /\ p.res \in {"ok", "invalid", "storage", "config"}
      PROVE  Private(t)
  <2>1. Sound(p)
    BY <1>1, <1>2, <1>3 DEF Sound, Busy, Ops, Lists
  <2> HIDE DEF q
  <2>2. Good(objects, p)
    BY <1>2, <1>3, <2>1, ListGood
  <2> QED BY <1>1, <1>3, <2>2, BecomesPrivate
<1>4. CASE ServePage(t)
  <2>1. PICK names, token :
            task' = [task EXCEPT ![t].answer = [tag |-> "ok", value |-> None,
                         names |-> names, token |-> token]]
    BY <1>4 DEF ServePage
  <2> DEFINE p == [q EXCEPT !.answer = [tag |-> "ok", value |-> None,
                         names |-> names, token |-> token]]
  <2>2. Becomes(t, p) /\ q.pc = "wait" /\ q.op = "list"
    BY <1>1, <1>4, <2>1 DEF Becomes, ServePage, Waiting
  <2> HIDE DEF q
  <2>3. DOMAIN p = Fields /\ p.call = q.call /\ p.answer.tag = "ok" /\ p.pc = q.pc /\ p.op = q.op
    BY <1>1 DEF Fields
  <2> HIDE DEF p
  <2> QED BY <1>3, <2>2, <2>3 DEF Tags
<1>5. CASE Repeat(t)
  <2>1. PICK pc \in {"control", "wait"} :
            task' = [task EXCEPT ![t].pc = pc, ![t].op = "list", ![t].sends = 1,
                                 ![t].res = "none"]
    BY <1>5 DEF Repeat
  <2> DEFINE p == [q EXCEPT !.pc = pc, !.op = "list", !.sends = 1, !.res = "none"]
  <2>2. Becomes(t, p) /\ q.pc = "done"
    BY <1>1, <1>5, <2>1 DEF Becomes, Repeat, Repeatable
  <2> HIDE DEF q
  <2>3. DOMAIN p = Fields /\ p.call = q.call /\ p.answer = q.answer /\ p.pc = pc /\ p.op = "list"
    BY <1>1 DEF Fields
  <2> HIDE DEF p
  <2>4. q.answer.tag \in Tags /\ (q.pc = "done" => q.answer.tag = "none")
    BY <1>1 DEF Sound
  <2> QED BY <1>3, <2>1, <2>2, <2>3, <2>4
<1>6. CASE ReceivePage(t)
  <2> DEFINE page == PageOf(t)
  <2>1. \/ \E res \in {"invalid", "storage"} : Finish(t, res)
        \/ task' = [task EXCEPT ![t].found = @ \o page,
                       ![t].cursor = NextCursor(task[t].answer.token),
                       ![t].answer = NoAnswer, ![t].sends = 1]
        \/ task' = [task EXCEPT ![t].found = @ \o page, ![t].cursor = None,
                       ![t].answer = NoAnswer, ![t].sends = 0,
                       ![t].pc = "done", ![t].op = "none", ![t].res = "ok"]
    BY <1>6 DEF ReceivePage
  <2>2. NoAnswer.tag = "none" /\ q.pc = "wait" /\ q.op = "list"
    BY <1>6 DEF ReceivePage, At, NoAnswer
  <2> HIDE DEF page
  <2>3. ASSUME NEW res \in {"invalid", "storage"}, Finish(t, res) PROVE Private(t)
    <3>1. Becomes(t, Finished(q, res))
      BY <1>1, <2>3 DEF Becomes, Finish, Finished
    <3>2. LET e == Finished(q, res) IN
          DOMAIN e = Fields /\ e.pc = "done" /\ e.res = res /\ e.call = q.call
          /\ e.answer.tag = "none"
      BY <1>1, FinishedFields
    <3> HIDE DEF q
    <3> QED BY <1>3, <2>3, <3>1, <3>2 DEF Tags
  <2>4. CASE task' = [task EXCEPT ![t].found = @ \o page,
                       ![t].cursor = NextCursor(task[t].answer.token),
                       ![t].answer = NoAnswer, ![t].sends = 1]
    <3> DEFINE next == NextCursor(task[t].answer.token)
               found == q.found \o page
               p == [q EXCEPT !.found = found, !.cursor = next,
                              !.answer = NoAnswer, !.sends = 1]
    <3>1. Becomes(t, p)
      BY <1>1, <2>4 DEF Becomes, Fields
    <3> HIDE DEF next, found, q
    <3>2. DOMAIN p = Fields /\ p.call = q.call /\ p.answer = NoAnswer /\ p.pc = q.pc /\ p.op = q.op
      BY <1>1 DEF Fields
    <3> HIDE DEF p
    <3> QED BY <1>3, <2>2, <3>1, <3>2 DEF Tags
  <2>5. CASE task' = [task EXCEPT ![t].found = @ \o page, ![t].cursor = None,
                       ![t].answer = NoAnswer, ![t].sends = 0,
                       ![t].pc = "done", ![t].op = "none", ![t].res = "ok"]
    <3> DEFINE found == q.found \o page
               p == [q EXCEPT !.found = found, !.cursor = None,
                              !.answer = NoAnswer, !.sends = 0,
                              !.pc = "done", !.op = "none", !.res = "ok"]
    <3>1. Becomes(t, p)
      BY <1>1, <2>5 DEF Becomes, Fields
    <3> HIDE DEF found, q
    <3>2. DOMAIN p = Fields /\ p.call = q.call /\ p.answer = NoAnswer /\ p.pc = "done" /\ p.res = "ok"
      BY <1>1 DEF Fields
    <3> HIDE DEF p
    <3> QED BY <1>3, <2>2, <3>1, <3>2 DEF Tags
  <2> QED BY <2>1, <2>3, <2>4, <2>5
<1> QED BY <1>4, <1>5, <1>6

-----------------------------------------------------------------------------
(* What the backend makes of answers about single names                    *)

(* A call that is at a request other than a page has a call on two names,  *)
(* the same ones unless it is a copy or rename.                            *)
LEMMA CallAt ==
    ASSUME NEW b, NEW q, Good(b, q), q.pc = "wait", q.op # "list"
    PROVE  /\ q.call \in Calls /\ q.call.kind \in Kinds \ Lists
           /\ q.op \in Ops(q.call) /\ q.answer.tag \in Tags
           /\ q.call.kind \notin {"copy", "rename"} => q.call.to = q.call.key
           /\ q.call.kind = "put" => q.call.data \in Data
<1>1. q.call \in Calls /\ q.op \in Ops(q.call) /\ q.answer.tag \in Tags
  BY DEF Good, Sound, Busy
<1>2. q.call.kind \in Kinds
  BY <1>1, CloudStorageAssumption DEF CallType
<1>3. q.call.kind \notin Lists
  BY <1>1 DEF Ops, Lists
<1> QED BY <1>1, <1>2, <1>3, CloudStorageAssumption

LEMMA SaysMissingHonest ==
    ASSUME Inv, Honest, NEW t \in Tasks, SaysMissing(t)
    PROVE  task[t].answer.tag = "missing"
<1>1. task[t].answer.tag \in Tags
  BY DEF Inv, Good, Sound
<1>2. task[t].answer.tag # "denied404"
  BY <1>1 DEF Tags, Honest
<1>3. backend \in {"s3", "gcs", "azure"}
  BY CloudStorageAssumption DEF Inv
<1> QED BY <1>2, <1>3 DEF SaysMissing, SaysMissingS3, SaysMissingGcs,
                          SaysMissingAzure, Answered

LEMMA ReceivePutStep ==
    ASSUME Inv, NEW t \in Tasks, ReceivePut(t) PROVE Private(t)
<1> DEFINE q == task[t]
<1>1. q.pc = "wait" /\ q.op = "put" /\ Good(objects, q) /\ Sound(q)
  BY DEF ReceivePut, At, Inv, Good
<1>2. PICK res \in {"storage", "invalid", "ok"} :
          /\ Finish(t, res)
          /\ res # "storage" => q.answer.tag = "ok"
  BY DEF ReceivePut, Answered
<1> DEFINE e == Finished(q, res)
<1> HIDE DEF q
<1>3. q.call.kind = "put"
  BY <1>1, CallAt DEF Ops, Kinds
<1>4. e.pc = "done" /\ e.res = res /\ e.call = q.call /\ e.ever = q.ever
  BY <1>1, FinishedFields
<1> HIDE DEF e
<1>5. res # "storage" => Was(e, q.call.key, q.call.data)
  BY <1>1, <1>2, <1>4 DEF Good, Knows, Busy, Was
<1>6. res # "storage" => There(e, q.call.key)
  BY <1>1, <1>3, <1>5, CallAt DEF There
<1>7. Truth(e)
  BY <1>1, <1>2, <1>3, <1>4, <1>5, <1>6, CallAt DEF Truth
<1> QED BY <1>1, <1>2, <1>7, FinishPrivate DEF q, e, ReceivePut, Busy

LEMMA ReceiveGetStep ==
    ASSUME Inv, NEW t \in Tasks, ReceiveGet(t) PROVE Private(t)
<1> DEFINE q == task[t]
<1>1. q.pc = "wait" /\ q.op = "get" /\ Good(objects, q) /\ Sound(q)
  BY DEF ReceiveGet, At, Inv, Good
<1>2. CASE Answered(t, "ok")
  <2> DEFINE p == [q EXCEPT !.pc = "done", !.res = "ok", !.op = "none", !.sends = 0,
                            !.answer = NoAnswer, !.value = q.answer.value]
  <2>1. Becomes(t, p)
    BY <1>2 DEF ReceiveGet, Inv, Becomes
  <2>2. q.answer.tag = "ok"
    BY <1>2 DEF Answered
  <2> HIDE DEF q
  <2>3. q.call.kind = "get"
    BY <1>1, CallAt DEF Ops, Kinds
  <2>4. /\ DOMAIN p = Fields /\ p.pc = "done" /\ p.res = "ok" /\ p.call = q.call
        /\ p.answer.tag = "none" /\ p.value = q.answer.value /\ p.ever = q.ever
        /\ p.orig = q.orig /\ p.alone = q.alone
    BY <1>1 DEF Sound, Fields, NoAnswer
  <2> HIDE DEF p
  <2>5. p.value # None /\ Was(p, q.call.key, p.value)
    BY <1>1, <2>2, <2>4 DEF Good, Knows, Busy, Was
  <2>6. Truth(p)
    BY <2>3, <2>4, <2>5 DEF Truth
  <2>7. Good(objects, p)
    BY <1>1, <2>4, <2>6, FinishGood DEF Busy
  <2> QED BY <2>1, <2>7, BecomesPrivate DEF ReceiveGet
<1>3. CASE ~Answered(t, "ok")
  <2> DEFINE res == Failure(t)
             e == Finished(q, res)
  <2>1. Finish(t, res)
    BY <1>3 DEF ReceiveGet
  <2>2. res \in {"notfound", "storage"}
        /\ (Honest /\ res = "notfound" => q.answer.tag = "missing")
    BY SaysMissingHonest DEF Failure
  <2> HIDE DEF q, res
  <2>3. e.pc = "done" /\ e.res = res /\ e.call = q.call /\ e.ever = q.ever
    BY <1>1, FinishedFields
  <2> HIDE DEF e
  <2>4. Honest => Truth(e)
    BY <1>1, <2>2, <2>3 DEF Truth, Good, Knows, Busy, Was
  <2> QED BY <1>1, <2>1, <2>4, FinishPrivate DEF q, e, ReceiveGet, Busy
<1> QED BY <1>2, <1>3

(* Going on from q to the request op, with the same knowledge.             *)
LEMMA SendPrivate ==
    ASSUME Inv, NEW t \in Tasks, task[t].pc = "wait", NEW op, Send(t, op),
           UNCHANGED <<backend, objects, late>>,
           Good(objects, Sent(task[t], op))
    PROVE  Private(t)
<1>1. Becomes(t, Sent(task[t], op))
  BY DEF Inv, Becomes, Send, Sent
<1> QED BY <1>1, BecomesPrivate

LEMMA ReceiveCopyStep ==
    ASSUME Inv, NEW t \in Tasks, ReceiveCopy(t) PROVE Private(t)
<1> DEFINE q == task[t]
<1>1. q.pc = "wait" /\ q.op = "copy" /\ Good(objects, q) /\ Sound(q)
  BY DEF ReceiveCopy, At, Inv, Good
<1>2. CASE Answered(t, "ok")
  <2> DEFINE p == Sent(q, "head")
  <2>1. Send(t, "head") /\ q.answer.tag = "ok"
    BY <1>2 DEF ReceiveCopy, Answered
  <2> HIDE DEF q
  <2>2. q.call.kind \in {"copy", "rename"}
    BY <1>1, CallAt DEF Ops, Kinds, Lists
  <2>3. /\ DOMAIN p = Fields /\ p.pc = "wait" /\ p.call = q.call /\ p.op = "head"
        /\ p.answer.tag = "none" /\ p.ever = q.ever
        /\ p.orig = q.orig /\ p.alone = q.alone
    BY <1>1, SentFields
  <2> HIDE DEF p
  <2>4. Sound(p)
    BY <1>1, <2>2, <2>3 DEF Sound, Ops, Busy, Tags
  <2>5. Whole(objects, p)
    BY <1>1, <2>1, <2>3 DEF Good, Whole, Moving, Busy
  <2>6. Copied(p)
    BY <1>1, <2>1, <2>3 DEF Good, Knows, Busy, Copied, Was
  <2>7. Knows(p) /\ Truth(p)
    BY <2>3, <2>6 DEF Knows, Truth, Busy
  <2> QED BY <1>1, <2>1, <2>4, <2>5, <2>7, SendPrivate DEF ReceiveCopy, Good, p, q
<1>3. CASE ~Answered(t, "ok")
  <2> DEFINE res == Failure(t)
             e == Finished(q, res)
  <2>1. Finish(t, res)
    BY <1>3 DEF ReceiveCopy
  <2>2. res \in {"notfound", "storage"}
        /\ (Honest /\ res = "notfound" => q.answer.tag = "missing")
    BY SaysMissingHonest DEF Failure
  <2> HIDE DEF q, res
  <2>3. e.pc = "done" /\ e.res = res /\ e.call = q.call /\ e.ever = q.ever
    BY <1>1, FinishedFields
  <2> HIDE DEF e
  <2>4. Honest => Truth(e)
    BY <1>1, <2>2, <2>3 DEF Truth, Good, Knows, Busy, Was
  <2> QED BY <1>1, <2>1, <2>4, FinishPrivate DEF q, e, ReceiveCopy, Busy
<1> QED BY <1>2, <1>3

LEMMA ReceiveDeleteStep ==
    ASSUME Inv, NEW t \in Tasks, ReceiveDelete(t) PROVE Private(t)
<1> DEFINE q == task[t]
<1>1. q.pc = "wait" /\ q.op = "delete" /\ Good(objects, q) /\ Sound(q)
  BY DEF ReceiveDelete, At, Inv, Good
<1>2. PICK res \in {"ok", "storage"} :
          /\ Finish(t, res)
          /\ Honest /\ res = "ok" => q.answer.tag \in {"ok", "missing"}
  BY SaysMissingHonest DEF ReceiveDelete, Answered
<1> DEFINE e == Finished(q, res)
<1> HIDE DEF q
<1>3. q.call.kind \in {"delete", "rename"}
  BY <1>1, CallAt DEF Ops, Kinds, Lists
<1>4. e.pc = "done" /\ e.res = res /\ e.call = q.call /\ e.ever = q.ever
  BY <1>1, FinishedFields
<1> HIDE DEF e
<1>5. Honest /\ res = "ok" => Was(e, q.call.key, None)
  BY <1>1, <1>2, <1>4 DEF Good, Knows, Busy, Was
<1>6. q.call.kind = "rename" => Copied(e)
  BY <1>1, <1>4 DEF Good, Knows, Busy, Copied, Was
<1>7. Honest => Truth(e)
  BY <1>2, <1>3, <1>4, <1>5, <1>6 DEF Truth
<1> QED BY <1>1, <1>2, <1>7, FinishPrivate DEF q, e, ReceiveDelete, Busy

LEMMA ReceiveHeadStep ==
    ASSUME Inv, NEW t \in Tasks, ReceiveHead(t) PROVE Private(t)
<1> DEFINE q == task[t]
<1>1. q.pc = "wait" /\ q.op = "head" /\ Good(objects, q) /\ Sound(q)
  BY DEF ReceiveHead, At, Inv, Good
<1>2. CASE Send(t, "delete") /\ q.answer.tag = "ok" /\ q.call.kind = "rename"
  <2> DEFINE p == Sent(q, "delete")
  <2> HIDE DEF q
  <2>1. /\ DOMAIN p = Fields /\ p.pc = "wait" /\ p.call = q.call /\ p.op = "delete"
        /\ p.answer.tag = "none" /\ p.ever = q.ever
        /\ p.orig = q.orig /\ p.alone = q.alone
    BY <1>1, SentFields
  <2> HIDE DEF p
  <2>2. Sound(p)
    BY <1>1, <1>2, <2>1 DEF Sound, Ops, Busy, Tags
  <2>3. Whole(objects, p)
    BY <1>1, <1>2, <2>1 DEF Good, Whole, Moving, Busy
  <2>4. Copied(p)
    BY <1>1, <1>2, <2>1 DEF Good, Knows, Busy, Copied, Was
  <2>5. Knows(p) /\ Truth(p)
    BY <2>1, <2>4 DEF Knows, Truth, Busy
  <2> QED BY <1>1, <1>2, <2>2, <2>3, <2>5, SendPrivate DEF ReceiveHead, Good, p, q
<1>3. CASE ~(Send(t, "delete") /\ q.answer.tag = "ok" /\ q.call.kind = "rename")
  <2>1. PICK res \in {"true", "ok", "invalid", "false", "notfound", "storage"} :
            /\ Finish(t, res)
            /\ res \in {"true", "ok", "invalid"} => q.answer.tag = "ok"
            /\ res = "ok" => q.call.kind \notin {"exists", "rename"}
            /\ res \in {"true", "false"} => q.call.kind = "exists"
            /\ Honest /\ res \in {"false", "notfound"} => q.answer.tag = "missing"
    BY <1>3, SaysMissingHonest DEF ReceiveHead, Answered, Failure
  <2> DEFINE e == Finished(q, res)
  <2> HIDE DEF q
  <2>2. /\ q.call.kind \in {"head", "exists", "copy", "rename"}
        /\ q.call.kind \in {"head", "exists"} => q.call.to = q.call.key
    BY <1>1, CallAt DEF Ops, Kinds, Lists
  <2>3. e.pc = "done" /\ e.res = res /\ e.call = q.call /\ e.ever = q.ever
    BY <1>1, FinishedFields
  <2> HIDE DEF e
  <2>4. q.answer.tag = "ok" => There(e, q.call.to)
    BY <1>1, <2>3 DEF Good, Knows, Busy, There, Was
  <2>5. q.answer.tag = "missing" => Was(e, q.call.to, None)
    BY <1>1, <2>3 DEF Good, Knows, Busy, Was
  <2>6. q.call.kind \in {"copy", "rename"} => Copied(e)
    BY <1>1, <2>3 DEF Good, Knows, Busy, Copied, Was
  <2>7. Honest => Truth(e)
    BY <2>1, <2>2, <2>3, <2>4, <2>5, <2>6 DEF Truth
  <2> QED BY <1>1, <2>1, <2>7, FinishPrivate DEF q, e, ReceiveHead, Busy
<1> QED BY <1>2, <1>3

-----------------------------------------------------------------------------
(* Requests that are executed                                              *)

(* The calls that only look on.                                            *)
LEMMA OthersGood ==
    ASSUME Inv, NEW ts, NEW objs, NEW owner, NEW u \in Tasks, u # owner,
           ts[u] = task[u]
    PROVE  Good(objs, Observed(ts, objs, owner)[u])
<1> DEFINE q == ts[u]
           p == Observed(ts, objs, owner)[u]
<1>1. Sound(q) /\ Whole(objects, q) /\ Knows(q) /\ (Honest => Truth(q))
  BY DEF Inv, Good
<1>2. /\ Grown(q, p)
      /\ p.alone /\ q.pc # "idle" => \A n \in Uses(q.call) : objs[n] = objects[n]
  BY <1>1, ObservedRecord
<1> HIDE DEF q, p
<1>3. Sound(p) /\ Knows(p) /\ (Truth(q) => Truth(p))
  BY <1>1, <1>2, GrownStaysTrue
<1>4. Whole(objs, p)
  BY <1>1, <1>2, GrownStaysWhole
<1> QED BY <1>1, <1>3, <1>4 DEF Good, p

(* The call whose request it is: the move stays whole, ...                 *)
LEMMA ServedWhole ==
    ASSUME Inv, NEW t \in Tasks, task[t].pc = "wait", task[t].op # "list",
           NEW p, Moving(p), p.pc = task[t].pc, p.call = task[t].call,
           p.op = task[t].op, p.orig = task[t].orig, p.alone => task[t].alone,
           p.answer = Outcome(Request(t))
    PROVE  Whole(Executed(Request(t)), p)
<1> DEFINE q == task[t]
           r == Request(t)
           from == FullKey(q.call.key)
           to == FullKey(q.call.to)
           objs == Executed(r)
<1>1. /\ Whole(objects, q) /\ objects \in Bucket /\ q.call.kind \notin Lists
      /\ q.call \in Calls /\ Good(objects, q)
  BY RequestFits DEF Inv, Good
<1>2. from \in Names /\ to \in Names
  BY <1>1, NamesOfCall
<1>3. Moving(q)
  BY DEF Moving
<1>4. from # to
  BY <1>3 DEF Moving
<1>5. q.op \in {"copy", "head", "delete"}
  BY <1>1, <1>3, CallAt DEF Ops, Moving
<1> DEFINE Goal == Whole(objs, p)
<1>6. ASSUME q.op = "copy" PROVE Goal
  <2>1. r.op = "copy" /\ r.from = from /\ r.name = to
    BY <1>6 DEF Request
  <2>2. objs[from] = objects[from] /\ objects[from] = q.orig
    BY <1>1, <1>2, <1>3, <1>4, <1>6, <2>1 DEF Executed, Whole, Busy, Bucket
  <2>3. p.answer.tag = "ok" => objects[from] # None
    BY <2>1 DEF Outcome, NoAnswer
  <2>4. objects[from] # None => objs[to] = objects[from]
    BY <1>1, <1>2, <2>1 DEF Executed, Bucket
  <2> HIDE DEF objs
  <2> QED BY <1>6, <2>2, <2>3, <2>4 DEF Whole, Busy
<1>7. ASSUME q.op = "head" PROVE Goal
  <2>1. objs = objects
    BY <1>7 DEF Executed, Request
  <2> HIDE DEF objs
  <2> QED BY <1>1, <1>3, <1>7, <2>1 DEF Whole, Busy
<1>8. ASSUME q.op = "delete" PROVE Goal
  <2>1. r.op = "delete" /\ r.name = from
    BY <1>8 DEF Request
  <2>2. objs[to] = objects[to] /\ objects[to] = q.orig
    BY <1>1, <1>2, <1>3, <1>4, <1>8, <2>1 DEF Executed, Whole, Busy, Bucket
  <2> HIDE DEF objs
  <2> QED BY <1>8, <2>2 DEF Whole, Busy
<1> QED BY <1>5, <1>6, <1>7, <1>8

(* ... and its history says what the answer says.                          *)
LEMMA ServedKnows ==
    ASSUME Inv, NEW t \in Tasks, task[t].pc = "wait", task[t].op # "list",
           NEW p, p.pc = task[t].pc, p.call = task[t].call, p.op = task[t].op,
           p.answer = Outcome(Request(t)),
           \A x \in task[t].ever : x \in p.ever,
           \A n \in Uses(p.call) : <<n, Executed(Request(t))[n]>> \in p.ever
    PROVE  Knows(p)
<1> DEFINE q == task[t]
           r == Request(t)
           from == FullKey(q.call.key)
           to == FullKey(q.call.to)
           objs == Executed(r)
           tag == p.answer.tag
<1>1. /\ objects \in Bucket /\ q.call.kind \notin Lists /\ Knows(q)
      /\ q.call \in Calls /\ Good(objects, q)
  BY RequestFits DEF Inv, Good
<1>2. from \in Names /\ to \in Names /\ objects[from] \in Data \cup {None}
      /\ objects[to] \in Data \cup {None}
  BY <1>1, NamesOfCall DEF Bucket
<1>3. <<from, objs[from]>> \in p.ever /\ <<to, objs[to]>> \in p.ever
  BY <1>1 DEF Uses
<1>4. q.call.kind \notin {"copy", "rename"} => from = to
  BY <1>1, CallAt
<1>5. r.op = q.op /\ r.from = from /\ r.data = q.call.data
      /\ r.name = IF q.op \in {"head", "copy"} THEN to ELSE from
  BY DEF Request
<1>6. tag \in {"ok", "missing"}
  BY DEF Outcome, NoAnswer
<1>7. Copied(q) => Copied(p)
  BY DEF Copied, Was
<1>8. CASE q.op = "put"
  <2>1. objs[from] = q.call.data
    BY <1>1, <1>2, <1>5, <1>8 DEF Executed, Bucket
  <2> HIDE DEF objs
  <2> QED BY <1>3, <1>8, <2>1 DEF Knows, Was
<1>9. CASE q.op = "get"
  <2>1. objs = objects
    BY <1>5, <1>9 DEF Executed
  <2>2. /\ tag = "ok" => p.answer.value = objects[from] /\ objects[from] # None
        /\ tag = "missing" => objects[from] = None
    BY <1>5, <1>9 DEF Outcome, NoAnswer
  <2> HIDE DEF objs
  <2> QED BY <1>3, <1>9, <2>1, <2>2 DEF Knows, Was
<1>10. CASE q.op = "head"
  <2>1. objs = objects
    BY <1>5, <1>10 DEF Executed
  <2>2. /\ tag = "ok" => objects[to] # None
        /\ tag = "missing" => objects[to] = None
    BY <1>5, <1>10 DEF Outcome, NoAnswer
  <2> HIDE DEF objs
  <2>3. tag = "ok" => There(p, q.call.to)
    BY <1>2, <1>3, <2>1, <2>2 DEF There, Was
  <2>4. tag = "missing" => Was(p, q.call.to, None)
    BY <1>3, <2>1, <2>2 DEF Was
  <2>5. q.call.kind \in {"copy", "rename"} => Copied(p)
    BY <1>1, <1>7, <1>10 DEF Knows, Busy
  <2> QED BY <1>10, <2>3, <2>4, <2>5 DEF Knows
<1>11. CASE q.op = "copy"
  <2>1. /\ tag = "ok" => objects[from] # None /\ objs[from] = objects[from]
                         /\ objs[to] = objects[from]
        /\ tag = "missing" => objs[from] = None
    BY <1>1, <1>2, <1>5, <1>11 DEF Outcome, NoAnswer, Executed, Bucket
  <2> HIDE DEF objs
  <2>2. tag = "ok" => Copied(p)
    BY <1>2, <1>3, <2>1 DEF Copied, Was
  <2>3. tag = "missing" => Was(p, q.call.key, None)
    BY <1>3, <2>1 DEF Was
  <2> QED BY <1>11, <2>2, <2>3 DEF Knows
<1>12. CASE q.op = "delete"
  <2>1. objs[from] = None
    BY <1>1, <1>2, <1>5, <1>12 DEF Executed, Bucket
  <2> HIDE DEF objs
  <2>2. Was(p, q.call.key, None)
    BY <1>3, <2>1 DEF Was
  <2>3. q.call.kind \in {"copy", "rename"} => Copied(p)
    BY <1>1, <1>7, <1>12 DEF Knows, Busy
  <2> QED BY <1>12, <2>2, <2>3 DEF Knows
<1>13. q.op \in {"put", "get", "head", "copy", "delete"}
  BY <1>1, CallAt DEF Ops, Kinds
<1> QED BY <1>8, <1>9, <1>10, <1>11, <1>12, <1>13

LEMMA ServeStep ==
    ASSUME Inv, NEW t \in Tasks, Serve(t) PROVE Inv'
<1> DEFINE q == task[t]
           r == Request(t)
           objs == Executed(r)
           a == Outcome(r)
           ts == [task EXCEPT ![t].answer = a]
           z == ts[t]
           p == Observed(ts, objs, t)[t]
<1>1. /\ q.pc = "wait" /\ q.op # "list" /\ Sound(q) /\ DOMAIN task = Tasks
      /\ objects' = objs /\ task' = Observed(ts, objs, t) /\ UNCHANGED <<backend, late>>
  BY DEF Serve, Waiting, Inv, Good, Request
<1>2. r.from \in Names /\ r.name \in Names /\ (r.op = "put" => r.data \in Data)
      /\ q.call.kind \notin Lists
  BY <1>1, RequestFits
<1>3. objs \in Bucket
  BY <1>2, ExecutedInBucket DEF Inv
<1>4. /\ DOMAIN z = Fields /\ z.pc = "wait" /\ z.call = q.call /\ z.op = q.op
      /\ z.orig = q.orig /\ z.alone = q.alone /\ z.ever = q.ever /\ z.answer = a
  <2>1. z = [q EXCEPT !.answer = a]
    BY <1>1
  <2> HIDE DEF q, z, a
  <2> QED BY <1>1, <2>1 DEF Sound, Fields
<1>5. a.tag \in Tags
  BY DEF Outcome, NoAnswer, Tags
<1>6. Sound(z)
  BY <1>1, <1>4, <1>5 DEF Sound, Busy
<1>7. Grown(z, p) /\ \A n \in Uses(z.call) : <<n, objs[n]>> \in p.ever
  BY <1>4, <1>6, ObservedRecord DEF Busy
<1>8. ts[t] = z /\ task'[t] = p /\ a = Outcome(Request(t)) /\ objs = Executed(Request(t))
  BY <1>1
<1>9. \A u \in Tasks \ {t} : Good(objs, task'[u])
  <2>1. ASSUME NEW u \in Tasks \ {t} PROVE Good(objs, Observed(ts, objs, t)[u])
    <3>1. ts[u] = task[u]
      OBVIOUS
    <3> HIDE DEF ts, objs
    <3> QED BY <3>1, OthersGood
  <2> QED BY <1>1, <2>1
<1> HIDE DEF a, ts, z, p, objs
<1>10. /\ DOMAIN p = Fields /\ p.pc = "wait" /\ p.call = q.call /\ p.op = q.op
       /\ p.orig = q.orig /\ (p.alone => q.alone) /\ p.answer = a
       /\ \A x \in q.ever : x \in p.ever
  BY <1>4, <1>7, GrownFields DEF Grown
<1>11. Sound(p)
  BY <1>4, <1>6, <1>10 DEF Sound
<1>12. Whole(objs, p)
  <2>1. CASE Moving(p)
    BY <1>1, <1>8, <1>10, <2>1, ServedWhole
  <2> QED BY <2>1 DEF Whole
<1>13. Knows(p)
  BY <1>1, <1>4, <1>7, <1>8, <1>10, ServedKnows
<1>14. Truth(p)
  BY <1>10 DEF Truth
<1>15. Good(objs, task'[t])
  BY <1>8, <1>11, <1>12, <1>13, <1>14 DEF Good
<1>16. DOMAIN task' = Tasks
  BY <1>1 DEF Observed
<1> QED BY <1>1, <1>3, <1>9, <1>15, <1>16 DEF Inv

LEMMA ServeLateStep == ASSUME Inv, ServeLate PROVE Inv'
<1>1. PICK r \in late : /\ late' = late \ {r} /\ objects' = Executed(r)
                        /\ task' = Observed(task, objects', None)
                        /\ UNCHANGED backend
  BY DEF ServeLate
<1>2. Executed(r) \in Bucket
  BY <1>1, ExecutedInBucket DEF Inv, RequestOK
<1>3. \A u \in Tasks : Good(objects', task'[u])
  <2>1. ASSUME NEW u \in Tasks PROVE Good(objects', Observed(task, objects', None)[u])
    BY OthersGood, CloudStorageAssumption
  <2> QED BY <1>1, <2>1
<1>4. DOMAIN task' = Tasks
  BY <1>1 DEF Observed
<1> QED BY <1>1, <1>2, <1>3, <1>4 DEF Inv

-----------------------------------------------------------------------------
(* The invariant                                                           *)

LEMMA InvInit == Init => Inv
<1>1. SUFFICES ASSUME Init PROVE Inv
  OBVIOUS
<1>2. objects \in Bucket
  BY <1>1, CloudStorageAssumption DEF Init, Bucket
<1>3. \A t \in Tasks : Good(objects, task[t])
  BY <1>1, IdleGood DEF Init
<1> QED BY <1>1, <1>2, <1>3 DEF Init, Inv

LEMMA InvStep == Inv /\ [Next]_vars => Inv'
<1>1. SUFFICES ASSUME Inv, [Next]_vars PROVE Inv'
  OBVIOUS
<1>2. CASE UNCHANGED vars
  BY <1>1, <1>2 DEF Inv, vars, Good, Whole, Knows, Truth
<1>3. CASE ServeLate
  BY <1>1, <1>3, ServeLateStep
<1>4. ASSUME NEW t \in Tasks, NEW c \in Calls, Begin(t, c) PROVE Inv'
  BY <1>1, <1>4, BeginStep, PrivateStep
<1>5. ASSUME NEW t \in Tasks, Serve(t) PROVE Inv'
  BY <1>1, <1>5, ServeStep
<1>6. ASSUME NEW t \in Tasks,
             \/ ControlBuilt(t) \/ ControlThere(t)
             \/ Refuse(t) \/ Break(t) \/ Resend(t)
      PROVE  Inv'
  BY <1>1, <1>6, WaySteps, PrivateStep
<1>7. ASSUME NEW t \in Tasks, ControlFails(t) \/ Return(t) \/ Cancel(t) PROVE Inv'
  BY <1>1, <1>7, EndSteps, PrivateStep
<1>8. ASSUME NEW t \in Tasks, ServePage(t) \/ ReceivePage(t) \/ Repeat(t) PROVE Inv'
  BY <1>1, <1>8, PageSteps, PrivateStep
<1>9. ASSUME NEW t \in Tasks,
             \/ ReceivePut(t) \/ ReceiveGet(t) \/ ReceiveHead(t)
             \/ ReceiveCopy(t) \/ ReceiveDelete(t)
      PROVE  Inv'
  BY <1>1, <1>9, ReceivePutStep, ReceiveGetStep, ReceiveHeadStep,
     ReceiveCopyStep, ReceiveDeleteStep, PrivateStep
<1> QED BY <1>1, <1>2, <1>3, <1>4, <1>5, <1>6, <1>7, <1>8, <1>9
        DEF Next, Progress, Receive

(* The invariant the two theorems below rest on: what each request in      *)
(* progress, with or without its answer, says of the bucket and of the     *)
(* past (the request sequences of rename, copy and delete in s3.rs, gcs.rs *)
(* and azure.rs).                                                          *)
THEOREM InvAlwaysHolds == Spec => []Inv
  BY InvInit, InvStep, PTL DEF Spec

(* A rename or copy that no other call disturbs has its object whole under *)
(* one of the two names at every moment and however it ends: answers lost, *)
(* requests repeated and executed late, the caller gone (ReceiveCopy,      *)
(* ReceiveHead and ReceiveDelete of s3.rs, gcs.rs and azure.rs).           *)
THEOREM MoveAlwaysKeepsData == Spec => []MoveKeepsData
<1>1. Inv => MoveKeepsData
  <2>1. SUFFICES ASSUME Inv, NEW t \in Tasks, task[t].pc # "idle", Moving(task[t])
                 PROVE  task[t].orig \in {objects[FullKey(task[t].call.key)],
                                          objects[FullKey(task[t].call.to)]}
    BY DEF MoveKeepsData, Moving
  <2> DEFINE q == task[t]
  <2>2. Sound(q) /\ Whole(objects, q)
    BY <2>1 DEF Inv, Good
  <2> HIDE DEF q
  <2>3. q.pc \in Busy => q.op \in {"copy", "head", "delete"}
    BY <2>1, <2>2 DEF Sound, Ops, Moving, q, Lists
  <2> QED BY <2>1, <2>2, <2>3 DEF Whole, Sound, q
<1> QED BY <1>1, InvAlwaysHolds, PTL

(* What a call answered was the truth at some moment while it ran, if only *)
(* an error about a missing object has "404" in its text: GCS and Azure    *)
(* look for that text in errors (is_not_found_error of gcs.rs and azure.rs)*)
THEOREM AnswersAlwaysTrue == ASSUME Honest PROVE Spec => []AnswersAreTrue
<1>1. Inv => AnswersAreTrue
  <2>1. SUFFICES ASSUME Inv PROVE AnswersAreTrue
    OBVIOUS
  <2>2. \A t \in Tasks : Truth(task[t])
    BY <2>1 DEF Inv, Good
  <2> QED BY <2>2 DEF AnswersAreTrue, Truth, Was, There, Copied
<1> QED BY <1>1, InvAlwaysHolds, PTL

-----------------------------------------------------------------------------
(* The queue for the control client                                        *)

(* Each task that waits stands in the queue, and stands in it once.        *)
InLine ==
    /\ queue \in Seq(Tasks)
    /\ \A i, j \in 1 .. Len(queue) : queue[i] = queue[j] => i = j
    /\ QueueMoves

Same(u) == task'[u].pc = "control" <=> task[u].pc = "control"

LEMMA LineStays ==
    ASSUME InLine, queue' = queue, \A u \in Tasks : Same(u)
    PROVE  InLine'
  BY DEF InLine, QueueMoves, Same

LEMMA LineGrows ==
    ASSUME InLine, NEW t \in Tasks, queue' = Append(queue, t), task[t].pc # "control",
           task'[t].pc = "control", \A u \in Tasks \ {t} : Same(u)
    PROVE  InLine'
<1> DEFINE n == Len(queue)
<1>1. /\ queue' \in Seq(Tasks) /\ n \in Nat /\ Len(queue') = n + 1
      /\ \A i \in 1 .. n : queue'[i] = queue[i] /\ queue[i] \in Tasks
      /\ queue'[n + 1] = t
  BY DEF InLine
<1>2. \A i \in 1 .. n : queue[i] # t
  BY DEF InLine, QueueMoves
<1>3. \A i, j \in 1 .. n + 1 : queue'[i] = queue'[j] => i = j
  BY <1>1, <1>2 DEF InLine
<1>4. \A i \in 1 .. n + 1 : task'[queue'[i]].pc = "control"
  BY <1>1, <1>2 DEF InLine, QueueMoves, Same
<1>5. \A u \in Tasks : task'[u].pc = "control" => \E i \in 1 .. n + 1 : queue'[i] = u
  <2>1. SUFFICES ASSUME NEW u \in Tasks, task'[u].pc = "control", u # t
                 PROVE  \E i \in 1 .. n + 1 : queue'[i] = u
    BY <1>1
  <2>2. PICK i \in 1 .. n : queue[i] = u
    BY <2>1 DEF InLine, QueueMoves, Same
  <2> QED BY <1>1, <2>2
<1> QED BY <1>1, <1>3, <1>4, <1>5 DEF InLine, QueueMoves

LEMMA LineShrinks ==
    ASSUME InLine, NEW t \in Tasks, queue' = Left(t), task'[t].pc # "control",
           \A u \in Tasks \ {t} : Same(u)
    PROVE  InLine'
<1>1. CASE \A i \in 1 .. Len(queue) : queue[i] # t
  <2>1. task[t].pc # "control" /\ queue' = queue
    BY <1>1 DEF InLine, QueueMoves, Left
  <2> QED BY <2>1, LineStays DEF Same
<1>2. CASE \E i \in 1 .. Len(queue) : queue[i] = t
  <2> DEFINE n == CHOOSE i \in 1 .. Len(queue) : queue[i] = t
             m == Len(queue)
             old(i) == IF i < n THEN i ELSE i + 1
  <2>1. n \in 1 .. m /\ queue[n] = t /\ m \in Nat
    BY <1>2 DEF InLine
  <2>2. queue' = SubSeq(queue, 1, n - 1) \o SubSeq(queue, n + 1, m)
    BY <1>2 DEF Left
  <2> HIDE DEF n
  <2>3. /\ queue' \in Seq(Tasks) /\ Len(queue') = m - 1
        /\ \A i \in 1 .. m - 1 : queue'[i] = queue[old(i)] /\ old(i) \in 1 .. m
                                 /\ old(i) # n
    <3> DEFINE a == SubSeq(queue, 1, n - 1)
               b == SubSeq(queue, n + 1, m)
    <3>1. queue \in Seq(Tasks) /\ m = Len(queue)
      BY DEF InLine
    <3>2. a \in Seq(Tasks) /\ Len(a) = n - 1 /\ \A i \in 1 .. n - 1 : a[i] = queue[i]
      BY <2>1, <3>1
    <3>3. /\ b \in Seq(Tasks) /\ Len(b) = m - n
          /\ \A i \in 1 .. m - n : b[i] = queue[n + i]
      BY <2>1, <3>1
    <3> HIDE DEF a, b, m
    <3>4. /\ a \o b \in Seq(Tasks) /\ Len(a \o b) = m - 1
          /\ \A i \in 1 .. m - 1 : (a \o b)[i] = IF i < n THEN a[i] ELSE b[i - n + 1]
      <4>1. a \o b \in Seq(Tasks) /\ Len(a \o b) = m - 1
        <5>1. a \o b \in Seq(Tasks)
          BY <3>2, <3>3
        <5>2. Len(a \o b) = Len(a) + Len(b)
          BY <3>2, <3>3
        <5> QED BY <2>1, <3>2, <3>3, <5>1, <5>2
      <4>2. ASSUME NEW i \in 1 .. m - 1, i < n PROVE (a \o b)[i] = a[i]
        BY <2>1, <3>2, <3>3, <4>2
      <4>3. ASSUME NEW i \in 1 .. m - 1, ~(i < n)
            PROVE  (a \o b)[i] = b[i - n + 1]
        <5>1. i > Len(a) /\ i <= Len(a) + Len(b) /\ i - Len(a) = i - n + 1
          BY <2>1, <3>2, <3>3, <4>3
        <5>2. (a \o b)[i] = b[i - Len(a)]
          BY <2>1, <3>2, <3>3, <5>1
        <5> QED BY <5>1, <5>2
      <4> QED BY <4>1, <4>2, <4>3
    <3>5. queue' = a \o b
      BY <2>2 DEF a, b, m
    <3> QED BY <2>1, <3>2, <3>3, <3>4, <3>5
  <2>4. \A i \in 1 .. m : queue[i] = t => i = n
    BY <2>1 DEF InLine
  <2>5. \A i \in 1 .. m - 1 : queue'[i] \in Tasks \ {t}
    BY <2>1, <2>3, <2>4 DEF InLine
  <2>6. \A i, j \in 1 .. m - 1 : queue'[i] = queue'[j] => i = j
    BY <2>1, <2>3 DEF InLine
  <2>7. \A i \in 1 .. m - 1 : task'[queue'[i]].pc = "control"
    BY <2>3, <2>5 DEF InLine, QueueMoves, Same
  <2>8. \A u \in Tasks : task'[u].pc = "control" => \E i \in 1 .. m - 1 : queue'[i] = u
    <3>1. SUFFICES ASSUME NEW u \in Tasks \ {t}, task'[u].pc = "control"
                   PROVE  \E i \in 1 .. m - 1 : queue'[i] = u
      OBVIOUS
    <3>2. PICK i \in 1 .. m : queue[i] = u /\ i # n
      BY <2>1, <3>1 DEF InLine, QueueMoves, Same
    <3>3. CASE i < n
      BY <2>1, <2>3, <3>2, <3>3
    <3>4. CASE i > n
      <4>1. i - 1 \in 1 .. m - 1 /\ old(i - 1) = i
        BY <2>1, <3>2, <3>4
      <4> HIDE DEF old
      <4> QED BY <2>3, <3>2, <4>1
    <3> QED BY <2>1, <3>2, <3>3, <3>4
  <2> QED BY <2>3, <2>6, <2>7, <2>8 DEF InLine, QueueMoves
<1> QED BY <1>1, <1>2

(* A request that is executed leaves every call where it is.               *)
LEMMA ObservedSame ==
    ASSUME Inv, NEW ts, NEW objs, NEW owner, task' = Observed(ts, objs, owner),
           \A u \in Tasks : Sound(ts[u]) /\ ts[u].pc = task[u].pc
    PROVE  \A u \in Tasks : Same(u)
<1>1. SUFFICES ASSUME NEW u \in Tasks PROVE Same(u)
  OBVIOUS
<1>2. Grown(ts[u], Observed(ts, objs, owner)[u])
  BY ObservedRecord
<1> QED BY <1>2, GrownFields DEF Same

LEMMA LineStep ==
    ASSUME Inv, InLine, [Next]_vars PROVE InLine'
<1>1. DOMAIN task = Tasks /\ \A u \in Tasks : Sound(task[u]) /\ DOMAIN task[u] = Fields
  BY DEF Inv, Good, Sound
<1> USE DEF Same
<1>2. CASE UNCHANGED vars
  BY <1>2, LineStays DEF vars
<1>3. CASE ServeLate
  <2>1. queue' = queue /\ task' = Observed(task, objects', None)
    BY <1>3 DEF ServeLate
  <2> QED BY <1>1, <2>1, ObservedSame, LineStays
<1>4. ASSUME NEW t \in Tasks, Serve(t) PROVE InLine'
  <2> DEFINE a == Outcome(Request(t))
             ts == [task EXCEPT ![t].answer = a]
  <2>1. queue' = queue /\ task' = Observed(ts, objects', t)
    BY <1>4 DEF Serve
  <2>2. task[t].pc = "wait" /\ a.tag \in Tags
    BY <1>4 DEF Serve, Waiting, Outcome, NoAnswer, Tags
  <2> HIDE DEF a
  <2>3. ASSUME NEW u \in Tasks PROVE Sound(ts[u]) /\ ts[u].pc = task[u].pc
    <3>1. CASE u # t
      BY <1>1, <3>1
    <3>2. CASE u = t
      <4> DEFINE q == task[t]
                 z == [q EXCEPT !.answer = a]
      <4>1. ts[u] = z /\ Sound(q) /\ q.pc = "wait"
        BY <1>1, <2>2, <3>2
      <4> HIDE DEF q
      <4>2. /\ DOMAIN z = Fields /\ z.pc = q.pc /\ z.call = q.call /\ z.op = q.op
            /\ z.answer = a
        BY <4>1 DEF Sound, Fields
      <4> HIDE DEF z
      <4>3. Sound(z)
        BY <2>2, <4>1, <4>2 DEF Sound
      <4> QED BY <3>2, <4>1, <4>2, <4>3 DEF q
    <3> QED BY <3>1, <3>2
  <2> HIDE DEF ts
  <2> QED BY <2>1, <2>3, ObservedSame, LineStays
<1>5. ASSUME NEW t \in Tasks, NEW c \in Calls, Begin(t, c) PROVE InLine'
  <2>1. task[t] = Idle /\ DOMAIN task = Tasks /\ Idle.pc = "idle"
    BY <1>1, <1>5 DEF Begin, Idle
  <2>2. \A u \in Tasks \ {t} : Same(u)
    BY <1>5, <2>1 DEF Begin
  <2> DEFINE waits == Admit(c) = "ok" /\ NeedsControl(FirstOp(c)) /\ ~control
  <2>3. task'[t].pc = "control" <=> waits
    BY <1>5, <2>1 DEF Begin, Idle
  <2>4. queue' = IF waits THEN Append(queue, t) ELSE queue
    BY <1>5 DEF Begin
  <2> HIDE DEF waits
  <2>5. CASE waits
    BY <2>1, <2>2, <2>3, <2>4, <2>5, LineGrows
  <2>6. CASE ~waits
    BY <2>1, <2>2, <2>3, <2>4, <2>6, LineStays
  <2> QED BY <2>5, <2>6
<1>6. ASSUME NEW t \in Tasks, Repeat(t) PROVE InLine'
  <2> DEFINE waits == NeedsControl("list") /\ ~control
  <2>1. task[t].pc = "done" /\ (task'[t].pc = "control" <=> waits)
    BY <1>1, <1>6 DEF Repeat, Repeatable, Fields
  <2>2. \A u \in Tasks \ {t} : Same(u)
    BY <1>1, <1>6 DEF Repeat
  <2>3. queue' = IF waits THEN Append(queue, t) ELSE queue
    BY <1>6 DEF Repeat
  <2> HIDE DEF waits
  <2>4. CASE waits
    BY <2>1, <2>2, <2>3, <2>4, LineGrows
  <2>5. CASE ~waits
    BY <2>1, <2>2, <2>3, <2>5, LineStays
  <2> QED BY <2>4, <2>5
<1>7. ASSUME NEW t \in Tasks,
             ControlBuilt(t) \/ ControlFails(t) \/ ControlThere(t) \/ Cancel(t)
      PROVE  InLine'
  <2>1. queue' = Left(t) /\ \A u \in Tasks \ {t} : Same(u)
    BY <1>1, <1>7 DEF ControlBuilt, ControlFails, ControlThere, Cancel, Finish
  <2>2. task'[t].pc # "control"
    BY <1>1, <1>7 DEF ControlBuilt, ControlFails, ControlThere, Cancel, Finish,
                      Fields, Idle
  <2> QED BY <2>1, <2>2, LineShrinks
<1>8. ASSUME NEW t \in Tasks, task[t].pc \in {"wait", "done"},
             \/ ServePage(t) \/ Refuse(t) \/ Break(t) \/ Resend(t) \/ Return(t)
             \/ Receive(t)
      PROVE  InLine'
  <2>1. queue' = queue
    BY <1>8 DEF ServePage, Refuse, Break, Resend, Return, Receive, ReceivePut,
                ReceiveGet, ReceiveHead, ReceiveCopy, ReceiveDelete, ReceivePage
  <2>2. \A u \in Tasks \ {t} : Same(u)
    BY <1>1, <1>8 DEF ServePage, Refuse, Break, Resend, Return, Receive, ReceivePut,
                ReceiveGet, ReceiveHead, ReceiveCopy, ReceiveDelete, ReceivePage,
                Finish, Send
  <2>3. task'[t].pc # "control"
    <3>1. ASSUME NEW answer, NEW sends,
                 \/ task' = [task EXCEPT ![t].answer = answer]
                 \/ task' = [task EXCEPT ![t].answer = answer, ![t].sends = sends]
          PROVE  task'[t].pc = task[t].pc
      BY <1>1, <3>1 DEF Fields
    <3>2. ASSUME NEW res, Finish(t, res) PROVE task'[t].pc = "done"
      BY <1>1, <3>2 DEF Finish, Fields
    <3>3. ASSUME NEW op, Send(t, op) PROVE task'[t].pc = task[t].pc
      BY <1>1, <3>3 DEF Send, Fields
    <3> HIDE DEF Same
    <3>4. CASE ServePage(t)
      <4>1. PICK answer : task' = [task EXCEPT ![t].answer = answer]
        BY <3>4 DEF ServePage
      <4> QED BY <1>8, <3>1, <4>1
    <3>5. CASE Refuse(t)
      <4>1. PICK answer : task' = [task EXCEPT ![t].answer = answer]
        BY <3>5 DEF Refuse
      <4> QED BY <1>8, <3>1, <4>1
    <3>6. CASE Break(t)
      <4>1. PICK answer : task' = [task EXCEPT ![t].answer = answer]
        BY <3>6 DEF Break
      <4> QED BY <1>8, <3>1, <4>1
    <3>7. CASE Resend(t)
      BY <1>1, <1>8, <3>7 DEF Resend, Fields
    <3>8. CASE Return(t)
      BY <1>1, <3>8 DEF Return, Idle
    <3>9. CASE ReceiveGet(t)
      <4> DEFINE value == task[t].answer.value
      <4>1. \/ \E res : Finish(t, res)
            \/ task' = [task EXCEPT ![t].pc = "done", ![t].res = "ok",
                           ![t].op = "none", ![t].sends = 0, ![t].answer = NoAnswer,
                           ![t].value = value]
        BY <3>9 DEF ReceiveGet
      <4> HIDE DEF value
      <4> QED BY <1>1, <3>2, <4>1 DEF Fields
    <3>10. CASE ReceivePage(t)
      <4> DEFINE found == task[t].found \o PageOf(t)
                 next == NextCursor(task[t].answer.token)
      <4>1. \/ \E res : Finish(t, res)
            \/ task' = [task EXCEPT ![t].found = found, ![t].cursor = next,
                                    ![t].answer = NoAnswer, ![t].sends = 1]
            \/ task' = [task EXCEPT ![t].found = found, ![t].cursor = None,
                           ![t].answer = NoAnswer, ![t].sends = 0,
                           ![t].pc = "done", ![t].op = "none", ![t].res = "ok"]
        BY <3>10 DEF ReceivePage
      <4> HIDE DEF found, next
      <4> QED BY <1>1, <1>8, <3>2, <4>1 DEF Fields
    <3>11. CASE ReceivePut(t) \/ ReceiveHead(t) \/ ReceiveCopy(t) \/ ReceiveDelete(t)
      BY <1>8, <3>2, <3>3, <3>11 DEF ReceivePut, ReceiveHead, ReceiveCopy, ReceiveDelete
    <3> QED BY <1>8, <3>4, <3>5, <3>6, <3>7, <3>8, <3>9, <3>10, <3>11 DEF Receive
  <2> QED BY <1>8, <2>1, <2>2, <2>3, LineStays
<1>9. ASSUME NEW t \in Tasks,
             \/ ServePage(t) \/ Refuse(t) \/ Break(t) \/ Resend(t) \/ Return(t)
             \/ Receive(t)
      PROVE  task[t].pc \in {"wait", "done"}
  BY <1>9 DEF ServePage, Refuse, Break, Resend, Return, Receive, ReceivePut, Waiting,
              ReceiveGet, ReceiveHead, ReceiveCopy, ReceiveDelete, ReceivePage, At
<1> QED BY <1>2, <1>3, <1>4, <1>5, <1>6, <1>7, <1>8, <1>9 DEF Next, Progress

(* Nobody waits for the control client outside the queue, and nobody who   *)
(* stands in it does not wait: after a failure, a cancellation or a build  *)
(* the next one is let in (the OnceCell of gcs.rs).                        *)
THEOREM QueueAlwaysMoves == Spec => []QueueMoves
<1>1. Init => InLine
  BY DEF Init, InLine, QueueMoves, Idle
<1>2. Inv /\ InLine /\ [Next]_vars => InLine'
  BY LineStep
<1>3. InLine => QueueMoves
  BY DEF InLine
<1> QED BY <1>1, <1>2, <1>3, InvAlwaysHolds, PTL DEF Spec

-----------------------------------------------------------------------------
(* What a list reports                                                     *)

Reach(q) == IF q.cursor = None THEN 0 ELSE Rank(q.cursor)

(* Objects are known by their places in the byte order.                    *)
Place(q, i) == Rank(FullKey(q.found[i]))

Stayed(q, n) == n \in Uses(q.call) /\ <<n, None>> \notin q.ever
Occurred(q, n) == n \in Names /\ \E d \in Data : <<n, d>> \in q.ever

(* What was found is right up to some place in the byte order.             *)
Complete(q, upto) ==
    /\ \A i \in DOMAIN q.found : /\ Occurred(q, FullKey(q.found[i]))
                                 /\ Place(q, i) <= upto
    /\ \A i, j \in DOMAIN q.found : i < j => Place(q, i) < Place(q, j)
    /\ \A n \in Names : Stayed(q, n) /\ Rank(n) <= upto =>
           \E i \in DOMAIN q.found : FullKey(q.found[i]) = n

(* A page that came in: right from the cursor to its token, or to the end. *)
End(q) == IF q.answer.token = <<>> THEN Len(ByteOrder) ELSE Rank(q.answer.token)

PageFits(q) ==
    LET names == q.answer.names IN
    /\ q.answer.token = <<>> \/ q.answer.token \in Names
    /\ names \in Seq(Names) /\ Reach(q) <= End(q)
    /\ \A i \in DOMAIN names :
           /\ Occurred(q, names[i]) /\ StartsWith(names[i], ListPrefix(q.call.key))
           /\ Reach(q) < Rank(names[i]) /\ Rank(names[i]) <= End(q)
    /\ \A i, j \in DOMAIN names : i < j => Rank(names[i]) < Rank(names[j])
    /\ \A n \in Names : Stayed(q, n) /\ Reach(q) < Rank(n) /\ Rank(n) <= End(q) =>
           \E i \in DOMAIN names : names[i] = n

GoesOn(q) == q.pc \in Busy \/ Repeatable(q)

Reports(b, q) ==
    q.pc # "idle" /\ q.call.kind \in Lists =>
        /\ q.found \in Seq(Seq(STRING)) /\ q.cursor \in Names \cup {None}
        /\ GoesOn(q) => /\ Complete(q, Reach(q))
                        /\ \A n \in Uses(q.call) : <<n, b[n]>> \in q.ever
        /\ q.answer.tag = "ok" => PageFits(q)
        /\ q.pc = "done" /\ q.res = "ok" => Complete(q, Len(ByteOrder))

(* The path prefix does not end in a slash.                                *)
PlainPrefix == Trimmed(PathPrefix) = PathPrefix

AllReport == \A t \in Tasks : Reports(objects, task[t])

LEMMA Ranks ==
    /\ Len(ByteOrder) \in Nat
    /\ \A n \in Names : /\ n \in Seq(STRING)
                        /\ Rank(n) \in 1 .. Len(ByteOrder) /\ ByteOrder[Rank(n)] = n
    /\ \A i \in 1 .. Len(ByteOrder) : ByteOrder[i] \in Names /\ Rank(ByteOrder[i]) = i
<1>1. ByteOrder \in Seq(Seq(STRING)) /\ Len(ByteOrder) \in Nat
  BY CloudStorageAssumption
<1>2. \A i \in 1 .. Len(ByteOrder) : ByteOrder[i] \in Seq(STRING)
  BY <1>1
<1>3. ASSUME NEW n \in Names
      PROVE  Rank(n) \in 1 .. Len(ByteOrder) /\ ByteOrder[Rank(n)] = n
  BY DEF Names, Rank
<1>4. ASSUME NEW i \in 1 .. Len(ByteOrder)
      PROVE  ByteOrder[i] \in Names /\ Rank(ByteOrder[i]) = i
  <2>1. ByteOrder[i] \in Names
    BY DEF Names
  <2>2. /\ Rank(ByteOrder[i]) \in 1 .. Len(ByteOrder)
        /\ ByteOrder[Rank(ByteOrder[i])] = ByteOrder[i]
    BY <2>1, <1>3
  <2> QED BY <2>1, <2>2, CloudStorageAssumption
<1>5. \A n \in Names : n \in Seq(STRING)
  BY <1>2 DEF Names
<1> QED BY <1>1, <1>3, <1>4, <1>5

LEMMA PlainKeys ==
    ASSUME PlainPrefix
    PROVE  /\ PathPrefix \in Seq(STRING)
           /\ \A key : FullKey(key) = PathPrefix \o key /\ ListPrefix(key) = FullKey(key)
  BY CloudStorageAssumption DEF PlainPrefix, FullKey, ListPrefix

LEMMA SameSequence ==
    ASSUME NEW s \in Seq(STRING), NEW r \in Seq(STRING), Len(s) = Len(r),
           \A i \in 1 .. Len(s) : s[i] = r[i]
    PROVE  s = r
  OBVIOUS

(* The key that is reported for a name below the prefix is one that the    *)
(* backend turns into that name again.                                     *)
LEMMA KeysReturn ==
    ASSUME PlainPrefix, NEW name \in Seq(STRING), NEW key \in Seq(STRING), key # <<>>,
           StartsWith(name, ListPrefix(key))
    PROVE  /\ name # <<>> /\ RelativeKey(name) \in Seq(STRING)
           /\ FullKey(RelativeKey(name)) = name
<1> DEFINE m == Len(PathPrefix)
           prefix == ListPrefix(key)
           slash == PathPrefix \o <<"">>
<1>1. PathPrefix \in Seq(STRING) /\ m \in Nat /\ Len(key) \in Nat \ {0} /\ Len(name) \in Nat
  BY PlainKeys
<1>2. prefix = PathPrefix \o key
  BY PlainKeys
<1>3. /\ Len(prefix) = m + Len(key)
      /\ \A i \in 1 .. m : prefix[i] = PathPrefix[i]
  BY <1>1, <1>2
<1>4. /\ Len(name) >= m + 1
      /\ \A i \in 1 .. m : name[i] = PathPrefix[i]
  <2>1. /\ Len(name) >= Len(prefix)
        /\ \A i \in 1 .. Len(prefix) - 1 : name[i] = prefix[i]
    BY DEF StartsWith
  <2> HIDE DEF prefix, m
  <2> QED BY <1>1, <1>3, <2>1
<1>5. Len(slash) = m + 1 /\ \A i \in 1 .. m : slash[i] = PathPrefix[i]
  BY <1>1
<1>6. StartsWith(name, slash)
  <2> HIDE DEF slash, m
  <2> QED BY <1>1, <1>4, <1>5 DEF StartsWith
<1>7. name # <<>>
  BY <1>1, <1>4
<1>8. CASE PathPrefix = <<>>
  <2>1. RelativeKey(name) = name
    BY <1>8 DEF RelativeKey
  <2>2. FullKey(name) = <<>> \o name
    BY <1>8, PlainKeys
  <2>3. <<>> \o name = name
    OBVIOUS
  <2> QED BY <1>7, <2>1, <2>2, <2>3
<1>9. CASE PathPrefix # <<>>
  <2> DEFINE rest == SubSeq(name, m + 1, Len(name))
  <2>1. RelativeKey(name) = rest
    BY <1>6, <1>9 DEF RelativeKey
  <2>2. /\ rest \in Seq(STRING) /\ Len(rest) = Len(name) - m
        /\ \A i \in 1 .. Len(rest) : rest[i] = name[m + i]
    BY <1>1, <1>4
  <2> HIDE DEF rest
  <2>3. /\ PathPrefix \o rest \in Seq(STRING) /\ Len(PathPrefix \o rest) = Len(name)
        /\ \A i \in 1 .. Len(name) : (PathPrefix \o rest)[i] = name[i]
    <3>1. /\ PathPrefix \o rest \in Seq(STRING)
          /\ Len(PathPrefix \o rest) = m + Len(rest)
      BY <1>1, <2>2
    <3>2. ASSUME NEW i \in 1 .. Len(name), i <= m PROVE (PathPrefix \o rest)[i] = name[i]
      BY <1>1, <1>4, <2>2, <3>2
    <3>3. ASSUME NEW i \in 1 .. Len(name), i > m PROVE (PathPrefix \o rest)[i] = name[i]
      <4>1. i - m \in 1 .. Len(rest) /\ m + (i - m) = i
        BY <1>1, <2>2, <3>3
      <4>2. (PathPrefix \o rest)[i] = rest[i - m]
        BY <1>1, <2>2, <3>3, <4>1
      <4> QED BY <2>2, <4>1, <4>2
    <3> QED BY <1>1, <2>2, <3>1, <3>2, <3>3
  <2>4. PathPrefix \o rest = name
    <3> DEFINE whole == PathPrefix \o rest
    <3>1. /\ whole \in Seq(STRING) /\ Len(whole) = Len(name)
          /\ \A i \in 1 .. Len(whole) : whole[i] = name[i]
      BY <2>3
    <3> HIDE DEF whole
    <3>2. whole = name
      BY <3>1, SameSequence
    <3> QED BY <3>2 DEF whole
  <2>5. FullKey(rest) = name
    BY <2>4, PlainKeys
  <2> QED BY <1>7, <2>1, <2>2, <2>5
<1> QED BY <1>8, <1>9

LEMMA CompleteStays ==
    ASSUME NEW q, NEW p, p.found = q.found, p.call = q.call, q.ever \subseteq p.ever,
           NEW upto, Complete(q, upto)
    PROVE  Complete(p, upto)
<1>1. /\ \A n : Occurred(q, n) => Occurred(p, n)
      /\ \A n : Stayed(p, n) => Stayed(q, n)
      /\ \A i : Place(p, i) = Place(q, i)
  BY DEF Occurred, Stayed, Place
<1> QED BY <1>1 DEF Complete

LEMMA PageStays ==
    ASSUME NEW q, NEW p, p.answer = q.answer, p.cursor = q.cursor, p.call = q.call,
           q.ever \subseteq p.ever, PageFits(q)
    PROVE  PageFits(p)
<1>1. /\ \A n : Occurred(q, n) => Occurred(p, n)
      /\ \A n : Stayed(p, n) => Stayed(q, n)
      /\ Reach(p) = Reach(q) /\ End(p) = End(q)
  BY DEF Occurred, Stayed, Reach, End
<1> QED BY <1>1 DEF PageFits

(* A call that stays where it is in its list, without an answer that is    *)
(* a page.                                                                 *)
LEMMA QuietReports ==
    ASSUME NEW b, NEW q, Reports(b, q), q.pc # "idle", NEW p, p.call = q.call,
           p.found = q.found, p.cursor = q.cursor, p.ever = q.ever,
           GoesOn(p) => GoesOn(q), p.answer.tag # "ok",
           p.pc = "done" => p.res # "ok"
    PROVE  Reports(b, p)
<1>1. \A upto : Complete(q, upto) => Complete(p, upto)
  BY CompleteStays
<1>2. Reach(p) = Reach(q)
  BY DEF Reach
<1> QED BY <1>1, <1>2 DEF Reports

(* A call that looks on while the bucket changes.                          *)
LEMMA GrownReports ==
    ASSUME NEW a, NEW b, NEW q, Reports(a, q), NEW p, Grown(q, p),
           GoesOn(q) => \A n \in Uses(q.call) : <<n, b[n]>> \in p.ever
    PROVE  Reports(b, p)
<1>1. /\ p.pc = q.pc /\ p.call = q.call /\ p.answer = q.answer /\ p.res = q.res
      /\ p.found = q.found /\ p.cursor = q.cursor /\ q.ever \subseteq p.ever
  BY GrownFields DEF Grown, Fields
<1>2. /\ \A upto : Complete(q, upto) => Complete(p, upto)
      /\ PageFits(q) => PageFits(p)
      /\ Reach(p) = Reach(q) /\ (GoesOn(p) <=> GoesOn(q))
  BY <1>1, CompleteStays, PageStays DEF Reach, GoesOn, Repeatable
<1> QED BY <1>1, <1>2 DEF Reports

(* The page of the service: what lies between the cursor and the token.    *)
LEMMA ServedPageFits ==
    ASSUME PlainPrefix, Inv, NEW t \in Tasks, ServePage(t), Reports(objects, task[t]),
           NEW p, task'[t] = p, task' = [task EXCEPT ![t] = p], p.answer.tag = "ok",
           p.call = task[t].call, p.cursor = task[t].cursor, p.ever = task[t].ever
    PROVE  PageFits(p)
<1> DEFINE q == task[t]
           after == IF q.cursor = None THEN 0 ELSE Rank(q.cursor)
           match == {i \in after + 1 .. Len(ByteOrder) :
                        /\ objects[ByteOrder[i]] # None
                        /\ StartsWith(ByteOrder[i], ListPrefix(q.call.key))}
<1>0. PICK n \in 0 .. PageLimit(q.call) : \E page \in [1 .. n -> match] :
          LET left == match \ {page[i] : i \in 1 .. n} IN
          /\ \A i, j \in 1 .. n : i < j => page[i] < page[j]
          /\ \A i \in 1 .. n : \A j \in left : page[i] < j
          /\ n = 0 => match = {}
          /\ task' = [task EXCEPT ![t].answer = [tag |-> "ok", value |-> None,
                 names |-> [i \in 1 .. n |-> ByteOrder[page[i]]],
                 token |-> IF left = {} THEN <<>> ELSE ByteOrder[page[n]]]]
  BY DEF ServePage
<1>1. PICK page \in [1 .. n -> match] :
          LET left == match \ {page[i] : i \in 1 .. n} IN
          /\ \A i, j \in 1 .. n : i < j => page[i] < page[j]
          /\ \A i \in 1 .. n : \A j \in left : page[i] < j
          /\ n = 0 => match = {}
          /\ task' = [task EXCEPT ![t].answer = [tag |-> "ok", value |-> None,
                 names |-> [i \in 1 .. n |-> ByteOrder[page[i]]],
                 token |-> IF left = {} THEN <<>> ELSE ByteOrder[page[n]]]]
  BY <1>0
<1> DEFINE left == match \ {page[i] : i \in 1 .. n}
           names == [i \in 1 .. n |-> ByteOrder[page[i]]]
           token == IF left = {} THEN <<>> ELSE ByteOrder[page[n]]
           answer == [tag |-> "ok", value |-> None, names |-> names, token |-> token]
<1>2. p.answer = answer /\ DOMAIN q = Fields /\ q.pc = "wait" /\ q.op = "list"
  <2>1. DOMAIN task = Tasks /\ DOMAIN q = Fields
    BY DEF Inv, Good, Sound
  <2>2. task' = [task EXCEPT ![t].answer = answer]
    BY <1>1
  <2> HIDE DEF answer
  <2>3. task'[t].answer = answer
    BY <2>1, <2>2 DEF Fields
  <2> QED BY <2>1, <2>3 DEF ServePage, Waiting
<1>3. p.answer.names = names /\ p.answer.token = token
  BY <1>2
<1>4. /\ q.call \in Calls /\ q.call.kind \in Lists /\ q.call.key \in Seq(STRING)
      /\ q.call.key # <<>>
  <2>1. q.call \in Calls /\ "list" \in Ops(q.call)
    BY <1>2 DEF Inv, Good, Sound, Busy
  <2>2. q.call.kind \in Kinds
    BY <2>1, CloudStorageAssumption DEF CallType
  <2>3. q.call.kind \in Lists
    BY <2>1, <2>2 DEF Ops, Kinds
  <2> QED BY <2>1, <2>3, CloudStorageAssumption DEF CallType
<1>5. /\ q.cursor \in Names \cup {None}
      /\ \A m \in Uses(q.call) : <<m, objects[m]>> \in q.ever
  BY <1>2, <1>4 DEF Reports, GoesOn, Busy
<1>6. /\ Len(ByteOrder) \in Nat /\ after \in 0 .. Len(ByteOrder)
      /\ Reach(p) = after /\ n \in Nat
  BY <1>5, Ranks, CloudStorageAssumption DEF Reach, PageLimit
<1>7. Uses(q.call) = {m \in Names : StartsWith(m, ListPrefix(q.call.key))}
  <2>1. ListPrefix(q.call.key) = FullKey(q.call.key)
    BY PlainKeys
  <2> HIDE DEF q
  <2> QED BY <1>4, <2>1 DEF Uses
<1>8. objects \in [Names -> Data \cup {None}]
  BY DEF Inv, Bucket
<1>9. \A i \in match : /\ i \in 1 .. Len(ByteOrder) /\ after < i
                       /\ ByteOrder[i] \in Names /\ Rank(ByteOrder[i]) = i
                       /\ Occurred(p, ByteOrder[i])
                       /\ StartsWith(ByteOrder[i], ListPrefix(q.call.key))
                       /\ ByteOrder[i] # <<>>
  <2>1. SUFFICES ASSUME NEW i \in match
                 PROVE  /\ i \in 1 .. Len(ByteOrder) /\ after < i
                        /\ ByteOrder[i] \in Names /\ Rank(ByteOrder[i]) = i
                        /\ Occurred(p, ByteOrder[i])
                        /\ StartsWith(ByteOrder[i], ListPrefix(q.call.key))
                        /\ ByteOrder[i] # <<>>
    OBVIOUS
  <2>2. i \in 1 .. Len(ByteOrder) /\ after < i
    BY <1>6
  <2>3. /\ objects[ByteOrder[i]] # None
        /\ StartsWith(ByteOrder[i], ListPrefix(q.call.key))
    OBVIOUS
  <2> HIDE DEF match, after, q
  <2>4. ByteOrder[i] \in Names /\ Rank(ByteOrder[i]) = i /\ ByteOrder[i] \in Seq(STRING)
    BY <2>2, Ranks
  <2>5. ByteOrder[i] # <<>>
    BY <1>4, <2>3, <2>4, KeysReturn
  <2>6. Occurred(p, ByteOrder[i])
    BY <1>5, <1>7, <1>8, <2>3, <2>4 DEF Occurred, q
  <2> QED BY <2>2, <2>3, <2>4, <2>5, <2>6
<1>10. ASSUME NEW m \in Names, Stayed(p, m), after < Rank(m)
       PROVE  Rank(m) \in match /\ ByteOrder[Rank(m)] = m
  <2>1. Rank(m) \in after + 1 .. Len(ByteOrder) /\ ByteOrder[Rank(m)] = m
    BY <1>6, <1>10, Ranks
  <2>2. m \in Uses(q.call) /\ <<m, None>> \notin q.ever
    BY <1>10 DEF Stayed
  <2>3. objects[m] # None /\ StartsWith(m, ListPrefix(q.call.key))
    BY <1>5, <1>7, <2>2
  <2> QED BY <2>1, <2>3
<1> HIDE DEF match, after, q
<1>11. \A i \in 1 .. n : page[i] \in match /\ page[i] \in Nat
  BY <1>9
<1>12. DOMAIN names = 1 .. n /\ \A i \in 1 .. n : names[i] = ByteOrder[page[i]]
  OBVIOUS
<1>13. names \in Seq(Names)
  BY <1>6, <1>9, <1>11
<1> DEFINE last == IF left = {} THEN Len(ByteOrder) ELSE page[n]
<1>14. /\ End(p) = last /\ after <= last /\ (p.answer.token = <<>> \/ p.answer.token \in Names)
       /\ \A i \in 1 .. n : page[i] <= last
       /\ \A i \in match : i <= last => \E j \in 1 .. n : page[j] = i
  <2>1. CASE left = {}
    <3>1. token = <<>>
      BY <2>1
    <3> QED BY <1>3, <1>6, <1>9, <1>11, <2>1, <3>1 DEF End
  <2>2. CASE left # {}
    <3>1. n \in 1 .. n /\ token = ByteOrder[page[n]]
      BY <1>1, <1>6, <2>2
    <3>2. page[n] \in match
      BY <1>11, <3>1
    <3>3. /\ p.answer.token # <<>> /\ p.answer.token \in Names
          /\ Rank(p.answer.token) = page[n]
      BY <1>3, <1>9, <3>1, <3>2
    <3>6. after <= page[n]
      BY <1>6, <1>9, <1>11, <3>1, <3>2
    <3>4. \A i \in 1 .. n : page[i] <= page[n]
      <4>1. ASSUME NEW i \in 1 .. n PROVE page[i] <= page[n]
        <5>1. i = n \/ i < n
          BY <1>6
        <5> QED BY <1>1, <1>11, <3>1, <5>1
      <4> QED BY <4>1
    <3>5. \A i \in match : i <= page[n] => \E j \in 1 .. n : page[j] = i
      <4>1. ASSUME NEW i \in match, i <= page[n], i \in left PROVE FALSE
        <5>1. page[n] < i
          BY <1>1, <3>1, <4>1
        <5> QED BY <1>9, <1>11, <3>1, <4>1, <5>1
      <4> QED BY <4>1
    <3> QED BY <2>2, <3>3, <3>4, <3>5, <3>6 DEF End
  <2> QED BY <2>1, <2>2
<1> HIDE DEF names, token, answer, left, last
<1>15. ASSUME NEW i \in DOMAIN names
       PROVE  /\ Occurred(p, names[i]) /\ StartsWith(names[i], ListPrefix(p.call.key))
              /\ Reach(p) < Rank(names[i]) /\ Rank(names[i]) <= End(p)
  BY <1>6, <1>9, <1>11, <1>12, <1>14 DEF q
<1>16. ASSUME NEW i \in DOMAIN names, NEW j \in DOMAIN names, i < j
       PROVE  Rank(names[i]) < Rank(names[j])
  BY <1>1, <1>9, <1>11, <1>12, <1>16
<1>17. ASSUME NEW m \in Names, Stayed(p, m), Reach(p) < Rank(m), Rank(m) <= End(p)
       PROVE  \E i \in DOMAIN names : names[i] = m
  <2>1. Rank(m) \in match /\ ByteOrder[Rank(m)] = m
    BY <1>6, <1>10, <1>17
  <2>2. PICK j \in 1 .. n : page[j] = Rank(m)
    BY <1>14, <1>17, <2>1
  <2> QED BY <1>12, <2>1, <2>2
<1> QED BY <1>3, <1>6, <1>13, <1>14, <1>15, <1>16, <1>17 DEF PageFits

LEMMA Joined ==
    ASSUME NEW S, NEW a \in Seq(S), NEW b \in Seq(S)
    PROVE  /\ a \o b \in Seq(S) /\ DOMAIN (a \o b) = 1 .. Len(a) + Len(b)
           /\ DOMAIN a = 1 .. Len(a)
           /\ \A i \in 1 .. Len(a) : (a \o b)[i] = a[i]
           /\ \A i \in 1 .. Len(b) : (a \o b)[Len(a) + i] = b[i]
  OBVIOUS

(* A page that is added: the list is right up to the token.                *)
LEMMA PageCompletes ==
    ASSUME PlainPrefix, NEW q, q.call.key \in Seq(STRING), q.call.key # <<>>,
           q.found \in Seq(Seq(STRING)), q.cursor \in Names \cup {None},
           Complete(q, Reach(q)), PageFits(q),
           NEW p, p.call = q.call, p.ever = q.ever,
           p.found = q.found \o [i \in DOMAIN q.answer.names |->
                                     RelativeKey(q.answer.names[i])]
    PROVE  p.found \in Seq(Seq(STRING)) /\ Complete(p, End(q))
<1> DEFINE names == q.answer.names
           page == [i \in DOMAIN names |-> RelativeKey(names[i])]
           m == Len(q.found)
           n == Len(names)
<1>1. /\ names \in Seq(Names) /\ n \in Nat /\ m \in Nat
      /\ DOMAIN names = 1 .. n
  BY DEF PageFits
<1>2. \A i \in 1 .. n :
          /\ names[i] \in Names /\ names[i] \in Seq(STRING)
          /\ StartsWith(names[i], ListPrefix(q.call.key))
  <2>1. \A i \in 1 .. n : names[i] \in Names
    BY <1>1
  <2>2. \A i \in 1 .. n : StartsWith(names[i], ListPrefix(q.call.key))
    BY <1>1 DEF PageFits
  <2> QED BY <2>1, <2>2, Ranks
<1>3. \A i \in 1 .. n : RelativeKey(names[i]) \in Seq(STRING)
                        /\ FullKey(RelativeKey(names[i])) = names[i]
  BY <1>2, KeysReturn
<1>4. /\ page \in Seq(Seq(STRING)) /\ Len(page) = n
      /\ \A i \in 1 .. n : page[i] = RelativeKey(names[i])
  BY <1>1, <1>3
<1> HIDE DEF page, m, n
<1>5. /\ p.found \in Seq(Seq(STRING)) /\ DOMAIN p.found = 1 .. m + n
      /\ DOMAIN q.found = 1 .. m
      /\ \A i \in 1 .. m : p.found[i] = q.found[i]
      /\ \A i \in 1 .. n : p.found[m + i] = page[i]
  <2>1. p.found = q.found \o page
    BY DEF page
  <2>2. m = Len(q.found)
    BY DEF m
  <2> HIDE DEF names
  <2>3. /\ q.found \o page \in Seq(Seq(STRING))
        /\ DOMAIN (q.found \o page) = 1 .. Len(q.found) + Len(page)
        /\ DOMAIN q.found = 1 .. Len(q.found)
        /\ \A i \in 1 .. Len(q.found) : (q.found \o page)[i] = q.found[i]
        /\ \A i \in 1 .. Len(page) : (q.found \o page)[Len(q.found) + i] = page[i]
    <3>1. q.found \in Seq(Seq(STRING)) /\ page \in Seq(Seq(STRING))
      BY <1>4
    <3> QED BY <3>1, Joined
  <2> QED BY <1>4, <2>1, <2>2, <2>3
<1>6. /\ Reach(q) \in 0 .. Len(ByteOrder) /\ End(q) \in 0 .. Len(ByteOrder)
      /\ Len(ByteOrder) \in Nat
  BY Ranks, CloudStorageAssumption DEF Reach, End, PageFits
<1>7. \A i \in 1 .. m : Place(p, i) = Place(q, i) /\ FullKey(p.found[i]) = FullKey(q.found[i])
                        /\ Place(q, i) \in Nat /\ Place(q, i) <= Reach(q)
  <2>1. SUFFICES ASSUME NEW i \in 1 .. m
                 PROVE  /\ Place(p, i) = Place(q, i)
                        /\ FullKey(p.found[i]) = FullKey(q.found[i])
                        /\ Place(q, i) \in Nat /\ Place(q, i) <= Reach(q)
    OBVIOUS
  <2>2. p.found[i] = q.found[i] /\ i \in DOMAIN q.found
    BY <1>5
  <2>3. FullKey(q.found[i]) \in Names /\ Place(q, i) <= Reach(q)
    BY <2>2 DEF Complete, Occurred
  <2> QED BY <2>2, <2>3, Ranks DEF Place
<1>8. \A i \in 1 .. n : FullKey(p.found[m + i]) = names[i] /\ Place(p, m + i) = Rank(names[i])
  BY <1>3, <1>4, <1>5 DEF Place
<1>9. \A i \in 1 .. n : Rank(names[i]) \in Nat /\ Reach(q) < Rank(names[i])
                        /\ Rank(names[i]) <= End(q)
  <2>1. \A i \in 1 .. n : Reach(q) < Rank(names[i]) /\ Rank(names[i]) <= End(q)
    BY <1>1 DEF PageFits
  <2> QED BY <1>2, <2>1, Ranks
<1>11. \A x : (Occurred(q, x) <=> Occurred(p, x)) /\ (Stayed(p, x) <=> Stayed(q, x))
  BY DEF Occurred, Stayed
<1>12. \A i \in 1 .. m + n : i \in 1 .. m \/ (i - m \in 1 .. n /\ m + (i - m) = i)
  BY <1>1
<1> HIDE DEF names
<1>13. ASSUME NEW i \in 1 .. m + n
       PROVE  Occurred(p, FullKey(p.found[i])) /\ Place(p, i) <= End(q)
  <2>1. CASE i \in 1 .. m
    <3>1. Occurred(q, FullKey(q.found[i]))
      BY <1>5, <2>1 DEF Complete
    <3>2. Place(p, i) <= End(q)
      BY <1>6, <1>7, <2>1 DEF PageFits
    <3> QED BY <1>7, <1>11, <2>1, <3>1, <3>2
  <2>2. CASE i - m \in 1 .. n /\ m + (i - m) = i
    <3>1. Occurred(q, names[i - m])
      BY <1>1, <2>2 DEF PageFits, names
    <3> QED BY <1>8, <1>9, <1>11, <2>2, <3>1
  <2> QED BY <1>12, <2>1, <2>2
<1>14. ASSUME NEW i \in 1 .. m + n, NEW j \in 1 .. m + n, i < j
       PROVE  Place(p, i) < Place(p, j)
  <2>1. CASE i \in 1 .. m /\ j \in 1 .. m
    BY <1>5, <1>7, <1>14, <2>1 DEF Complete
  <2>2. CASE i \in 1 .. m /\ j - m \in 1 .. n /\ m + (j - m) = j
    <3>1. Place(p, i) \in Nat /\ Place(p, i) <= Reach(q)
      BY <1>7, <2>2
    <3>2. Place(p, j) \in Nat /\ Reach(q) < Place(p, j)
      <4>1. Place(p, m + (j - m)) = Rank(names[j - m])
        BY <1>8, <2>2
      <4> QED BY <1>9, <2>2, <4>1
    <3>3. Reach(q) \in Nat
      BY <1>6
    <3> HIDE DEF Place
    <3> QED BY <3>1, <3>2, <3>3
  <2>3. CASE /\ i - m \in 1 .. n /\ m + (i - m) = i
             /\ j - m \in 1 .. n /\ m + (j - m) = j
    <3>1. i - m < j - m
      BY <1>1, <1>14, <2>3
    <3>2. Rank(names[i - m]) < Rank(names[j - m])
      BY <1>1, <2>3, <3>1 DEF PageFits, names
    <3> QED BY <1>8, <2>3, <3>2
  <2>4. ~(j \in 1 .. m /\ ~(i \in 1 .. m))
    BY <1>1, <1>14
  <2> QED BY <1>12, <2>1, <2>2, <2>3, <2>4
<1>15. ASSUME NEW x \in Names, Stayed(p, x), Rank(x) <= End(q)
       PROVE  \E i \in 1 .. m + n : FullKey(p.found[i]) = x
  <2>1. Rank(x) \in Nat /\ Stayed(q, x)
    BY <1>11, <1>15, Ranks
  <2>2. CASE Rank(x) <= Reach(q)
    <3>1. PICK i \in DOMAIN q.found : FullKey(q.found[i]) = x
      BY <2>1, <2>2 DEF Complete
    <3>2. i \in 1 .. m /\ i \in 1 .. m + n
      BY <1>1, <1>5, <3>1
    <3> QED BY <1>7, <3>1, <3>2
  <2>3. CASE Reach(q) < Rank(x)
    <3>1. PICK i \in DOMAIN names : names[i] = x
      BY <1>15, <2>1, <2>3 DEF PageFits, names
    <3>2. i \in 1 .. n /\ m + i \in 1 .. m + n
      BY <1>1, <3>1
    <3> QED BY <1>8, <3>1, <3>2
  <2>4. Rank(x) <= Reach(q) \/ Reach(q) < Rank(x)
    <3>1. Reach(q) \in Nat
      BY <1>6
    <3> QED BY <2>1, <3>1
  <2> QED BY <2>2, <2>3, <2>4
<1> QED BY <1>5, <1>13, <1>14, <1>15 DEF Complete

(* What is known of a task when a step begins.                             *)
LEMMA TaskKnown ==
    ASSUME Inv, NEW t \in Tasks
    PROVE  /\ DOMAIN task = Tasks /\ DOMAIN task[t] = Fields /\ Sound(task[t])
           /\ task[t].pc # "idle" => task[t].call \in Calls
           /\ task[t].pc = "done" => task[t].answer.tag # "ok"
  BY DEF Inv, Good, Sound

LEMMA ListBeginReports ==
    ASSUME Inv, AllReport, NEW t \in Tasks, NEW c \in Calls, Begin(t, c)
    PROVE  Reports(objects, task'[t])
<1> DEFINE ok == Admit(c) = "ok"
           waits == ok /\ NeedsControl(FirstOp(c)) /\ ~control
           p == [Idle EXCEPT
                   !.call = c,
                   !.pc = IF ~ok THEN "done" ELSE IF waits THEN "control" ELSE "wait",
                   !.op = IF ok THEN FirstOp(c) ELSE "none",
                   !.sends = IF ok THEN 1 ELSE 0,
                   !.res = IF ok THEN "none" ELSE Admit(c),
                   !.ever = {<<n, objects[n]>> : n \in Uses(c)},
                   !.orig = IF c.kind \in Lists THEN None ELSE objects[FullKey(c.key)],
                   !.alone = TRUE]
<1>1. task'[t] = p
  BY TaskKnown DEF Begin
<1>2. /\ p.call = c /\ p.answer.tag = "none" /\ p.found = <<>> /\ p.cursor = None
      /\ p.ever = {<<n, objects[n]>> : n \in Uses(c)}
      /\ p.pc = IF ~ok THEN "done" ELSE IF waits THEN "control" ELSE "wait"
  BY DEF Idle, NoAnswer
<1>3. c.kind \in Lists => ok
  BY DEF Lists, Admit
<1>4. <<>> \in Seq(Seq(STRING)) /\ DOMAIN <<>> = {}
  OBVIOUS
<1> HIDE DEF p, ok, waits
<1>5. Complete(p, Reach(p))
  <2>1. Reach(p) = 0
    BY <1>2 DEF Reach
  <2>2. \A n \in Names : ~(Rank(n) <= 0)
    BY Ranks
  <2> QED BY <1>2, <1>4, <2>1, <2>2 DEF Complete
<1> QED BY <1>1, <1>2, <1>3, <1>4, <1>5 DEF Reports

LEMMA ListQuietReports ==
    ASSUME Inv, AllReport, NEW t \in Tasks,
           \/ ControlBuilt(t) \/ ControlThere(t) \/ ControlFails(t)
           \/ Refuse(t) \/ Break(t) \/ Resend(t) \/ Repeat(t)
           \/ \E res \in {"invalid", "storage"} : At(t, "list") /\ Finish(t, res)
    PROVE  Reports(objects, task'[t])
<1> DEFINE q == task[t]
           p == task'[t]
<1>1. /\ DOMAIN task = Tasks /\ DOMAIN q = Fields /\ Sound(q) /\ Reports(objects, q)
      /\ NoAnswer.tag = "none"
  BY TaskKnown DEF AllReport, NoAnswer
<1>2. SUFFICES /\ q.pc # "idle" /\ GoesOn(q) /\ p.call = q.call /\ p.found = q.found
               /\ p.cursor = q.cursor /\ p.ever = q.ever /\ p.answer.tag # "ok"
               /\ p.pc = "done" => p.res # "ok"
  BY <1>1, QuietReports
<1> USE DEF GoesOn, Busy, Fields
<1>3. CASE ControlBuilt(t) \/ ControlThere(t)
  <2>1. q.pc = "control" /\ task' = [task EXCEPT ![t].pc = "wait"]
    BY <1>3 DEF ControlBuilt, ControlThere, Builds
  <2>2. q.answer.tag # "ok"
    BY <1>1, <2>1 DEF Sound
  <2> QED BY <1>1, <2>1, <2>2
<1>4. ASSUME NEW res \in {"config", "invalid", "storage"}, Finish(t, res),
             q.pc \in Busy
      PROVE  /\ q.pc # "idle" /\ GoesOn(q) /\ p.call = q.call /\ p.found = q.found
             /\ p.cursor = q.cursor /\ p.ever = q.ever /\ p.answer.tag # "ok"
             /\ p.pc = "done" => p.res # "ok"
  BY <1>1, <1>4 DEF Finish
<1>5. CASE ControlFails(t)
  BY <1>4, <1>5 DEF ControlFails, Builds
<1>6. CASE \E res \in {"invalid", "storage"} : At(t, "list") /\ Finish(t, res)
  BY <1>4, <1>6 DEF At
<1>7. ASSUME NEW answer, answer.tag # "ok", NEW sends, q.pc = "wait",
             \/ task' = [task EXCEPT ![t].answer = answer]
             \/ task' = [task EXCEPT ![t].answer = answer, ![t].sends = sends]
      PROVE  /\ q.pc # "idle" /\ GoesOn(q) /\ p.call = q.call /\ p.found = q.found
             /\ p.cursor = q.cursor /\ p.ever = q.ever /\ p.answer.tag # "ok"
             /\ p.pc = "done" => p.res # "ok"
  BY <1>1, <1>7
<1>8. CASE Refuse(t)
  <2>1. PICK tag \in Refusals :
            task' = [task EXCEPT ![t].answer = [NoAnswer EXCEPT !.tag = tag]]
    BY <1>8 DEF Refuse
  <2> DEFINE answer == [NoAnswer EXCEPT !.tag = tag]
  <2>2. answer.tag = tag /\ tag # "ok"
    BY CloudStorageAssumption DEF NoAnswer
  <2> HIDE DEF answer
  <2> QED BY <1>7, <1>8, <2>1, <2>2 DEF Refuse, Waiting, answer
<1>9. CASE Break(t)
  <2> DEFINE answer == [NoAnswer EXCEPT !.tag = "broken"]
  <2>1. answer.tag = "broken" /\ task' = [task EXCEPT ![t].answer = answer]
    BY <1>9 DEF Break, NoAnswer
  <2> HIDE DEF answer
  <2> QED BY <1>7, <1>9, <2>1 DEF Break
<1>10. CASE Resend(t)
  <2>1. q.pc = "wait" /\ task' = [task EXCEPT ![t].answer = NoAnswer,
                                              ![t].sends = @ + 1]
    BY <1>10 DEF Resend
  <2>2. p.answer = NoAnswer /\ p.pc = "wait" /\ p.call = q.call /\ p.found = q.found
        /\ p.cursor = q.cursor /\ p.ever = q.ever
    BY <1>1, <2>1
  <2> QED BY <1>1, <2>1, <2>2
<1>11. CASE Repeat(t)
  <2>1. PICK pc \in {"control", "wait"} :
            task' = [task EXCEPT ![t].pc = pc, ![t].op = "list", ![t].sends = 1,
                                 ![t].res = "none"]
    BY <1>11 DEF Repeat
  <2>2. Repeatable(q) /\ q.pc = "done"
    BY <1>11 DEF Repeat, Repeatable
  <2>3. q.answer.tag # "ok"
    BY <1>1, <2>2 DEF Sound
  <2> QED BY <1>1, <2>1, <2>2, <2>3
<1> QED BY <1>3, <1>5, <1>6, <1>8, <1>9, <1>10, <1>11

LEMMA ListServedReports ==
    ASSUME PlainPrefix, Inv, AllReport, NEW t \in Tasks, ServePage(t)
    PROVE  Reports(objects, task'[t])
<1> DEFINE q == task[t]
<1>1. /\ DOMAIN task = Tasks /\ DOMAIN q = Fields /\ Reports(objects, q)
      /\ q.pc = "wait"
  BY TaskKnown DEF AllReport, ServePage, Waiting
<1>2. PICK names, token :
          task' = [task EXCEPT ![t].answer = [tag |-> "ok", value |-> None,
                       names |-> names, token |-> token]]
  BY DEF ServePage
<1> DEFINE answer == [tag |-> "ok", value |-> None, names |-> names, token |-> token]
           p == [q EXCEPT !.answer = answer]
<1>3. answer.tag = "ok"
  OBVIOUS
<1>4. task' = [task EXCEPT ![t] = p] /\ task'[t] = p
  BY <1>1, <1>2
<1> HIDE DEF answer, q
<1>5. /\ p.answer.tag = "ok" /\ p.pc = q.pc /\ p.call = q.call /\ p.found = q.found
      /\ p.cursor = q.cursor /\ p.ever = q.ever
  BY <1>1, <1>3 DEF Fields
<1> HIDE DEF p
<1>6. PageFits(p)
  BY <1>1, <1>4, <1>5, ServedPageFits DEF q
<1>7. \A upto : Complete(q, upto) => Complete(p, upto)
  BY <1>5, CompleteStays
<1>8. Reach(p) = Reach(q) /\ GoesOn(p) /\ GoesOn(q)
  BY <1>1, <1>5 DEF Reach, GoesOn, Busy
<1>9. Reports(objects, p)
  BY <1>1, <1>5, <1>6, <1>7, <1>8 DEF Reports
<1> QED BY <1>4, <1>9

LEMMA ListReceivedReports ==
    ASSUME PlainPrefix, Inv, AllReport, NEW t \in Tasks, ReceivePage(t)
    PROVE  Reports(objects, task'[t])
<1> DEFINE q == task[t]
           page == PageOf(t)
           next == NextCursor(q.answer.token)
           found == q.found \o page
<1>1. /\ DOMAIN task = Tasks /\ DOMAIN q = Fields /\ Reports(objects, q) /\ Sound(q)
      /\ q.pc = "wait" /\ q.op = "list" /\ At(t, "list")
  BY TaskKnown DEF AllReport, ReceivePage, At
<1>2. /\ q.call.kind \in Lists /\ q.call.key \in Seq(STRING) /\ q.call.key # <<>>
  <2>1. q.call \in Calls /\ "list" \in Ops(q.call)
    BY <1>1 DEF Sound, Busy
  <2>2. q.call.kind \in Kinds
    BY <2>1, CloudStorageAssumption DEF CallType
  <2>3. q.call.kind \in Lists
    BY <2>1, <2>2 DEF Ops, Kinds
  <2> QED BY <2>1, <2>3, CloudStorageAssumption DEF CallType
<1>3. \/ \E res \in {"invalid", "storage"} : Finish(t, res)
      \/ /\ q.answer.tag = "ok" /\ next # None
         /\ task' = [task EXCEPT ![t].found = found, ![t].cursor = next,
                       ![t].answer = NoAnswer, ![t].sends = 1]
      \/ /\ q.answer.tag = "ok" /\ next = None
         /\ task' = [task EXCEPT ![t].found = found, ![t].cursor = None,
                       ![t].answer = NoAnswer, ![t].sends = 0,
                       ![t].pc = "done", ![t].op = "none", ![t].res = "ok"]
  BY DEF ReceivePage, Answered
<1>4. found = q.found \o [i \in DOMAIN q.answer.names |->
                              RelativeKey(q.answer.names[i])]
  BY DEF PageOf
<1>5. NoAnswer.tag = "none"
  BY DEF NoAnswer
<1> HIDE DEF found, page, next
<1>6. ASSUME q.answer.tag = "ok", NEW p, p.call = q.call, p.ever = q.ever,
             p.found = found
      PROVE  p.found \in Seq(Seq(STRING)) /\ Complete(p, End(q))
  <2>1. /\ q.found \in Seq(Seq(STRING)) /\ q.cursor \in Names \cup {None}
        /\ Complete(q, Reach(q)) /\ PageFits(q)
    BY <1>1, <1>2, <1>6 DEF Reports, GoesOn, Busy
  <2> QED BY <1>2, <1>4, <1>6, <2>1, PageCompletes
<1>7. q.answer.tag = "ok" =>
          /\ \A n \in Uses(q.call) : <<n, objects[n]>> \in q.ever
          /\ next = None => End(q) = Len(ByteOrder)
          /\ next # None => next \in Names /\ End(q) = Rank(next)
  <2>1. ASSUME q.answer.tag = "ok"
        PROVE  /\ PageFits(q)
               /\ \A n \in Uses(q.call) : <<n, objects[n]>> \in q.ever
    BY <1>1, <1>2, <2>1 DEF Reports, GoesOn, Busy
  <2> QED BY <2>1, CloudStorageAssumption DEF PageFits, End, NextCursor, next
<1>8. CASE \E res \in {"invalid", "storage"} : Finish(t, res)
  BY <1>1, <1>8, ListQuietReports
<1>9. CASE /\ q.answer.tag = "ok" /\ next # None
           /\ task' = [task EXCEPT ![t].found = found, ![t].cursor = next,
                         ![t].answer = NoAnswer, ![t].sends = 1]
  <2> DEFINE p == [q EXCEPT !.found = found, !.cursor = next,
                            !.answer = NoAnswer, !.sends = 1]
  <2>1. task'[t] = p
    BY <1>1, <1>9 DEF Fields
  <2> HIDE DEF q
  <2>2. /\ p.call = q.call /\ p.ever = q.ever /\ p.found = found /\ p.cursor = next
        /\ p.answer = NoAnswer /\ p.pc = q.pc
    BY <1>1 DEF Fields
  <2> HIDE DEF p
  <2>3. p.found \in Seq(Seq(STRING)) /\ Complete(p, End(q))
    BY <1>6, <1>9, <2>2
  <2>4. Reach(p) = End(q)
    BY <1>7, <1>9, <2>2, CloudStorageAssumption DEF Reach
  <2>5. Reports(objects, p)
    BY <1>1, <1>5, <1>7, <1>9, <2>2, <2>3, <2>4 DEF Reports
  <2> QED BY <2>1, <2>5
<1>10. CASE /\ q.answer.tag = "ok" /\ next = None
            /\ task' = [task EXCEPT ![t].found = found, ![t].cursor = None,
                         ![t].answer = NoAnswer, ![t].sends = 0,
                         ![t].pc = "done", ![t].op = "none", ![t].res = "ok"]
  <2> DEFINE p == [q EXCEPT !.found = found, !.cursor = None, !.answer = NoAnswer,
                            !.sends = 0, !.pc = "done", !.op = "none", !.res = "ok"]
  <2>1. task'[t] = p
    BY <1>1, <1>10 DEF Fields
  <2> HIDE DEF q
  <2>2. /\ p.call = q.call /\ p.ever = q.ever /\ p.found = found /\ p.cursor = None
        /\ p.answer = NoAnswer /\ p.pc = "done" /\ p.res = "ok"
    BY <1>1 DEF Fields
  <2> HIDE DEF p
  <2>3. p.found \in Seq(Seq(STRING)) /\ Complete(p, Len(ByteOrder))
    BY <1>6, <1>7, <1>10, <2>2
  <2>4. ~GoesOn(p)
    BY <2>2 DEF GoesOn, Busy, Repeatable
  <2>5. Reports(objects, p)
    BY <1>5, <2>2, <2>3, <2>4 DEF Reports
  <2> QED BY <2>1, <2>5
<1> QED BY <1>3, <1>8, <1>9, <1>10

(* The answers about single names are none of a list's business.           *)
LEMMA SingleReports ==
    ASSUME Inv, NEW t \in Tasks,
           \/ ReceivePut(t) \/ ReceiveGet(t) \/ ReceiveHead(t)
           \/ ReceiveCopy(t) \/ ReceiveDelete(t)
    PROVE  Reports(objects, task'[t])
<1>1. DOMAIN task = Tasks /\ DOMAIN task[t] = Fields
  BY TaskKnown
<1>2. task[t].pc = "wait" /\ task[t].op # "list"
  BY DEF ReceivePut, ReceiveGet, ReceiveHead, ReceiveCopy, ReceiveDelete, At
<1>3. task[t].call.kind \notin Lists
  BY <1>2, CallAt DEF Inv
<1>4. ASSUME NEW res, Finish(t, res) PROVE task'[t].call = task[t].call
  BY <1>1, <1>4 DEF Finish, Fields
<1>5. ASSUME NEW op, Send(t, op) PROVE task'[t].call = task[t].call
  BY <1>1, <1>5 DEF Send, Fields
<1>6. CASE ReceiveGet(t)
  <2> DEFINE value == task[t].answer.value
  <2>1. \/ \E res : Finish(t, res)
        \/ task' = [task EXCEPT ![t].pc = "done", ![t].res = "ok",
                       ![t].op = "none", ![t].sends = 0, ![t].answer = NoAnswer,
                       ![t].value = value]
    BY <1>6 DEF ReceiveGet
  <2> HIDE DEF value
  <2>2. task'[t].call = task[t].call
    BY <1>1, <1>4, <2>1 DEF Fields
  <2> QED BY <1>3, <2>2 DEF Reports
<1>7. CASE ReceivePut(t) \/ ReceiveHead(t) \/ ReceiveCopy(t) \/ ReceiveDelete(t)
  <2>1. task'[t].call = task[t].call
    BY <1>4, <1>5, <1>7 DEF ReceivePut, ReceiveHead, ReceiveCopy, ReceiveDelete
  <2> QED BY <1>3, <2>1 DEF Reports
<1> QED BY <1>6, <1>7

(* While a request is executed, a list looks on.                           *)
LEMMA OthersReport ==
    ASSUME Inv, AllReport, NEW ts, NEW objs, NEW owner, NEW u \in Tasks,
           ts[u] = task[u]
    PROVE  Reports(objs, Observed(ts, objs, owner)[u])
<1>1. Sound(ts[u]) /\ Reports(objects, ts[u])
  BY TaskKnown DEF AllReport
<1> QED BY <1>1, ObservedRecord, GrownReports DEF GoesOn

LEMMA ReportStep ==
    ASSUME PlainPrefix, Inv, AllReport, [Next]_vars PROVE AllReport'
<1>1. CASE UNCHANGED vars
  BY <1>1 DEF vars, AllReport
<1>2. CASE ServeLate
  <2>1. task' = Observed(task, objects', None)
    BY <1>2 DEF ServeLate
  <2> QED BY <2>1, OthersReport DEF AllReport
<1>3. ASSUME NEW t \in Tasks, Serve(t) PROVE AllReport'
  <2> DEFINE ts == [task EXCEPT ![t].answer = Outcome(Request(t))]
  <2>1. task' = Observed(ts, objects', t) /\ task[t].pc = "wait" /\ task[t].op # "list"
    BY <1>3 DEF Serve, Waiting, Request
  <2>2. \A u \in Tasks \ {t} : Reports(objects', Observed(ts, objects', t)[u])
    <3>1. \A u \in Tasks \ {t} : ts[u] = task[u]
      OBVIOUS
    <3> HIDE DEF ts
    <3> QED BY <3>1, OthersReport
  <2>3. Reports(objects', Observed(ts, objects', t)[t])
    <3>1. task[t].call.kind \notin Lists
      BY <2>1, CallAt DEF Inv
    <3>2. ts[t].call = task[t].call
      BY TaskKnown DEF Fields
    <3>3. Observed(ts, objects', t)[t].call = ts[t].call
      <4>1. \A z : DOMAIN z = Fields => \A e, a :
                [z EXCEPT !.ever = e, !.alone = a].call = z.call
        BY DEF Fields
      <4>2. DOMAIN ts[t] = Fields
        BY TaskKnown
      <4> HIDE DEF ts
      <4> QED BY <4>1, <4>2 DEF Observed
    <3> QED BY <3>1, <3>2, <3>3 DEF Reports
  <2> QED BY <2>1, <2>2, <2>3 DEF AllReport
<1>4. ASSUME NEW t \in Tasks, Private(t), Reports(objects, task'[t]) PROVE AllReport'
  BY <1>4 DEF Private, AllReport
<1>5. ASSUME NEW t \in Tasks, NEW c \in Calls, Begin(t, c) PROVE AllReport'
  BY <1>4, <1>5, BeginStep, ListBeginReports
<1>6. ASSUME NEW t \in Tasks,
             \/ ControlBuilt(t) \/ ControlThere(t)
             \/ Refuse(t) \/ Break(t) \/ Resend(t)
      PROVE  AllReport'
  BY <1>4, <1>6, WaySteps, ListQuietReports
<1>7. ASSUME NEW t \in Tasks, ControlFails(t) PROVE AllReport'
  BY <1>4, <1>7, EndSteps, ListQuietReports
<1>8. ASSUME NEW t \in Tasks, Return(t) \/ Cancel(t) PROVE AllReport'
  <2>1. task'[t] = Idle
    BY <1>8, TaskKnown DEF Return, Cancel
  <2>2. Reports(objects, task'[t])
    BY <2>1 DEF Reports, Idle
  <2> QED BY <1>4, <1>8, <2>2, EndSteps
<1>9. ASSUME NEW t \in Tasks, ServePage(t) PROVE AllReport'
  BY <1>4, <1>9, PageSteps, ListServedReports
<1>10. ASSUME NEW t \in Tasks, ReceivePage(t) PROVE AllReport'
  BY <1>4, <1>10, PageSteps, ListReceivedReports
<1>11. ASSUME NEW t \in Tasks, Repeat(t) PROVE AllReport'
  BY <1>4, <1>11, PageSteps, ListQuietReports
<1>12. ASSUME NEW t \in Tasks,
              \/ ReceivePut(t) \/ ReceiveGet(t) \/ ReceiveHead(t)
              \/ ReceiveCopy(t) \/ ReceiveDelete(t)
       PROVE  AllReport'
  BY <1>4, <1>12, SingleReports, ReceivePutStep, ReceiveGetStep, ReceiveHeadStep,
     ReceiveCopyStep, ReceiveDeleteStep
<1> QED BY <1>1, <1>2, <1>3, <1>5, <1>6, <1>7, <1>8, <1>9, <1>10, <1>11, <1>12
        DEF Next, Progress, Receive

(* A list that answers Ok, and all pages together, report every object     *)
(* that was there all the time, once and in order, and nothing that was    *)
(* never there: with a bucket that changes between the pages, pages of any *)
(* size and pages that fail and are asked for again (list_page of s3.rs,   *)
(* gcs.rs and azure.rs, list of storage.rs).  The path prefix must not end *)
(* in a slash: with one, nothing is found.                                 *)
THEOREM ListAlwaysReportsEveryObject ==
    ASSUME PlainPrefix PROVE Spec => []ListReportsEveryObject
<1>1. Init => AllReport
  <2>1. ASSUME Init, NEW t \in Tasks PROVE Reports(objects, task[t])
    BY <2>1 DEF Init, Reports, Idle
  <2> QED BY <2>1 DEF AllReport
<1>2. Inv /\ AllReport /\ [Next]_vars => AllReport'
  BY ReportStep
<1>3. AllReport => ListReportsEveryObject
  <2>1. SUFFICES ASSUME AllReport, NEW t \in Tasks,
                        task[t].pc = "done", task[t].call.kind \in Lists,
                        task[t].res = "ok"
                 PROVE  LET k == task[t]
                            name(i) == FullKey(k.found[i])
                        IN
                        /\ \A n \in Uses(k.call) : <<n, None>> \notin k.ever =>
                               \E i \in DOMAIN k.found : name(i) = n
                        /\ \A i \in DOMAIN k.found :
                               \E d \in Data : <<name(i), d>> \in k.ever
                        /\ \A i, j \in DOMAIN k.found :
                               i < j => Rank(name(i)) < Rank(name(j))
    BY DEF ListReportsEveryObject
  <2>2. Complete(task[t], Len(ByteOrder))
    BY <2>1 DEF AllReport, Reports
  <2>3. \A n \in Uses(task[t].call) : n \in Names /\ Rank(n) <= Len(ByteOrder)
    <3>1. Uses(task[t].call) \subseteq Names
      BY <2>1 DEF Uses
    <3> QED BY <3>1, Ranks
  <2> QED BY <2>2, <2>3 DEF Complete, Stayed, Occurred, Place
<1> QED BY <1>1, <1>2, <1>3, InvAlwaysHolds, PTL DEF Spec

-----------------------------------------------------------------------------
(* Types                                                                   *)

Keys == {RelativeKey(n) : n \in Names}

PageTyped(a) == a.names \in Seq(Names) /\ a.token \in Names \cup {<<>>}

Shaped(k) ==
    /\ k.pc \in Busy <=> k.op # "none"
    /\ k.value \in Data \cup {None} /\ k.cursor \in Names \cup {None}
    /\ k.sends \in 0 .. MaxSends
    /\ k.answer.value \in Data \cup {None}
    /\ k.op = "list" /\ k.answer.tag = "ok" => PageTyped(k.answer)
    /\ k.pc # "idle" /\ k.call.kind \in Lists => k.found \in Seq(Keys)
    /\ k.pc # "idle" /\ k.call.kind = "list" => Len(k.found) <= MaxItems

Typed ==
    /\ control \in BOOLEAN
    /\ IsFiniteSet(late) /\ Cardinality(late) <= MaxLate
    /\ \A t \in Tasks : Shaped(task[t])

(* A record that keeps its call and what a list has found.                 *)
LEMMA ShapeStays ==
    ASSUME NEW q, Shaped(q), q.pc # "idle", NEW p, p.pc # "idle", p.call = q.call,
           p.found = q.found, p.cursor = q.cursor,
           p.pc \in Busy <=> p.op # "none",
           p.value \in Data \cup {None}, p.sends \in 0 .. MaxSends,
           p.answer.value \in Data \cup {None},
           p.op = "list" /\ p.answer.tag = "ok" => PageTyped(p.answer)
    PROVE  Shaped(p)
  BY DEF Shaped

LEMMA NoAnswerTyped ==
    /\ NoAnswer.tag = "none" /\ NoAnswer.value = None
    /\ \A tag : /\ [NoAnswer EXCEPT !.tag = tag].tag = tag
                /\ [NoAnswer EXCEPT !.tag = tag].value = None
  BY DEF NoAnswer

LEMMA BeginShaped ==
    ASSUME Inv, NEW t \in Tasks, NEW c \in Calls, Begin(t, c)
    PROVE  Shaped(task'[t])
<1> DEFINE ok == Admit(c) = "ok"
           waits == ok /\ NeedsControl(FirstOp(c)) /\ ~control
           p == [Idle EXCEPT
                   !.call = c,
                   !.pc = IF ~ok THEN "done" ELSE IF waits THEN "control" ELSE "wait",
                   !.op = IF ok THEN FirstOp(c) ELSE "none",
                   !.sends = IF ok THEN 1 ELSE 0,
                   !.res = IF ok THEN "none" ELSE Admit(c),
                   !.ever = {<<n, objects[n]>> : n \in Uses(c)},
                   !.orig = IF c.kind \in Lists THEN None ELSE objects[FullKey(c.key)],
                   !.alone = TRUE]
<1>1. task'[t] = p
  BY TaskKnown DEF Begin
<1>2. /\ p.call = c /\ p.answer = NoAnswer /\ p.found = <<>> /\ p.cursor = None
      /\ p.value = None /\ p.sends = (IF ok THEN 1 ELSE 0)
      /\ p.pc = IF ~ok THEN "done" ELSE IF waits THEN "control" ELSE "wait"
      /\ p.op = IF ok THEN FirstOp(c) ELSE "none"
  BY DEF Idle
<1>3. c.kind \in Kinds
  BY CloudStorageAssumption DEF CallType
<1>4. FirstOp(c) # "none"
  BY <1>3 DEF FirstOp, Kinds
<1>5. <<>> \in Seq(Keys) /\ Len(<<>>) = 0
  OBVIOUS
<1> HIDE DEF p, ok, waits
<1> QED BY <1>1, <1>2, <1>4, <1>5, NoAnswerTyped, CloudStorageAssumption DEF Shaped, Busy

LEMMA ServePageShaped ==
    ASSUME Inv, Typed, NEW t \in Tasks, ServePage(t) PROVE Shaped(task'[t])
<1> DEFINE q == task[t]
           after == IF q.cursor = None THEN 0 ELSE Rank(q.cursor)
           match == {i \in after + 1 .. Len(ByteOrder) :
                        /\ objects[ByteOrder[i]] # None
                        /\ StartsWith(ByteOrder[i], ListPrefix(q.call.key))}
<1>1. /\ DOMAIN task = Tasks /\ DOMAIN q = Fields /\ Shaped(q) /\ q.pc = "wait"
      /\ q.op = "list"
  BY TaskKnown DEF Typed, ServePage, Waiting
<1>2. PICK n \in 0 .. PageLimit(q.call) : \E page \in [1 .. n -> match] :
          LET left == match \ {page[i] : i \in 1 .. n} IN
          /\ n = 0 => match = {}
          /\ task' = [task EXCEPT ![t].answer = [tag |-> "ok", value |-> None,
                 names |-> [i \in 1 .. n |-> ByteOrder[page[i]]],
                 token |-> IF left = {} THEN <<>> ELSE ByteOrder[page[n]]]]
  BY DEF ServePage
<1>3. PICK page \in [1 .. n -> match] :
          LET left == match \ {page[i] : i \in 1 .. n} IN
          /\ n = 0 => match = {}
          /\ task' = [task EXCEPT ![t].answer = [tag |-> "ok", value |-> None,
                 names |-> [i \in 1 .. n |-> ByteOrder[page[i]]],
                 token |-> IF left = {} THEN <<>> ELSE ByteOrder[page[n]]]]
  BY <1>2
<1> DEFINE left == match \ {page[i] : i \in 1 .. n}
           names == [i \in 1 .. n |-> ByteOrder[page[i]]]
           token == IF left = {} THEN <<>> ELSE ByteOrder[page[n]]
           answer == [tag |-> "ok", value |-> None, names |-> names, token |-> token]
           p == [q EXCEPT !.answer = answer]
<1>4. n \in Nat /\ after \in Nat
  BY <1>1, Ranks DEF Shaped
<1>5. \A i \in match : ByteOrder[i] \in Names
  <2>1. \A i \in match : i \in 1 .. Len(ByteOrder)
    BY <1>4, Ranks
  <2> QED BY <2>1, Ranks
<1> HIDE DEF match
<1>6. names \in Seq(Names)
  BY <1>4, <1>5
<1>7. token \in Names \cup {<<>>}
  <2>1. left # {} => n \in 1 .. n
    BY <1>3, <1>4
  <2> QED BY <1>5, <2>1
<1>8. task'[t] = p
  BY <1>1, <1>3
<1> HIDE DEF names, token
<1>9. /\ answer.value = None /\ answer.names = names /\ answer.token = token
  OBVIOUS
<1> HIDE DEF answer, q
<1>10. /\ p.answer = answer /\ p.pc = q.pc /\ p.call = q.call /\ p.found = q.found
       /\ p.cursor = q.cursor /\ p.op = q.op /\ p.value = q.value /\ p.sends = q.sends
  BY <1>1 DEF Fields
<1> HIDE DEF p
<1>11. PageTyped(p.answer)
  BY <1>6, <1>7, <1>9, <1>10 DEF PageTyped
<1>12. Shaped(p)
  BY <1>1, <1>9, <1>10, <1>11 DEF Shaped
<1> QED BY <1>8, <1>12

LEMMA ReceivePageShaped ==
    ASSUME Inv, Typed, NEW t \in Tasks, ReceivePage(t) PROVE Shaped(task'[t])
<1> DEFINE q == task[t]
           page == PageOf(t)
           next == NextCursor(q.answer.token)
           found == q.found \o page
<1>1. /\ DOMAIN task = Tasks /\ DOMAIN q = Fields /\ Shaped(q) /\ Sound(q)
      /\ q.pc = "wait" /\ q.op = "list" /\ q.call.kind \in Lists
  <2>1. q.pc = "wait" /\ q.op = "list" /\ Sound(q)
    BY TaskKnown DEF ReceivePage, At
  <2>2. q.call \in Calls /\ "list" \in Ops(q.call)
    BY <2>1 DEF Sound, Busy
  <2>3. q.call.kind \in Kinds
    BY <2>2, CloudStorageAssumption DEF CallType
  <2> QED BY <2>1, <2>2, <2>3, TaskKnown DEF Typed, Ops, Kinds
<1>2. \/ \E res : Finish(t, res)
      \/ /\ q.answer.tag = "ok"
         /\ q.call.kind = "pages" \/ Len(q.found) + Len(page) <= MaxItems
         /\ \/ /\ next # None
               /\ task' = [task EXCEPT ![t].found = found, ![t].cursor = next,
                              ![t].answer = NoAnswer, ![t].sends = 1]
            \/ task' = [task EXCEPT ![t].found = found, ![t].cursor = None,
                           ![t].answer = NoAnswer, ![t].sends = 0,
                           ![t].pc = "done", ![t].op = "none", ![t].res = "ok"]
  BY DEF ReceivePage, Answered
<1>3. ASSUME NEW res, Finish(t, res) PROVE Shaped(task'[t])
  <2> DEFINE p == task'[t]
  <2>1. /\ p.pc = "done" /\ p.op = "none" /\ p.answer = NoAnswer /\ p.sends = 0
        /\ p.call = q.call /\ p.found = q.found /\ p.cursor = q.cursor
        /\ p.value = q.value
    BY <1>1, <1>3 DEF Finish, Fields
  <2> HIDE DEF p, q
  <2>2. Shaped(p)
    BY <1>1, <2>1, NoAnswerTyped, CloudStorageAssumption DEF Shaped, Busy
  <2> QED BY <2>2 DEF p
<1>4. CASE /\ q.answer.tag = "ok"
           /\ q.call.kind = "pages" \/ Len(q.found) + Len(page) <= MaxItems
           /\ \/ /\ next # None
                 /\ task' = [task EXCEPT ![t].found = found, ![t].cursor = next,
                                ![t].answer = NoAnswer, ![t].sends = 1]
              \/ task' = [task EXCEPT ![t].found = found, ![t].cursor = None,
                             ![t].answer = NoAnswer, ![t].sends = 0,
                             ![t].pc = "done", ![t].op = "none", ![t].res = "ok"]
  <2> DEFINE p == task'[t]
  <2>1. q.answer.names \in Seq(Names) /\ q.answer.token \in Names \cup {<<>>}
    BY <1>1, <1>4 DEF Shaped, PageTyped
  <2>2. page \in Seq(Keys)
    <3> DEFINE names == q.answer.names
    <3>1. page = [i \in DOMAIN names |-> RelativeKey(names[i])]
      BY DEF PageOf
    <3>2. DOMAIN names = 1 .. Len(names) /\ \A i \in 1 .. Len(names) : names[i] \in Names
      BY <2>1
    <3>3. Len(names) \in Nat
      BY <2>1
    <3> HIDE DEF names, page
    <3>4. \A i \in 1 .. Len(names) : RelativeKey(names[i]) \in Keys
      BY <3>2 DEF Keys
    <3> QED BY <3>1, <3>2, <3>3, <3>4
  <2>3. q.found \in Seq(Keys)
    BY <1>1 DEF Shaped
  <2>4. found \in Seq(Keys) /\ Len(found) = Len(q.found) + Len(page)
    <3> HIDE DEF page, q
    <3> QED BY <2>2, <2>3
  <2>5. next \in Names \cup {None}
    BY <2>1 DEF NextCursor
  <2> HIDE DEF found, page, next
  <2>6. /\ p.answer = NoAnswer /\ p.call = q.call /\ p.found = found /\ p.value = q.value
        /\ \/ /\ p.cursor = next /\ p.sends = 1 /\ p.pc = q.pc /\ p.op = q.op
           \/ /\ p.cursor = None /\ p.sends = 0 /\ p.pc = "done" /\ p.op = "none"
    BY <1>1, <1>4 DEF Fields
  <2>7. q.call.kind = "list" => Len(found) <= MaxItems
    BY <1>4, <2>4
  <2> HIDE DEF p, q
  <2>8. Shaped(p)
    BY <1>1, <2>4, <2>5, <2>6, <2>7, NoAnswerTyped, CloudStorageAssumption DEF Shaped, Busy
  <2> QED BY <2>8 DEF p
<1> QED BY <1>2, <1>3, <1>4

(* All other steps of a call that do not touch the bucket.                 *)
LEMMA WayShaped ==
    ASSUME Inv, Typed, NEW t \in Tasks,
           \/ ControlBuilt(t) \/ ControlThere(t) \/ ControlFails(t)
           \/ Refuse(t) \/ Break(t) \/ Resend(t) \/ Repeat(t)
           \/ ReceivePut(t) \/ ReceiveGet(t) \/ ReceiveHead(t)
           \/ ReceiveCopy(t) \/ ReceiveDelete(t)
    PROVE  Shaped(task'[t])
<1> DEFINE q == task[t]
           p == task'[t]
           Same4 == /\ p.call = q.call /\ p.found = q.found /\ p.cursor = q.cursor
                    /\ q.pc # "idle"
<1> SUFFICES Shaped(p)
  OBVIOUS
<1>1. /\ DOMAIN task = Tasks /\ DOMAIN q = Fields /\ Shaped(q) /\ Sound(q)
      /\ MaxSends \in Nat \ {0}
  BY TaskKnown, CloudStorageAssumption DEF Typed
<1>2. CASE ControlBuilt(t) \/ ControlThere(t)
  <2>1. q.pc = "control" /\ task' = [task EXCEPT ![t].pc = "wait"]
    BY <1>2 DEF ControlBuilt, ControlThere, Builds
  <2>2. /\ Same4 /\ p.pc = "wait" /\ p.op = q.op /\ p.value = q.value
        /\ p.sends = q.sends /\ p.answer = q.answer
    BY <1>1, <2>1 DEF Fields
  <2> HIDE DEF p, q
  <2> QED BY <1>1, <2>1, <2>2, ShapeStays DEF Shaped, Busy
<1>3. ASSUME NEW res, Finish(t, res), q.pc # "idle" PROVE Shaped(p)
  <2>1. /\ Same4 /\ p.pc = "done" /\ p.op = "none" /\ p.answer = NoAnswer
        /\ p.sends = 0 /\ p.value = q.value
    BY <1>1, <1>3 DEF Finish, Fields
  <2> HIDE DEF p, q
  <2> QED BY <1>1, <2>1, ShapeStays, NoAnswerTyped DEF Shaped, Busy
<1>4. ASSUME NEW op, op \notin {"none", "list"}, Send(t, op), q.pc = "wait"
      PROVE  Shaped(p)
  <2>1. /\ Same4 /\ p.pc = "wait" /\ p.op = op /\ p.answer = NoAnswer
        /\ p.sends = 1 /\ p.value = q.value
    BY <1>1, <1>4 DEF Send, Fields
  <2> HIDE DEF p, q
  <2> QED BY <1>1, <1>4, <2>1, ShapeStays, NoAnswerTyped DEF Shaped, Busy
<1>5. ASSUME NEW answer, answer.value = None, answer.tag # "ok", q.pc = "wait",
             \/ task' = [task EXCEPT ![t].answer = answer]
             \/ /\ task' = [task EXCEPT ![t].answer = answer, ![t].sends = q.sends + 1]
                /\ q.sends < MaxSends
      PROVE  Shaped(p)
  <2>1. /\ Same4 /\ p.pc = q.pc /\ p.op = q.op /\ p.answer = answer
        /\ p.sends = q.sends \/ (p.sends = q.sends + 1 /\ q.sends < MaxSends)
        /\ p.value = q.value
    BY <1>1, <1>5 DEF Fields
  <2> HIDE DEF p, q
  <2>2. p.sends \in 0 .. MaxSends
    BY <1>1, <2>1 DEF Shaped
  <2> QED BY <1>1, <1>5, <2>1, <2>2, ShapeStays DEF Shaped, Busy
<1>6. CASE Refuse(t)
  <2>1. PICK tag \in Refusals :
            task' = [task EXCEPT ![t].answer = [NoAnswer EXCEPT !.tag = tag]]
    BY <1>6 DEF Refuse
  <2> DEFINE answer == [NoAnswer EXCEPT !.tag = tag]
  <2>2. answer.value = None /\ answer.tag # "ok"
    BY NoAnswerTyped, CloudStorageAssumption
  <2>3. q.pc = "wait" /\ task' = [task EXCEPT ![t].answer = answer]
    BY <1>6, <2>1 DEF Refuse, Waiting
  <2> HIDE DEF answer, p
  <2> QED BY <1>5, <2>2, <2>3
<1>7. CASE Break(t)
  <2> DEFINE answer == [NoAnswer EXCEPT !.tag = "broken"]
  <2>1. answer.value = None /\ answer.tag # "ok"
    BY NoAnswerTyped
  <2>2. q.pc = "wait" /\ task' = [task EXCEPT ![t].answer = answer]
    BY <1>7 DEF Break
  <2> HIDE DEF answer, p
  <2> QED BY <1>5, <2>1, <2>2
<1>8. CASE Resend(t)
  <2>1. /\ q.pc = "wait" /\ q.sends < MaxSends
        /\ task' = [task EXCEPT ![t].answer = NoAnswer, ![t].sends = q.sends + 1]
    BY <1>1, <1>8 DEF Resend, Fields
  <2> HIDE DEF p
  <2> QED BY <1>5, <2>1, NoAnswerTyped
<1>9. CASE Repeat(t)
  <2>1. PICK pc \in {"control", "wait"} :
            task' = [task EXCEPT ![t].pc = pc, ![t].op = "list", ![t].sends = 1,
                                 ![t].res = "none"]
    BY <1>9 DEF Repeat
  <2>2. q.pc = "done" /\ q.answer.tag = "none"
    BY <1>1, <1>9 DEF Repeat, Repeatable, Sound
  <2>3. /\ Same4 /\ p.pc \in {"control", "wait"} /\ p.op = "list" /\ p.answer = q.answer
        /\ p.sends = 1 /\ p.value = q.value
    BY <1>1, <2>1, <2>2 DEF Fields
  <2> HIDE DEF p, q
  <2> QED BY <1>1, <2>2, <2>3, ShapeStays DEF Shaped, Busy
<1>10. CASE ReceiveGet(t)
  <2> DEFINE value == q.answer.value
  <2>1. \/ \E res : Finish(t, res)
        \/ task' = [task EXCEPT ![t].pc = "done", ![t].res = "ok",
                       ![t].op = "none", ![t].sends = 0, ![t].answer = NoAnswer,
                       ![t].value = value]
    BY <1>10 DEF ReceiveGet
  <2>2. q.pc = "wait" /\ value \in Data \cup {None}
    BY <1>1, <1>10 DEF ReceiveGet, At, Shaped
  <2>3. ASSUME task' = [task EXCEPT ![t].pc = "done", ![t].res = "ok",
                       ![t].op = "none", ![t].sends = 0, ![t].answer = NoAnswer,
                       ![t].value = value]
        PROVE  Shaped(p)
    <3> HIDE DEF value
    <3>1. /\ Same4 /\ p.pc = "done" /\ p.op = "none" /\ p.answer = NoAnswer
          /\ p.sends = 0 /\ p.value = value
      BY <1>1, <2>2, <2>3 DEF Fields
    <3> HIDE DEF p, q
    <3> QED BY <1>1, <2>2, <3>1, ShapeStays, NoAnswerTyped DEF Busy
  <2> QED BY <1>3, <2>1, <2>2, <2>3
<1>11. CASE ControlFails(t)
  BY <1>3, <1>11 DEF ControlFails, Builds
<1>12. CASE ReceivePut(t) \/ ReceiveDelete(t) \/ ReceiveHead(t) \/ ReceiveCopy(t)
  <2>1. q.pc = "wait"
    BY <1>12 DEF ReceivePut, ReceiveDelete, ReceiveHead, ReceiveCopy, At
  <2>2. \/ \E res : Finish(t, res)
        \/ Send(t, "delete") \/ Send(t, "head")
    BY <1>12 DEF ReceivePut, ReceiveDelete, ReceiveHead, ReceiveCopy
  <2> QED BY <1>3, <1>4, <2>1, <2>2
<1> QED BY <1>2, <1>6, <1>7, <1>8, <1>9, <1>10, <1>11, <1>12

(* Requests without a caller: one more below the bound, or one fewer.      *)
LEMMA LateStep ==
    ASSUME Typed, [Next]_vars
    PROVE  IsFiniteSet(late') /\ Cardinality(late') <= MaxLate
<1>1. IsFiniteSet(late) /\ Cardinality(late) <= MaxLate /\ Cardinality(late) \in Nat
  BY FS_CardinalityType DEF Typed
<1>2. CASE late' = late
  BY <1>1, <1>2
<1>3. ASSUME NEW r, Cardinality(late) < MaxLate, late' = late \cup {r}
      PROVE  IsFiniteSet(late') /\ Cardinality(late') <= MaxLate
  <2>1. r \in late => late' = late
    BY <1>3
  <2>2. /\ IsFiniteSet(late \cup {r})
        /\ r \in late \/ Cardinality(late \cup {r}) = Cardinality(late) + 1
    BY <1>1, FS_AddElement
  <2>3. MaxLate \in Nat
    BY CloudStorageAssumption
  <2> QED BY <1>1, <1>3, <2>1, <2>2, <2>3
<1>4. ASSUME NEW r \in late, late' = late \ {r}
      PROVE  IsFiniteSet(late') /\ Cardinality(late') <= MaxLate
  <2>1. /\ IsFiniteSet(late \ {r})
        /\ Cardinality(late \ {r}) = Cardinality(late) - 1
    BY <1>1, <1>4, FS_RemoveElement
  <2>2. MaxLate \in Nat
    BY CloudStorageAssumption
  <2> QED BY <1>1, <1>4, <2>1, <2>2
<1>5. \/ late' = late
      \/ \E r : Cardinality(late) < MaxLate /\ late' = late \cup {r}
      \/ \E r \in late : late' = late \ {r}
  <2>1. CASE UNCHANGED vars
    BY <2>1 DEF vars
  <2>2. CASE ServeLate
    BY <2>2 DEF ServeLate
  <2>3. ASSUME NEW t \in Tasks, Break(t) \/ Cancel(t)
        PROVE  \/ late' = late
               \/ \E r : Cardinality(late) < MaxLate /\ late' = late \cup {r}
    BY <2>3 DEF Break, Cancel
  <2>4. ASSUME NEW t \in Tasks,
               \/ \E c \in Calls : Begin(t, c)
               \/ Progress(t) \/ Refuse(t) \/ Resend(t) \/ Repeat(t) \/ Return(t)
        PROVE  late' = late
    BY <2>4 DEF Begin, Progress, Refuse, Resend, Repeat, Return, ControlBuilt,
                ControlFails, ControlThere, Serve, ServePage, Receive, ReceivePut,
                ReceiveGet, ReceiveHead, ReceiveCopy, ReceiveDelete, ReceivePage
  <2> QED BY <2>1, <2>2, <2>3, <2>4 DEF Next
<1> QED BY <1>2, <1>3, <1>4, <1>5

LEMMA ControlStep ==
    ASSUME Typed, [Next]_vars PROVE control' \in BOOLEAN
<1>1. ASSUME NEW t \in Tasks, ~ControlBuilt(t),
             \/ \E c \in Calls : Begin(t, c)
             \/ Progress(t) \/ Refuse(t) \/ Break(t) \/ Resend(t)
             \/ Repeat(t) \/ Return(t) \/ Cancel(t)
      PROVE  control' = control
  BY <1>1 DEF Begin, Progress, Refuse, Break, Resend, Repeat, Return, Cancel,
              ControlFails, ControlThere, Serve, ServePage, Receive, ReceivePut,
              ReceiveGet, ReceiveHead, ReceiveCopy, ReceiveDelete, ReceivePage
<1>2. ASSUME NEW t \in Tasks, ControlBuilt(t) PROVE control' = TRUE
  BY <1>2 DEF ControlBuilt
<1> QED BY <1>1, <1>2 DEF Next, ServeLate, vars, Typed

(* A request that is executed: for the calls that look on nothing changes  *)
(* but their history.                                                      *)
LEMMA GrownShaped ==
    ASSUME NEW q, NEW p, Grown(q, p), Shaped(q) PROVE Shaped(p)
<1>1. /\ p.pc = q.pc /\ p.call = q.call /\ p.op = q.op /\ p.answer = q.answer
      /\ p.value = q.value /\ p.found = q.found /\ p.cursor = q.cursor
      /\ p.sends = q.sends
  BY DEF Grown, Fields
<1> QED BY <1>1 DEF Shaped

LEMMA ServeShaped ==
    ASSUME Inv, Typed, NEW t \in Tasks, Serve(t)
    PROVE  \A u \in Tasks : Shaped(task'[u])
<1> DEFINE q == task[t]
           a == Outcome(Request(t))
           z == [q EXCEPT !.answer = a]
           ts == [task EXCEPT ![t].answer = a]
<1>1. /\ DOMAIN task = Tasks /\ DOMAIN q = Fields /\ Shaped(q) /\ Sound(q)
      /\ q.pc = "wait" /\ q.op # "list" /\ task' = Observed(ts, objects', t)
  BY TaskKnown DEF Typed, Serve, Waiting, Request
<1>2. a.value \in Data \cup {None} /\ a.tag \in Tags
  <2>1. Request(t).name \in Names
    BY <1>1, RequestFits
  <2>2. /\ a.value = IF Request(t).op = "get" THEN objects[Request(t).name] ELSE None
        /\ a.tag \in Tags
    BY DEF Outcome, NoAnswer, Tags
  <2> HIDE DEF a
  <2> QED BY <2>1, <2>2 DEF Inv, Bucket
<1> HIDE DEF a
<1>3. ts[t] = z /\ \A u \in Tasks \ {t} : ts[u] = task[u]
  BY <1>1
<1>4. /\ DOMAIN z = Fields /\ z.pc = q.pc /\ z.call = q.call /\ z.op = q.op
      /\ z.answer = a /\ z.value = q.value /\ z.found = q.found
      /\ z.cursor = q.cursor /\ z.sends = q.sends
  <2> HIDE DEF q
  <2> QED BY <1>1 DEF Fields
<1> HIDE DEF z, ts
<1>5. Sound(z) /\ Shaped(z)
  <2> HIDE DEF q
  <2> QED BY <1>1, <1>2, <1>4 DEF Sound, Shaped
<1>6. ASSUME NEW u \in Tasks PROVE Sound(ts[u]) /\ Shaped(ts[u])
  BY <1>3, <1>5, TaskKnown DEF Typed
<1>7. ASSUME NEW u \in Tasks PROVE Shaped(Observed(ts, objects', t)[u])
  BY <1>6, ObservedRecord, GrownShaped
<1> QED BY <1>1, <1>7

LEMMA TypedStep == ASSUME Inv, Typed, [Next]_vars PROVE Typed'
<1>1. SUFFICES \A u \in Tasks : Shaped(task'[u])
  BY LateStep, ControlStep DEF Typed
<1>2. CASE UNCHANGED vars
  BY <1>2 DEF vars, Typed
<1>3. CASE ServeLate
  <2>1. task' = Observed(task, objects', None)
    BY <1>3 DEF ServeLate
  <2>2. ASSUME NEW u \in Tasks PROVE Shaped(Observed(task, objects', None)[u])
    BY TaskKnown, ObservedRecord, GrownShaped DEF Typed
  <2> QED BY <2>1, <2>2
<1>4. ASSUME NEW t \in Tasks, Serve(t) PROVE \A u \in Tasks : Shaped(task'[u])
  BY <1>4, ServeShaped
<1>5. ASSUME NEW t \in Tasks, Private(t), Shaped(task'[t])
      PROVE  \A u \in Tasks : Shaped(task'[u])
  BY <1>5 DEF Private, Typed
<1>6. ASSUME NEW t \in Tasks, NEW c \in Calls, Begin(t, c)
      PROVE  \A u \in Tasks : Shaped(task'[u])
  BY <1>5, <1>6, BeginStep, BeginShaped
<1>7. ASSUME NEW t \in Tasks,
             \/ ControlBuilt(t) \/ ControlThere(t)
             \/ Refuse(t) \/ Break(t) \/ Resend(t)
      PROVE  \A u \in Tasks : Shaped(task'[u])
  BY <1>5, <1>7, WaySteps, WayShaped
<1>8. ASSUME NEW t \in Tasks, ControlFails(t)
      PROVE  \A u \in Tasks : Shaped(task'[u])
  BY <1>5, <1>8, EndSteps, WayShaped
<1>9. ASSUME NEW t \in Tasks, Return(t) \/ Cancel(t)
      PROVE  \A u \in Tasks : Shaped(task'[u])
  <2>1. task'[t] = Idle
    BY <1>9, TaskKnown DEF Return, Cancel
  <2>2. Shaped(Idle)
    BY NoAnswerTyped, CloudStorageAssumption DEF Shaped, Idle, Busy
  <2> QED BY <1>5, <1>9, <2>1, <2>2, EndSteps
<1>10. ASSUME NEW t \in Tasks, ServePage(t) PROVE \A u \in Tasks : Shaped(task'[u])
  BY <1>5, <1>10, PageSteps, ServePageShaped
<1>11. ASSUME NEW t \in Tasks, ReceivePage(t) PROVE \A u \in Tasks : Shaped(task'[u])
  BY <1>5, <1>11, PageSteps, ReceivePageShaped
<1>12. ASSUME NEW t \in Tasks, Repeat(t) PROVE \A u \in Tasks : Shaped(task'[u])
  BY <1>5, <1>12, PageSteps, WayShaped
<1>13. ASSUME NEW t \in Tasks,
              \/ ReceivePut(t) \/ ReceiveGet(t) \/ ReceiveHead(t)
              \/ ReceiveCopy(t) \/ ReceiveDelete(t)
       PROVE  \A u \in Tasks : Shaped(task'[u])
  BY <1>5, <1>13, WayShaped, ReceivePutStep, ReceiveGetStep, ReceiveHeadStep,
     ReceiveCopyStep, ReceiveDeleteStep
<1> QED BY <1>2, <1>3, <1>4, <1>6, <1>7, <1>8, <1>9, <1>10, <1>11, <1>12, <1>13
        DEF Next, Progress, Receive

(* The state keeps its type: in particular list never collects more than   *)
(* its limit (LIST_MAX_ITEMS of storage.rs), a request is sent no more     *)
(* often than the client library tries, and only calls in progress are at  *)
(* a request.                                                              *)
THEOREM TypeCorrect == Spec => []TypeOK
<1>1. Init => Typed /\ InLine
  <2>1. SUFFICES ASSUME Init PROVE Typed /\ InLine
    OBVIOUS
  <2>2. Shaped(Idle)
    BY NoAnswerTyped, CloudStorageAssumption DEF Shaped, Idle, Busy
  <2>3. IsFiniteSet(late) /\ Cardinality(late) = 0
    BY <2>1, FS_EmptySet DEF Init
  <2>4. Typed
    <3>1. MaxLate \in Nat
      BY CloudStorageAssumption
    <3>2. control \in BOOLEAN /\ \A t \in Tasks : task[t] = Idle
      BY <2>1 DEF Init
    <3> QED BY <2>2, <2>3, <3>1, <3>2 DEF Typed
  <2>5. InLine
    <3>1. queue = <<>> /\ \A t \in Tasks : task[t] = Idle
      BY <2>1 DEF Init
    <3>2. queue \in Seq(Tasks) /\ Len(queue) = 0 /\ Idle.pc = "idle"
      BY <3>1 DEF Idle
    <3> QED BY <3>1, <3>2 DEF InLine, QueueMoves
  <2> QED BY <2>4, <2>5
<1>2. Inv /\ Typed /\ InLine /\ [Next]_vars => Typed' /\ InLine'
  BY TypedStep, LineStep
<1>3. Inv /\ Typed /\ InLine => TypeOK
  <2>1. SUFFICES ASSUME Inv, Typed, InLine PROVE TypeOK
    OBVIOUS
  <2>2. ASSUME NEW t \in Tasks
        PROVE  LET k == task[t] IN
               /\ k.pc \in Busy \cup {"idle", "done"}
               /\ k.pc # "idle" => k.call \in Calls
               /\ k.pc \in Busy <=> k.op # "none"
               /\ k.value \in Data \cup {None} /\ k.cursor \in Names \cup {None}
               /\ (k.pc # "idle" /\ k.call.kind = "list") => Len(k.found) <= MaxItems
               /\ k.sends <= MaxSends
    BY <2>1, TaskKnown DEF Typed, Shaped, Sound
  <2>3. \A i \in 1 .. Len(queue) : queue[i] \in Tasks
    BY <2>1 DEF InLine
  <2> QED BY <2>1, <2>2, <2>3 DEF TypeOK, Inv, Bucket, Typed
<1> QED BY <1>1, <1>2, <1>3, InvAlwaysHolds, PTL DEF Spec
=============================================================================
