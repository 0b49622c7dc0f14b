---------------------------- MODULE UploadsProofs ----------------------------
(***************************************************************************)
(* Proofs about Uploads, for any requests, any applications and any rules  *)
(* of their validators: the type invariant, that only accepted files are   *)
(* stored, that nothing passes by lying about its type, that the keys are  *)
(* plain, and what the answer of a handler says of the store.              *)
(***************************************************************************)
EXTENDS Uploads, MultipartParserProofs

Fields == {"pc", "input", "parser", "part", "key", "kept", "res", "errors", "cut"}

(* What TypeOK says of one request, and what of its parser it rests on.    *)
Sound(q) ==
    /\ DOMAIN q = Fields
    /\ q.pc \in Busy \cup {"idle", "done"}
    /\ q.res \in Errors \cup {"none", "ok", "dropped"}
    /\ q.pc = "done" <=> q.res # "none"
    /\ DOMAIN q.errors # {} <=> q.res = "validation"
    /\ q.pc # "idle" => /\ q.input \in Inputs
                        /\ q.part \in 0 .. Len(q.input.parts)
                        /\ q.parser \in ParserType
                        /\ q.parser.at <= Len(q.input.parts)
    /\ q.pc \in {"read", "check", "put", "write"} => q.part # 0

Typed ==
    /\ app \in Applications
    /\ \A k \in DOMAIN store : store[k].by \in Requests /\ store[k].whole \in BOOLEAN
    /\ DOMAIN req = Requests
    /\ \A r \in Requests : Sound(req[r])

(* A file at hand that passed every check, under the key made for it.      *)
FileOf(input, i) == IF input.form THEN FromField(input.parts[i])
                    ELSE FromBytes(input.parts[i])

Fine(a, input, i) == /\ Accepts(a.validator, FileOf(input, i))
                     /\ ~Over(FileOf(input, i).size, a.config.max)

PlainKey(a, key) == key.parts[1].dots = 0 /\ (a.local => ~IsEmptyKey(key))

Cleared(a, q) == Fine(a, q.input, q.part) /\ PlainKey(a, q.key)

-----------------------------------------------------------------------------
(* Keys                                                                    *)

(* A key made for any file has one segment and no dots in front of it.     *)
LEMMA LastSegment ==
    ASSUME NEW name \in FileNames, HasFileName(name)
    PROVE  LastComponent(name) \in Segment
<1>1. name \in Seq(Segment)
  BY UploadedFilesAssumption
<1>2. PICK i \in DOMAIN name : IsLast(name, i)
  BY DEF HasFileName
<1>3. (CHOOSE j \in DOMAIN name : IsLast(name, j)) \in DOMAIN name
  BY <1>2
<1> QED BY <1>1, <1>3 DEF LastComponent

LEMMA KeyIsPlain ==
    ASSUME NEW config, NEW name \in FileNames \cup {None}, NEW id
    PROVE  GenerateKey(config, name, id).parts[1].dots = 0
<1>1. ASSUME NEW n PROVE UniqueKey(n, id).parts[1].dots = 0
  BY DEF UniqueKey, Bare
<1>2. ASSUME name # None PROVE Sanitized(name)[1].dots = 0
  <2> DEFINE kept == IF HasFileName(name) THEN <<LastComponent(name)>> ELSE name
  <2>1. kept \in Seq(Segment) /\ kept # <<>>
    <3>1. CASE HasFileName(name)
      BY <1>2, <3>1, LastSegment
    <3>2. CASE ~HasFileName(name)
      BY <1>2, <3>2, UploadedFilesAssumption
    <3> QED BY <3>1, <3>2
  <2>2. Sanitized(name) = [i \in DOMAIN kept |->
            [kept[i] EXCEPT !.stem = Clean[@], !.dots = IF i = 1 THEN 0 ELSE @]]
    BY DEF Sanitized
  <2> HIDE DEF kept
  <2>3. 1 \in DOMAIN kept /\ kept[1] \in Segment
    BY <2>1
  <2>4. Sanitized(name)[1] =
            [kept[1] EXCEPT !.stem = Clean[@], !.dots = IF 1 = 1 THEN 0 ELSE @]
    BY <2>2, <2>3
  <2>5. kept[1] \in [dots : Nat, stem : Stems, ext : Exts]
    BY <2>3 DEF Segment
  <2> QED BY <2>4, <2>5
<1>3. CASE config.unique \/ name = None
  BY <1>1, <1>3 DEF GenerateKey
<1>4. CASE ~config.unique /\ name # None
  <2>1. GenerateKey(config, name, id) = [id |-> NoId, parts |-> Sanitized(name)]
    BY <1>4 DEF GenerateKey
  <2> QED BY <1>2, <1>4, <2>1
<1> QED BY <1>3, <1>4

-----------------------------------------------------------------------------
(* What a step of a handler does, whichever it is                          *)

(* Nothing to others, and to the store at most an entry for a file that    *)
(* was cleared; a file is cleared by Check alone.                          *)
Effect(r) ==
    /\ app' = app /\ DOMAIN req' = Requests
    /\ \A u \in Requests \ {r} : req'[u] = req[u]
    /\ Sound(req'[r]) /\ req'[r].pc # "idle"
    /\ req[r].pc # "idle" => req'[r].input = req[r].input
    /\ req'[r].pc \in {"put", "write"} =>
          \/ Cleared(app, req'[r])
          \/ /\ req[r].pc \in {"put", "write"}
             /\ req'[r].part = req[r].part /\ req'[r].key = req[r].key
    /\ \/ store' = store
       \/ /\ req[r].pc \in {"put", "write"}
          /\ \E whole \in BOOLEAN : store' = With(req[r].key, Entry(r, whole))

(* A busy request that is answered, with nothing but an error of its own.  *)
LEMMA Ended ==
    ASSUME NEW q, Sound(q), q.pc \in Busy,
           NEW res \in (Errors \ {"validation"}) \cup {"ok", "dropped"}
    PROVE  LET e == [q EXCEPT !.pc = "done", !.res = res] IN
           Sound(e) /\ e.pc = "done" /\ e.input = q.input
<1> DEFINE e == [q EXCEPT !.pc = "done", !.res = res]
<1>1. /\ DOMAIN e = Fields /\ e.pc = "done" /\ e.res = res /\ e.input = q.input
      /\ e.part = q.part /\ e.parser = q.parser /\ e.errors = q.errors
  BY DEF Sound, Fields
<1>2. DOMAIN q.errors = {} /\ res # "none"
  BY DEF Sound, Busy, Errors
<1> HIDE DEF e
<1> QED BY <1>1, <1>2 DEF Sound, Busy, Errors

LEMMA SubmitEffect ==
    ASSUME Typed, NEW r \in Requests, NEW input \in Inputs, Submit(r, input)
    PROVE  Effect(r)
<1> DEFINE q == [Waiting EXCEPT
                  !.input = input, !.parser = NewParser(app.limits),
                  !.pc = IF input.form THEN "next" ELSE "check",
                  !.part = IF input.form THEN 0 ELSE 1]
<1>1. /\ req[r].pc = "idle" /\ req' = [req EXCEPT ![r] = q]
      /\ app' = app /\ store' = store
  BY DEF Submit
<1>2. /\ input.form \in BOOLEAN /\ Len(input.parts) \in Nat
      /\ ~input.form => Len(input.parts) = 1
  BY UploadsAssumption
<1>3. /\ NewParser(app.limits) \in ParserType
      /\ NewParser(app.limits).at = 0
  BY UploadsAssumption, NewParserType DEF Typed, NewParser
<1>4. /\ DOMAIN q = Fields /\ q.input = input /\ q.parser = NewParser(app.limits)
      /\ q.pc = (IF input.form THEN "next" ELSE "check")
      /\ q.part = (IF input.form THEN 0 ELSE 1)
      /\ q.res = "none" /\ DOMAIN q.errors = {}
  BY DEF Waiting, Fields
<1> HIDE DEF q
<1>5. Sound(q) /\ q.pc \notin {"idle", "put", "write"}
  <2>1. q.parser.at <= Len(q.input.parts) /\ q.parser \in ParserType
    BY <1>2, <1>3, <1>4
  <2>2. CASE input.form
    <3>1. q.pc = "next" /\ q.part = 0
      BY <1>4, <2>2
    <3> QED BY <1>2, <1>4, <2>1, <3>1 DEF Sound, Busy, Errors
  <2>3. CASE ~input.form
    <3>1. q.pc = "check" /\ q.part = 1 /\ Len(q.input.parts) = 1
      BY <1>2, <1>4, <2>3
    <3> QED BY <1>2, <1>4, <2>1, <3>1 DEF Sound, Busy, Errors
  <2> QED BY <2>2, <2>3
<1> QED BY <1>1, <1>5 DEF Effect, Typed

LEMMA AskEffect == ASSUME Typed, NEW r \in Requests, Ask(r) PROVE Effect(r)
<1>1. PICK o \in NextField(Body(r), req[r].parser) :
          LET asked == [req[r] EXCEPT !.parser = o.p] IN
          req' = [req EXCEPT ![r] =
              CASE o.tag = "end"   -> [asked EXCEPT !.pc = "done", !.res = "ok"]
                [] o.tag = "error" -> [asked EXCEPT !.pc = "done", !.res = "multipart"]
                [] OTHER -> IF Body(r)[o.p.at].name = UploadField
                            THEN [asked EXCEPT !.pc = "read", !.part = o.p.at]
                            ELSE asked]
  BY DEF Ask
<1> DEFINE asked == [req[r] EXCEPT !.parser = o.p]
           ended == [asked EXCEPT !.pc = "done", !.res = "ok"]
           failed == [asked EXCEPT !.pc = "done", !.res = "multipart"]
           found == [asked EXCEPT !.pc = "read", !.part = o.p.at]
<1>2. /\ Sound(req[r]) /\ req[r].pc = "next" /\ app' = app /\ store' = store
      /\ Body(r) = req[r].input.parts /\ Len(req[r].input.parts) \in Nat
  BY UploadsAssumption DEF Ask, Typed, Sound, Body
<1>3. /\ o.p \in ParserType /\ o.tag \in {"field", "end", "error"}
      /\ o.p.at <= Len(req[r].input.parts)
      /\ o.tag = "field" => o.p.at = req[r].parser.at + 1
  <2>1. /\ req[r].parser \in ParserType
        /\ req[r].parser.at <= Len(req[r].input.parts)
    BY <1>2 DEF Sound
  <2>2. o \in NextField(req[r].input.parts, req[r].parser)
    BY <1>2
  <2> QED BY <1>2, <2>1, <2>2, NextFieldOutcome
<1>4. o.p.at \in Nat /\ req[r].parser.at \in Nat
  BY <1>2, <1>3 DEF ParserType, Sound
<1>5. \E q \in {asked, ended, failed} \cup (IF o.tag = "field" THEN {found} ELSE {}) :
          req' = [req EXCEPT ![r] = q]
  BY <1>1, <1>3
<1>6. Sound(asked) /\ asked.pc = "next" /\ asked.input = req[r].input
  <2>1. /\ DOMAIN asked = Fields /\ asked.parser = o.p /\ asked.pc = req[r].pc
        /\ asked.input = req[r].input /\ asked.part = req[r].part
        /\ asked.res = req[r].res /\ asked.errors = req[r].errors
    BY <1>2 DEF Sound, Fields
  <2> HIDE DEF asked
  <2>2. asked.parser.at <= Len(asked.input.parts)
    BY <1>3, <2>1
  <2> QED BY <1>2, <1>3, <2>1, <2>2 DEF Sound, Busy
<1> HIDE DEF asked
<1>7. /\ Sound(ended) /\ ended.pc = "done" /\ ended.input = req[r].input
      /\ Sound(failed) /\ failed.pc = "done" /\ failed.input = req[r].input
  <2>1. asked.pc \in Busy
    BY <1>6 DEF Busy
  <2>2. "ok" \in (Errors \ {"validation"}) \cup {"ok", "dropped"}
    OBVIOUS
  <2>3. "multipart" \in (Errors \ {"validation"}) \cup {"ok", "dropped"}
    BY DEF Errors
  <2>4. Sound(ended) /\ ended.pc = "done" /\ ended.input = asked.input
    BY <1>6, <2>1, <2>2, Ended
  <2>5. Sound(failed) /\ failed.pc = "done" /\ failed.input = asked.input
    BY <1>6, <2>1, <2>3, Ended
  <2> QED BY <1>6, <2>4, <2>5
<1>8. ASSUME o.tag = "field"
      PROVE  Sound(found) /\ found.pc = "read" /\ found.input = req[r].input
  <2>1. /\ DOMAIN found = Fields /\ found.parser = asked.parser /\ found.pc = "read"
        /\ found.input = asked.input /\ found.part = o.p.at
        /\ found.res = asked.res /\ found.errors = asked.errors
    BY <1>6 DEF Sound, Fields
  <2>2. o.p.at \in 0 .. Len(asked.input.parts) /\ o.p.at # 0
    <3>1. o.p.at <= Len(asked.input.parts) /\ Len(asked.input.parts) \in Nat
      BY <1>2, <1>3, <1>6
    <3>2. o.p.at \in Nat /\ o.p.at # 0
      BY <1>3, <1>4, <1>8
    <3> QED BY <3>1, <3>2
  <2> HIDE DEF found
  <2> QED BY <1>6, <2>1, <2>2 DEF Sound, Busy
<1> HIDE DEF ended, failed, found
<1>9. PICK q : /\ req' = [req EXCEPT ![r] = q] /\ Sound(q)
               /\ q.input = req[r].input /\ q.pc \in {"next", "read", "done"}
  BY <1>5, <1>6, <1>7, <1>8
<1> QED BY <1>2, <1>9 DEF Effect, Typed

LEMMA ReadEffect == ASSUME Typed, NEW r \in Requests, Read(r) PROVE Effect(r)
<1>1. PICK o \in ReadField(Body(r), req[r].parser) :
          req' = [req EXCEPT ![r].parser = o.p,
                     ![r].pc = IF o.tag = "read" THEN "check" ELSE "done",
                     ![r].res = IF o.tag = "read" THEN @ ELSE "multipart"]
  BY DEF Read
<1>2. /\ Sound(req[r]) /\ req[r].pc = "read" /\ app' = app /\ store' = store
      /\ DOMAIN req = Requests
  BY DEF Read, Typed
<1>3. o.p \in ParserType /\ o.p.at = req[r].parser.at
  BY <1>2, ContentOutcome DEF ReadField, Sound
<1> DEFINE q == [req[r] EXCEPT !.parser = o.p,
                     !.pc = IF o.tag = "read" THEN "check" ELSE "done",
                     !.res = IF o.tag = "read" THEN @ ELSE "multipart"]
<1>4. req'[r] = q /\ DOMAIN req' = Requests /\ \A u \in Requests \ {r} : req'[u] = req[u]
  BY <1>1, <1>2
<1>5. Sound(q) /\ q.input = req[r].input /\ q.pc \in {"check", "done"}
  <2>1. /\ DOMAIN q = Fields /\ q.parser = o.p
        /\ q.pc = (IF o.tag = "read" THEN "check" ELSE "done")
        /\ q.res = (IF o.tag = "read" THEN req[r].res ELSE "multipart")
        /\ q.input = req[r].input /\ q.part = req[r].part
        /\ q.errors = req[r].errors
    BY <1>2 DEF Sound, Fields
  <2>2. req[r].res = "none" /\ DOMAIN req[r].errors = {}
    BY <1>2 DEF Sound
  <2> HIDE DEF q
  <2> QED BY <1>2, <1>3, <2>1, <2>2 DEF Sound, Errors, Busy
<1> HIDE DEF q
<1> QED BY <1>2, <1>4, <1>5 DEF Effect

(* The part at hand is one of the body, and its key is plain.              *)
LEMMA KeyOfPart ==
    ASSUME Typed, NEW r \in Requests, req[r].pc = "check"
    PROVE  Key(r).parts[1].dots = 0
<1> DEFINE q == req[r]
<1>1. /\ q.input \in Inputs /\ q.part \in 1 .. Len(q.input.parts)
  <2>1. Sound(q)
    BY DEF Typed
  <2>2. q.input \in Inputs /\ q.part \in 0 .. Len(q.input.parts) /\ q.part # 0
    BY <2>1 DEF Sound
  <2>3. Len(q.input.parts) \in Nat
    BY <2>2, UploadsAssumption
  <2> HIDE DEF q
  <2> QED BY <2>2, <2>3
<1>2. q.input.parts[q.part].filename \in FileNames \cup {None}
  BY <1>1, UploadsAssumption
<1>3. File(r, q.part).name = q.input.parts[q.part].filename
  BY DEF File, FromBytes, FromField, Body
<1> QED BY <1>2, <1>3, KeyIsPlain DEF Key

LEMMA CheckEffect == ASSUME Typed, NEW r \in Requests, Check(r) PROVE Effect(r)
<1> DEFINE q == req[r]
           file == File(r, q.part)
           errors == Validate(app.validator, file)
           refused == [Answered(r, "validation") EXCEPT !.errors = errors]
           toobig == Answered(r, "toolarge")
           invalid == Answered(r, "invalid")
           cleared == [q EXCEPT !.pc = "put", !.key = Key(r)]
<1>1. /\ q.pc = "check" /\ app' = app /\ store' = store
      /\ req' = [req EXCEPT ![r] =
           IF DOMAIN errors # {} THEN refused
           ELSE IF TooBig(file) THEN toobig
           ELSE IF app.local /\ IsEmptyKey(Key(r)) THEN invalid
           ELSE cleared]
  BY DEF Check
<1>2. Sound(q) /\ DOMAIN req = Requests
  BY DEF Typed
<1>3. DOMAIN q.errors = {} /\ q.res = "none" /\ q.pc \in Busy
  BY <1>1, <1>2 DEF Sound, Busy
<1>4. ASSUME DOMAIN errors # {}
      PROVE  Sound(refused) /\ refused.pc = "done" /\ refused.input = q.input
  <2>1. /\ DOMAIN refused = Fields /\ refused.pc = "done" /\ refused.res = "validation"
        /\ refused.errors = errors /\ refused.input = q.input
        /\ refused.part = q.part /\ refused.parser = q.parser
    BY <1>2 DEF Answered, Sound, Fields
  <2> HIDE DEF refused, q, errors
  <2> QED BY <1>2, <1>1, <1>4, <2>1 DEF Sound, Busy, Errors
<1>5. /\ Sound(toobig) /\ toobig.pc = "done" /\ toobig.input = q.input
      /\ Sound(invalid) /\ invalid.pc = "done" /\ invalid.input = q.input
  <2>1. /\ "toolarge" \in (Errors \ {"validation"}) \cup {"ok", "dropped"}
        /\ "invalid" \in (Errors \ {"validation"}) \cup {"ok", "dropped"}
    BY DEF Errors
  <2> HIDE DEF q
  <2>2. /\ toobig = [q EXCEPT !.pc = "done", !.res = "toolarge"]
        /\ invalid = [q EXCEPT !.pc = "done", !.res = "invalid"]
    BY DEF Answered, q
  <2> HIDE DEF toobig, invalid
  <2> QED BY <1>2, <1>3, <2>1, <2>2, Ended
<1>6. ASSUME DOMAIN errors = {}, ~TooBig(file), ~(app.local /\ IsEmptyKey(Key(r)))
      PROVE  /\ Sound(cleared) /\ cleared.pc = "put" /\ cleared.input = q.input
             /\ Cleared(app, cleared)
  <2>1. /\ DOMAIN cleared = Fields /\ cleared.pc = "put" /\ cleared.res = q.res
        /\ cleared.errors = q.errors /\ cleared.input = q.input
        /\ cleared.part = q.part /\ cleared.parser = q.parser
        /\ cleared.key = Key(r)
    BY <1>2 DEF Sound, Fields
  <2>2. file = FileOf(q.input, q.part)
    BY DEF File, FileOf, Body
  <2>3. Fine(app, q.input, q.part)
    BY <1>6, <2>2 DEF Fine, Accepts, TooBig
  <2>4. PlainKey(app, Key(r))
    BY <1>1, <1>6, KeyOfPart DEF PlainKey
  <2> HIDE DEF cleared, q
  <2>5. Sound(cleared)
    BY <1>1, <1>2, <1>3, <2>1 DEF Sound, Busy
  <2> QED BY <2>1, <2>3, <2>4, <2>5 DEF Cleared
<1> HIDE DEF refused, toobig, invalid, cleared, file, errors
<1>7. PICK next : /\ req' = [req EXCEPT ![r] = next]
                  /\ Sound(next) /\ next.input = q.input
                  /\ next.pc = "done" \/ (next.pc = "put" /\ Cleared(app, next))
  BY <1>1, <1>4, <1>5, <1>6
<1> QED BY <1>1, <1>2, <1>7 DEF Effect

LEMMA TruncateEffect == ASSUME Typed, NEW r \in Requests, Truncate(r) PROVE Effect(r)
<1> DEFINE q == req[r]
           next == [q EXCEPT !.pc = "write"]
<1>1. /\ q.pc = "put" /\ app' = app /\ store' = With(q.key, Entry(r, FALSE))
      /\ req' = [req EXCEPT ![r].pc = "write"]
  BY DEF Truncate
<1>2. Sound(q) /\ DOMAIN req = Requests
  BY DEF Typed
<1>3. /\ req'[r] = next /\ DOMAIN req' = Requests
      /\ \A u \in Requests \ {r} : req'[u] = req[u]
  BY <1>1, <1>2
<1>4. /\ DOMAIN next = Fields /\ next.pc = "write" /\ next.res = q.res
      /\ next.errors = q.errors /\ next.input = q.input
      /\ next.part = q.part /\ next.parser = q.parser /\ next.key = q.key
  BY <1>2 DEF Sound, Fields
<1> HIDE DEF next
<1>5. Sound(next)
  <2> HIDE DEF q
  <2> QED BY <1>1, <1>2, <1>4 DEF Sound, Busy
<1> QED BY <1>1, <1>3, <1>4, <1>5 DEF Effect

LEMMA StoredEffect == ASSUME Typed, NEW r \in Requests, Stored(r) PROVE Effect(r)
<1> DEFINE q == req[r]
           next == [q EXCEPT !.kept = Append(@, <<q.key, q.part>>),
                             !.pc = IF q.input.form THEN "next" ELSE "done",
                             !.res = IF q.input.form THEN @ ELSE "ok"]
<1>1. /\ q.pc \in {"put", "write"} /\ app' = app
      /\ \E whole \in BOOLEAN : store' = With(q.key, Entry(r, whole))
      /\ req' = [req EXCEPT ![r].kept = Append(@, <<req[r].key, req[r].part>>),
                          ![r].pc = IF req[r].input.form THEN "next" ELSE "done",
                          ![r].res = IF req[r].input.form THEN @ ELSE "ok"]
  BY DEF Stored
<1>2. Sound(q) /\ DOMAIN req = Requests
  BY DEF Typed
<1>3. /\ req'[r] = next /\ DOMAIN req' = Requests
      /\ \A u \in Requests \ {r} : req'[u] = req[u]
  BY <1>1, <1>2
<1>4. /\ DOMAIN next = Fields
      /\ next.pc = (IF q.input.form THEN "next" ELSE "done")
      /\ next.res = (IF q.input.form THEN q.res ELSE "ok")
      /\ next.errors = q.errors /\ next.input = q.input
      /\ next.part = q.part /\ next.parser = q.parser /\ next.key = q.key
  BY <1>2 DEF Sound, Fields
<1> HIDE DEF next
<1>5. Sound(next) /\ next.pc \in {"next", "done"}
  <2> HIDE DEF q
  <2>1. CASE q.input.form
    BY <1>1, <1>2, <1>4, <2>1 DEF Sound, Busy
  <2>2. CASE ~q.input.form
    BY <1>1, <1>2, <1>4, <2>2 DEF Sound, Busy, Errors
  <2> QED BY <2>1, <2>2
<1> QED BY <1>1, <1>3, <1>4, <1>5 DEF Effect

(* What is left behind is what the handler had cleared.                    *)
LEMMA LeftBehindEffect ==
    ASSUME NEW r \in Requests, LeftBehind(r)
    PROVE  \/ store' = store
           \/ /\ req[r].pc \in {"put", "write"}
              /\ \E whole \in BOOLEAN : store' = With(req[r].key, Entry(r, whole))
  BY DEF LeftBehind

LEMMA EndingEffect ==
    ASSUME Typed, NEW r \in Requests, Refuse(r) \/ StoreFails(r) \/ Cancel(r)
    PROVE  Effect(r)
<1> DEFINE q == req[r]
<1>1. PICK res \in {"invalid", "storage", "dropped"} :
          req' = [req EXCEPT ![r] = Answered(r, res)]
  BY DEF Refuse, StoreFails, Cancel
<1>2. q.pc \in Busy /\ app' = app /\ LeftBehind(r) /\ Sound(q) /\ DOMAIN req = Requests
  BY DEF Refuse, StoreFails, Cancel, LeftBehind, Typed, Busy
<1>3. res \in (Errors \ {"validation"}) \cup {"ok", "dropped"}
  BY DEF Errors
<1> DEFINE next == [q EXCEPT !.pc = "done", !.res = res]
<1>4. Answered(r, res) = next
  BY DEF Answered
<1>5. Sound(next) /\ next.pc = "done" /\ next.input = q.input
  <2> HIDE DEF q
  <2> QED BY <1>2, <1>3, Ended
<1> HIDE DEF next
<1> QED BY <1>1, <1>2, <1>4, <1>5, LeftBehindEffect DEF Effect

LEMMA BreakEffect == ASSUME Typed, NEW r \in Requests, StreamBreaks(r) PROVE Effect(r)
<1> DEFINE q == req[r]
           broken == [q.parser EXCEPT !.broken = TRUE]
           next == [q EXCEPT !.parser = broken, !.cut = TRUE]
<1>1. /\ q.pc \in {"next", "read"} /\ app' = app /\ store' = store
      /\ req' = [req EXCEPT ![r].parser.broken = TRUE, ![r].cut = TRUE]
  BY DEF StreamBreaks
<1>2. Sound(q) /\ DOMAIN req = Requests
  BY DEF Typed
<1>3. /\ req'[r] = next /\ DOMAIN req' = Requests
      /\ \A u \in Requests \ {r} : req'[u] = req[u]
  BY <1>1, <1>2
<1>4. broken \in ParserType /\ broken.at = q.parser.at
  BY <1>1, <1>2 DEF Sound, ParserType
<1> HIDE DEF broken
<1>5. /\ DOMAIN next = Fields /\ next.pc = q.pc /\ next.res = q.res
      /\ next.errors = q.errors /\ next.input = q.input
      /\ next.part = q.part /\ next.parser = broken
  BY <1>2 DEF Sound, Fields
<1> HIDE DEF next
<1>6. Sound(next)
  <2> HIDE DEF q
  <2> QED BY <1>1, <1>2, <1>4, <1>5 DEF Sound, Busy
<1> QED BY <1>1, <1>3, <1>5, <1>6 DEF Effect

LEMMA NextEffect == ASSUME Typed, Next PROVE \E r \in Requests : Effect(r)
<1>1. PICK r \in Requests :
          \/ \E input \in Inputs : Submit(r, input)
          \/ Progress(r)
          \/ StoreFails(r) \/ StreamBreaks(r) \/ Cancel(r)
  BY DEF Next
<1>2. CASE \E input \in Inputs : Submit(r, input)
  BY <1>2, SubmitEffect
<1>3. CASE Progress(r)
  BY <1>3, AskEffect, ReadEffect, CheckEffect, EndingEffect, TruncateEffect, StoredEffect
     DEF Progress
<1>4. CASE StoreFails(r) \/ StreamBreaks(r) \/ Cancel(r)
  BY <1>4, EndingEffect, BreakEffect
<1> QED BY <1>1, <1>2, <1>3, <1>4

-----------------------------------------------------------------------------
(* The theorems                                                            *)

(* An entry of the store after a step is an old one, or new and r's.       *)
LEMMA Entries ==
    ASSUME NEW r \in Requests, Effect(r), NEW k \in DOMAIN store'
    PROVE  \/ k \in DOMAIN store /\ store'[k] = store[k]
           \/ /\ req[r].pc \in {"put", "write"} /\ k = req[r].key
              /\ store'[k].by = r /\ store'[k].part = req[r].part
              /\ store'[k].whole \in BOOLEAN
<1>1. CASE store' = store
  BY <1>1
<1>2. CASE /\ req[r].pc \in {"put", "write"}
           /\ \E whole \in BOOLEAN : store' = With(req[r].key, Entry(r, whole))
  <2>1. PICK whole \in BOOLEAN : store' = With(req[r].key, Entry(r, whole))
    BY <1>2
  <2>2. /\ k \in DOMAIN store \cup {req[r].key}
        /\ store'[k] = IF k = req[r].key THEN Entry(r, whole) ELSE store[k]
    BY <2>1 DEF With
  <2> QED BY <1>2, <2>2 DEF Entry
<1> QED BY <1>1, <1>2 DEF Effect

LEMMA InitTyped == ASSUME Init PROVE Typed
<1>1. Sound(Waiting)
  <2>1. /\ DOMAIN Waiting = Fields /\ Waiting.pc = "idle" /\ Waiting.res = "none"
        /\ DOMAIN Waiting.errors = {}
    BY DEF Waiting, Fields
  <2> QED BY <2>1 DEF Sound
<1>2. DOMAIN store = {}
  BY DEF Init
<1> QED BY <1>1, <1>2 DEF Init, Typed

LEMMA TypedStep == ASSUME Typed, [Next]_vars PROVE Typed'
<1>1. CASE UNCHANGED vars
  BY <1>1 DEF vars, Typed
<1>2. CASE Next
  <2>1. PICK r \in Requests : Effect(r)
    BY <1>2, NextEffect
  <2>2. \A k \in DOMAIN store' : store'[k].by \in Requests /\ store'[k].whole \in BOOLEAN
    BY <2>1, Entries DEF Typed
  <2>3. \A u \in Requests : Sound(req'[u])
    BY <2>1 DEF Effect, Typed
  <2> QED BY <2>1, <2>2, <2>3 DEF Effect, Typed
<1> QED BY <1>1, <1>2

(* Whatever the requests bring and whatever fails, the state keeps its     *)
(* type: an answer and its errors agree, and a handler past next_field     *)
(* always has a part of its body at hand.                                  *)
THEOREM TypeCorrect == Spec => []TypeOK
<1>1. Init => Typed
  BY InitTyped
<1>2. Typed /\ [Next]_vars => Typed'
  BY TypedStep
<1>3. Typed => TypeOK
  BY DEF Typed, TypeOK, Sound, Body
<1> QED BY <1>1, <1>2, <1>3, PTL DEF Spec

(* A handler that stores has cleared its file, and every entry comes from  *)
(* a request that still has the input the entry was checked in.            *)
Vetted ==
    /\ Typed
    /\ \A r \in Requests : req[r].pc \in {"put", "write"} => Cleared(app, req[r])
    /\ \A k \in DOMAIN store :
          LET by == req[store[k].by] IN
          /\ by.pc # "idle"
          /\ Fine(app, by.input, store[k].part) /\ PlainKey(app, k)

LEMMA VettedStep == ASSUME Vetted, [Next]_vars PROVE Vetted'
<1>0. Typed /\ Typed'
  BY TypedStep DEF Vetted
<1>1. CASE UNCHANGED vars
  BY <1>1, <1>0 DEF vars, Vetted
<1>2. CASE Next
  <2>1. PICK r \in Requests : Effect(r)
    BY <1>0, <1>2, NextEffect
  <2>2. ASSUME NEW u \in Requests, req'[u].pc \in {"put", "write"}
        PROVE  Cleared(app', req'[u])
    <3>1. CASE u # r
      BY <2>1, <2>2, <3>1 DEF Effect, Vetted
    <3>2. CASE u = r /\ ~Cleared(app, req'[r])
      <4>1. /\ req[r].pc \in {"put", "write"} /\ app' = app
            /\ req'[r].part = req[r].part /\ req'[r].key = req[r].key
        BY <2>1, <2>2, <3>2 DEF Effect
      <4>2. req'[r].input = req[r].input
        BY <2>1, <4>1 DEF Effect
      <4>3. Cleared(app, req[r])
        BY <4>1 DEF Vetted
      <4> QED BY <3>2, <4>1, <4>2, <4>3 DEF Cleared
    <3>3. CASE u = r /\ Cleared(app, req'[r])
      BY <2>1, <3>3 DEF Effect
    <3> QED BY <3>1, <3>2, <3>3
  <2>3. ASSUME NEW k \in DOMAIN store'
        PROVE  LET by == req'[store'[k].by] IN
               /\ by.pc # "idle"
               /\ Fine(app', by.input, store'[k].part) /\ PlainKey(app', k)
    <3>0. app' = app
      BY <2>1 DEF Effect
    <3>1. CASE k \in DOMAIN store /\ store'[k] = store[k]
      <4> DEFINE b == store[k].by
      <4>1. /\ b \in Requests /\ req[b].pc # "idle" /\ PlainKey(app, k)
            /\ Fine(app, req[b].input, store[k].part)
        BY <1>0, <3>1 DEF Vetted, Typed
      <4>2. req'[b].pc # "idle" /\ req'[b].input = req[b].input
        <5>1. CASE b = r
          BY <2>1, <4>1, <5>1 DEF Effect
        <5>2. CASE b # r
          BY <2>1, <4>1, <5>2 DEF Effect
        <5> QED BY <5>1, <5>2
      <4> QED BY <3>0, <3>1, <4>1, <4>2
    <3>2. CASE /\ req[r].pc \in {"put", "write"} /\ k = req[r].key
               /\ store'[k].by = r /\ store'[k].part = req[r].part
      <4>1. Fine(app, req[r].input, req[r].part) /\ PlainKey(app, k)
        BY <3>2 DEF Vetted, Cleared
      <4>2. req'[r].pc # "idle" /\ req'[r].input = req[r].input
        BY <2>1, <3>2 DEF Effect
      <4> QED BY <3>0, <3>2, <4>1, <4>2
    <3> QED BY <2>1, <3>1, <3>2, Entries
  <2> QED BY <1>0, <2>2, <2>3 DEF Vetted
<1> QED BY <1>1, <1>2

LEMMA InitVetted == ASSUME Init PROVE Vetted
<1>1. DOMAIN store = {} /\ \A r \in Requests : req[r].pc = "idle"
  BY DEF Init, Waiting
<1> QED BY <1>1, InitTyped DEF Vetted

(* Nothing is ever in the store, not even a rest, that the validator does  *)
(* not accept or that is larger than max_file_size: validate and put_file  *)
(* come before the store in every handler, and nobody else writes to it.   *)
THEOREM OnlyAcceptedAlways == Spec => []OnlyAcceptedFilesAreStored
<1>1. Init => Vetted
  BY InitVetted
<1>2. Vetted /\ [Next]_vars => Vetted'
  BY VettedStep
<1>3. Vetted => OnlyAcceptedFilesAreStored
  BY DEF Vetted, OnlyAcceptedFilesAreStored, Fine, FileOf, File, Body, TooBig
<1> QED BY <1>1, <1>2, <1>3, PTL DEF Spec

(* Whatever name a client gives a file, it is stored under a key of one    *)
(* segment without dots in front, on the local backend not the empty one.  *)
THEOREM KeysAlwaysPlain == Spec => []KeysArePlain
<1>1. Init => Vetted
  BY InitVetted
<1>2. Vetted /\ [Next]_vars => Vetted'
  BY VettedStep
<1>3. Vetted => KeysArePlain
  BY DEF Vetted, KeysArePlain, PlainKey
<1> QED BY <1>1, <1>2, <1>3, PTL DEF Spec

(* A validator accepts a file only if each of its rules does.              *)
LEMMA EveryRuleAnswersOk ==
    ASSUME NEW v, NEW file, Accepts(v, file), NEW i \in DOMAIN v.rules
    PROVE  Answer(v.rules[i], file, Context(v, file)) = "ok"
  BY DEF Accepts, Validate

(* What a list of types lets through: the declared type is on it, and the  *)
(* type of the content, if there is one, too.                              *)
LEMMA WhatAListLetsThrough ==
    ASSUME NEW rule, NEW file, NEW found, NEW svg,
           TypesAnswer(rule, file, found, svg) = "ok"
    PROVE  /\ file.type # None /\ Permits(rule, file.type)
           /\ found # None => /\ Permits(rule, found)
                              /\ Compatible(file.type, found)
           /\ found = None => ~rule.detect
           /\ svg \/ (~IsSvgMime(file.type) /\ ~IsSvgMime(found))
  BY DEF TypesAnswer

(* A stored file that had to pass a list of types was not let through by   *)
(* lying: TypesAnswer says "ok" only where the declared type is on the     *)
(* list, that of the content, if it has one, is too, and the two agree;    *)
(* and validate stops at no rule before the last.                          *)
THEOREM NothingEverPassesByLying == Spec => []NothingPassesByLying
<1>1. Init => Vetted
  BY InitVetted
<1>2. Vetted /\ [Next]_vars => Vetted'
  BY VettedStep
<1>3. ASSUME Vetted, NEW k \in DOMAIN store,
             NEW i \in DOMAIN app.validator.rules,
             app.validator.rules[i].rule = "types"
      PROVE  LET file == File(store[k].by, store[k].part)
                 found == Sniffed(file.content)
                 rule == app.validator.rules[i]
             IN /\ file.type # None /\ Permits(rule, file.type)
                /\ found # None => /\ Permits(rule, found)
                                   /\ Compatible(file.type, found)
                /\ found = None => ~rule.detect
                /\ IsSvgMime(file.type) \/ IsSvgMime(found) => app.validator.svg
  <2> DEFINE file == File(store[k].by, store[k].part)
             found == Sniffed(file.content)
             rule == app.validator.rules[i]
  <2>1. Accepts(app.validator, file)
    BY <1>3 DEF Vetted, Fine, FileOf, File, Body
  <2>2. Answer(rule, file, Context(app.validator, file)) = "ok"
    BY <2>1, EveryRuleAnswersOk
  <2>3. Answer(rule, file, Context(app.validator, file))
            = TypesAnswer(rule, file, found, app.validator.svg)
    BY <1>3 DEF Answer, Context
  <2>4. TypesAnswer(rule, file, found, app.validator.svg) = "ok"
    BY <2>2, <2>3
  <2> HIDE DEF file, found, rule
  <2>5. /\ file.type # None /\ Permits(rule, file.type)
        /\ found # None => /\ Permits(rule, found)
                           /\ Compatible(file.type, found)
        /\ found = None => ~rule.detect
        /\ IsSvgMime(file.type) \/ IsSvgMime(found) => app.validator.svg
    BY <2>4, WhatAListLetsThrough
  <2> QED BY <2>5 DEF file, found, rule
<1>4. Vetted => NothingPassesByLying
  BY <1>3 DEF NothingPassesByLying
<1> QED BY <1>1, <1>2, <1>4, PTL DEF Spec

-----------------------------------------------------------------------------
(* What has been kept, and who is to blame                                 *)

WantedIn(input) == {i \in 1 .. Len(input.parts) :
                       input.form => input.parts[i].name = UploadField}

Pairs(s) == {s[j] : j \in DOMAIN s}
Parts(pairs) == {pair[2] : pair \in pairs}

KeptPairs(q) == Pairs(q.kept)
KeptParts(q) == Parts(KeptPairs(q))

(* The files of a request are stored in the order of its body: every       *)
(* wanted part before the one at hand is kept, and none after it; between  *)
(* two files, none is left behind the parser.                              *)
InOrder(q) ==
    /\ q.kept \in Seq(KeptPairs(q))
    /\ q.pc = "idle" => q.kept = <<>>
    /\ q.pc # "idle" =>
          /\ KeptParts(q) \subseteq WantedIn(q.input)
          /\ \A i \in KeptParts(q) : i <= q.part
          /\ \A i \in WantedIn(q.input) : i < q.part => i \in KeptParts(q)
          /\ q.part # 0 => q.part \in WantedIn(q.input)
    /\ q.pc = "next" =>
          /\ q.input.form /\ q.part <= q.parser.at
          /\ \A i \in WantedIn(q.input) : i <= q.parser.at => i \in KeptParts(q)
    /\ q.pc \in {"read", "check", "put", "write"} =>
          /\ q.part \notin KeptParts(q)
          /\ q.input.form => q.parser.at = q.part
    /\ q.res = "ok" => WantedIn(q.input) \subseteq KeptParts(q)

(* The parser reads the body of the request within the limits of the       *)
(* application, and is broken only for a reason.                           *)
Reading(a, q) ==
    /\ q.parser.limits = a.limits
    /\ Tallied(q.input.parts, q.parser)
    /\ q.parser.broken => q.cut \/ Exceeds(q.input.parts, a.limits)

(* What was kept is fine, and an error is due to the part at hand or to    *)
(* the body as a whole.                                                    *)
Blamed(a, q) ==
    LET file == FileOf(q.input, q.part) IN
    /\ q.pc # "idle" => \A i \in KeptParts(q) : Fine(a, q.input, i)
    /\ q.pc \in Busy => Reading(a, q)
    /\ q.res \in {"validation", "toolarge", "invalid"} => q.part # 0
    /\ q.res = "validation" => ~Accepts(a.validator, file)
    /\ q.res = "toolarge" => /\ Accepts(a.validator, file)
                             /\ Over(file.size, a.config.max)
    /\ q.res = "invalid" => \/ a.local /\ OnlyDots(file.name)
                            \/ Refuses(a, q.key)
    /\ q.res = "multipart" => q.cut \/ Exceeds(q.input.parts, a.limits)

(* A unique key names the request and the part it is made for.             *)
Named(r, q) == (app.config.unique /\ q.pc \in {"put", "write"}) =>
                   q.key.id = <<r, q.part>>

(* What a step of a handler does to its own request.                       *)
Advances(r) ==
    LET q == req[r]
        next == req'[r]
    IN
    /\ InOrder(next) /\ Blamed(app, next) /\ Named(r, next)
    /\ \/ KeptPairs(next) = KeptPairs(q)
       \/ /\ KeptPairs(next) = KeptPairs(q) \cup {<<q.key, q.part>>}
          /\ q.pc = IF app.local THEN "write" ELSE "put"
          /\ \E whole \in IF Mixed(r) THEN BOOLEAN ELSE {TRUE} :
                store' = With(q.key, Entry(r, whole))
    /\ q.pc # "idle" => q.part \in KeptParts(next) \cup {0, next.part}
    /\ next.pc = "write" => /\ app.local /\ next.key = q.key
                            /\ store' = With(q.key, Entry(r, FALSE))

Sorted(r) == InOrder(req[r]) /\ Blamed(app, req[r]) /\ Named(r, req[r])

(* Another pair at the end is another pair in the set.                     *)
LEMMA AppendPair ==
    ASSUME NEW s, NEW pair, s \in Seq(Pairs(s))
    PROVE  LET t == Append(s, pair) IN
           /\ Pairs(t) = Pairs(s) \cup {pair} /\ t \in Seq(Pairs(t))
           /\ Parts(Pairs(t)) = Parts(Pairs(s)) \cup {pair[2]}
<1> DEFINE S == Pairs(s)
           t == Append(s, pair)
           n == Len(s) + 1
<1>1. s \in Seq(S)
  OBVIOUS
<1> HIDE DEF S
<1>3. /\ t \in Seq(S \cup {pair}) /\ DOMAIN t = DOMAIN s \cup {n} /\ t[n] = pair
      /\ \A j \in DOMAIN s : t[j] = s[j]
  BY <1>1
<1> HIDE DEF t
<1>4. Pairs(t) = S \cup {pair}
  BY <1>3 DEF S, Pairs
<1>5. Parts(S \cup {pair}) = Parts(S) \cup {pair[2]}
  BY DEF Parts
<1> QED BY <1>3, <1>4, <1>5 DEF S, t

(* A request that ends with an error keeps what it had.                    *)
LEMMA EndedInOrder ==
    ASSUME NEW q, NEW e, InOrder(q), q.pc \in Busy, e.pc = "done", e.res # "ok",
           e.kept = q.kept, e.input = q.input, e.part = q.part
    PROVE  InOrder(e) /\ KeptPairs(e) = KeptPairs(q) /\ KeptParts(e) = KeptParts(q)
<1>1. KeptPairs(e) = KeptPairs(q)
  BY DEF KeptPairs
<1>2. KeptParts(e) = KeptParts(q)
  BY <1>1 DEF KeptParts
<1> QED BY <1>1, <1>2 DEF InOrder, Busy

LEMMA WantedInBody ==
    ASSUME NEW input \in Inputs
    PROVE  /\ Len(input.parts) \in Nat /\ Sizes(input.parts)
           /\ WantedIn(input) \subseteq 1 .. Len(input.parts)
  BY UploadsAssumption DEF WantedIn, Sizes

LEMMA SubmitAdvances ==
    ASSUME Typed, NEW r \in Requests, Sorted(r), NEW input \in Inputs, Submit(r, input)
    PROVE  Advances(r)
<1> DEFINE q == [Waiting EXCEPT
                  !.input = input, !.parser = NewParser(app.limits),
                  !.pc = IF input.form THEN "next" ELSE "check",
                  !.part = IF input.form THEN 0 ELSE 1]
<1>1. req[r].pc = "idle" /\ req' = [req EXCEPT ![r] = q] /\ DOMAIN req = Requests
  BY DEF Submit, Typed
<1>2. /\ input.form \in BOOLEAN /\ Len(input.parts) \in Nat
      /\ ~input.form => Len(input.parts) = 1
  BY UploadsAssumption
<1>3. /\ Tallied(input.parts, NewParser(app.limits)) /\ ~NewParser(app.limits).broken
      /\ NewParser(app.limits).at = 0 /\ NewParser(app.limits).limits = app.limits
  BY NewParserTallied DEF NewParser
<1>4. /\ q.input = input /\ q.parser = NewParser(app.limits)
      /\ q.pc = (IF input.form THEN "next" ELSE "check")
      /\ q.part = (IF input.form THEN 0 ELSE 1)
      /\ q.res = "none" /\ q.kept = <<>>
  BY DEF Waiting
<1> HIDE DEF q
<1>5. KeptPairs(q) = {} /\ KeptParts(q) = {} /\ q.kept \in Seq(KeptPairs(q))
  BY <1>4 DEF KeptPairs, KeptParts, Pairs, Parts
<1>6. KeptPairs(req[r]) = {}
  BY <1>1 DEF Sorted, InOrder, KeptPairs, Pairs
<1>7. ~input.form => WantedIn(input) = {1}
  <2>1. 1 .. 1 = {1}
    OBVIOUS
  <2>2. ~input.form => WantedIn(input) = 1 .. Len(input.parts)
    BY DEF WantedIn
  <2> QED BY <1>2, <2>1, <2>2
<1>8. WantedIn(input) \subseteq 1 .. Len(input.parts)
  BY DEF WantedIn
<1>9. InOrder(q)
  <2>1. CASE input.form
    <3>1. q.pc = "next" /\ q.part = 0 /\ q.parser.at = 0
      BY <1>3, <1>4, <2>1
    <3>2. \A i \in WantedIn(input) : ~(i <= 0) /\ ~(i < 0)
      BY <1>2, <1>8
    <3> QED BY <1>4, <1>5, <2>1, <3>1, <3>2 DEF InOrder
  <2>2. CASE ~input.form
    <3>1. q.pc = "check" /\ q.part = 1
      BY <1>4, <2>2
    <3> QED BY <1>4, <1>5, <1>7, <2>2, <3>1 DEF InOrder
  <2> QED BY <2>1, <2>2
<1>10. Blamed(app, q)
  BY <1>3, <1>4, <1>5 DEF Blamed, Reading
<1>11. q.pc \in {"next", "check"}
  BY <1>4
<1>12. req'[r] = q
  BY <1>1
<1> QED BY <1>1, <1>5, <1>6, <1>9, <1>10, <1>11, <1>12 DEF Advances, Named

(* The request at hand while it is busy: its input, and what its parser    *)
(* is at.                                                                  *)
LEMMA BusyRequest ==
    ASSUME Typed, NEW r \in Requests, Sorted(r), req[r].pc \in Busy
    PROVE  LET q == req[r] IN
           /\ q.input \in Inputs /\ Sizes(q.input.parts) /\ Reading(app, q)
           /\ Len(q.input.parts) \in Nat /\ q.part \in Nat
           /\ q.parser \in ParserType /\ q.parser.at \in Nat
           /\ q.parser.at <= Len(q.input.parts)
           /\ q.res = "none" /\ DOMAIN q = Fields /\ DOMAIN req = Requests
           /\ WantedIn(q.input) \subseteq 1 .. Len(q.input.parts)
<1> DEFINE q == req[r]
<1>1. Sound(q) /\ DOMAIN req = Requests
  BY DEF Typed
<1>2. /\ q.input \in Inputs /\ q.part \in 0 .. Len(q.input.parts)
      /\ q.parser \in ParserType /\ q.parser.at <= Len(q.input.parts)
      /\ q.res = "none" /\ DOMAIN q = Fields
  BY <1>1 DEF Sound, Busy
<1>3. Reading(app, q)
  BY DEF Sorted, Blamed
<1> HIDE DEF q
<1>4. Len(q.input.parts) \in Nat /\ Sizes(q.input.parts)
      /\ WantedIn(q.input) \subseteq 1 .. Len(q.input.parts)
  BY <1>2, WantedInBody
<1>5. q.part \in Nat /\ q.parser.at \in Nat
  BY <1>2, <1>4 DEF ParserType
<1> QED BY <1>1, <1>2, <1>3, <1>4, <1>5 DEF q

LEMMA AskAdvances ==
    ASSUME Typed, NEW r \in Requests, Sorted(r), Ask(r)
    PROVE  Advances(r)
<1> DEFINE q == req[r]
           next == req'[r]
<1>0. q.pc = "next" /\ q.pc \in Busy
  BY DEF Ask, Busy
<1>1. PICK o \in NextField(q.input.parts, q.parser) :
          LET asked == [q EXCEPT !.parser = o.p] IN
          req' = [req EXCEPT ![r] =
              CASE o.tag = "end"   -> [asked EXCEPT !.pc = "done", !.res = "ok"]
                [] o.tag = "error" -> [asked EXCEPT !.pc = "done", !.res = "multipart"]
                [] OTHER -> IF q.input.parts[o.p.at].name = UploadField
                            THEN [asked EXCEPT !.pc = "read", !.part = o.p.at]
                            ELSE asked]
  BY DEF Ask, Body
<1>2. /\ q.input \in Inputs /\ Sizes(q.input.parts) /\ Reading(app, q)
      /\ Len(q.input.parts) \in Nat /\ q.part \in Nat
      /\ q.parser \in ParserType /\ q.parser.at \in Nat
      /\ q.parser.at <= Len(q.input.parts)
      /\ q.res = "none" /\ DOMAIN q = Fields /\ DOMAIN req = Requests
      /\ WantedIn(q.input) \subseteq 1 .. Len(q.input.parts)
  BY <1>0, BusyRequest
<1>3. /\ InOrder(q) /\ Blamed(app, q) /\ q.input.form
  BY <1>0 DEF Sorted, InOrder
<1>4. /\ o.p \in ParserType /\ o.tag \in {"field", "end", "error"}
      /\ o.p.limits = q.parser.limits /\ o.p.at <= Len(q.input.parts)
      /\ o.p.at \in Nat
      /\ o.tag = "field" => o.p.at = q.parser.at + 1
  <2>1. /\ o.p \in ParserType /\ o.tag \in {"field", "end", "error"}
        /\ o.p.limits = q.parser.limits /\ o.p.at <= Len(q.input.parts)
        /\ o.tag = "field" => o.p.at = q.parser.at + 1
    BY <1>2, NextFieldOutcome
  <2> QED BY <2>1 DEF ParserType
<1>5. /\ Tallied(q.input.parts, o.p)
      /\ o.tag = "end" => o.p.at = Len(q.input.parts) /\ o.p.at = q.parser.at
      /\ o.tag = "error" \/ o.p.broken => q.cut \/ Exceeds(q.input.parts, app.limits)
  BY <1>2, NextFieldReason DEF Reading
<1> DEFINE wanted == o.tag = "field" /\ q.input.parts[o.p.at].name = UploadField
<1>6. /\ next.input = q.input /\ next.parser = o.p /\ next.kept = q.kept
      /\ next.cut = q.cut
      /\ next.pc = (IF o.tag # "field" THEN "done"
                    ELSE IF wanted THEN "read" ELSE "next")
      /\ next.res = (IF o.tag = "end" THEN "ok"
                     ELSE IF o.tag = "error" THEN "multipart" ELSE q.res)
      /\ next.part = (IF wanted THEN o.p.at ELSE q.part)
  <2> DEFINE asked == [q EXCEPT !.parser = o.p]
  <2>0. /\ DOMAIN asked = Fields /\ asked.parser = o.p /\ asked.input = q.input
        /\ asked.kept = q.kept /\ asked.cut = q.cut /\ asked.pc = "next"
        /\ asked.res = q.res /\ asked.part = q.part
    BY <1>0, <1>2 DEF Fields
  <2>5. next =
            CASE o.tag = "end"   -> [asked EXCEPT !.pc = "done", !.res = "ok"]
              [] o.tag = "error" -> [asked EXCEPT !.pc = "done", !.res = "multipart"]
              [] OTHER -> IF q.input.parts[o.p.at].name = UploadField
                          THEN [asked EXCEPT !.pc = "read", !.part = o.p.at]
                          ELSE asked
    BY <1>1, <1>2
  <2> HIDE DEF asked, next
  <2>1. CASE o.tag = "end"
    <3>1. next = [asked EXCEPT !.pc = "done", !.res = "ok"]
      BY <2>1, <2>5
    <3> QED BY <2>0, <2>1, <3>1 DEF Fields
  <2>2. CASE o.tag = "error"
    <3>1. next = [asked EXCEPT !.pc = "done", !.res = "multipart"]
      BY <2>2, <2>5
    <3> QED BY <2>0, <2>2, <3>1 DEF Fields
  <2>3. CASE wanted
    <3>1. next = [asked EXCEPT !.pc = "read", !.part = o.p.at]
      BY <2>3, <2>5
    <3> QED BY <2>0, <2>3, <3>1 DEF Fields
  <2>4. CASE o.tag = "field" /\ ~wanted
    <3>1. next = asked
      BY <2>4, <2>5
    <3> QED BY <2>0, <2>4, <3>1
  <2> QED BY <1>4, <2>1, <2>2, <2>3, <2>4
<1>7. KeptPairs(next) = KeptPairs(q) /\ KeptParts(next) = KeptParts(q)
  BY <1>6 DEF KeptPairs, KeptParts
<1> HIDE DEF next, wanted
<1>8. /\ q.kept \in Seq(KeptPairs(q))
      /\ KeptParts(q) \subseteq WantedIn(q.input)
      /\ \A i \in KeptParts(q) : i \in Nat /\ i <= q.part
      /\ \A i \in WantedIn(q.input) : i \in Nat
      /\ \A i \in WantedIn(q.input) : i <= q.parser.at => i \in KeptParts(q)
      /\ q.part <= q.parser.at
      /\ q.part # 0 => q.part \in WantedIn(q.input)
  BY <1>0, <1>2, <1>3 DEF InOrder
<1>9. q.part # 0 => q.part \in KeptParts(q)
  BY <1>8
<1>10. InOrder(next)
  <2>1. CASE o.tag = "end"
    <3>1. WantedIn(q.input) \subseteq KeptParts(q)
      BY <1>2, <1>5, <1>8, <2>1
    <3>2. \A i \in WantedIn(q.input) : i < q.part => i \in KeptParts(q)
      BY <3>1
    <3>3. next.pc = "done" /\ next.res = "ok" /\ next.part = q.part
      BY <1>6, <2>1 DEF wanted
    <3> QED BY <1>6, <1>7, <1>8, <3>1, <3>2, <3>3 DEF InOrder
  <2>2. CASE o.tag = "error"
    <3>1. next.pc = "done" /\ next.res = "multipart" /\ next.part = q.part
      BY <1>6, <2>2 DEF wanted
    <3> QED BY <1>0, <1>3, <1>6, <3>1, EndedInOrder DEF Busy
  <2>3. CASE o.tag = "field" /\ ~wanted
    <3>1. next.pc = "next" /\ next.res = "none" /\ next.part = q.part
      BY <1>2, <1>6, <2>3
    <3>2. o.p.at \notin WantedIn(q.input)
      BY <1>3, <2>3 DEF WantedIn, wanted
    <3>3. \A i \in WantedIn(q.input) : i <= o.p.at => i \in KeptParts(q)
      <4> SUFFICES ASSUME NEW i \in WantedIn(q.input), i <= o.p.at
                   PROVE  i \in KeptParts(q)
        OBVIOUS
      <4>1. i # o.p.at
        BY <3>2
      <4>2. i <= q.parser.at
        BY <1>2, <1>4, <1>8, <2>3, <4>1
      <4> QED BY <1>8, <4>2
    <3>4. q.part <= o.p.at
      BY <1>2, <1>4, <1>8, <2>3
    <3>5. \A i \in WantedIn(q.input) : i < q.part => i \in KeptParts(q)
      BY <1>0, <1>3 DEF InOrder
    <3> QED BY <1>3, <1>6, <1>7, <1>8, <3>1, <3>3, <3>4, <3>5 DEF InOrder
  <2>4. CASE wanted
    <3>1. next.pc = "read" /\ next.res = "none" /\ next.part = o.p.at
      BY <1>2, <1>6, <2>4 DEF wanted
    <3>2. o.p.at \in WantedIn(q.input)
      BY <1>2, <1>4, <2>4 DEF WantedIn, wanted
    <3>3. \A i \in KeptParts(q) : i < o.p.at
      BY <1>2, <1>4, <1>8, <2>4 DEF wanted
    <3>4. \A i \in WantedIn(q.input) : i < o.p.at => i \in KeptParts(q)
      BY <1>2, <1>4, <1>8, <2>4 DEF wanted
    <3>5. o.p.at \notin KeptParts(q) /\ \A i \in KeptParts(q) : i <= o.p.at
      BY <1>4, <1>8, <3>3
    <3> QED BY <1>6, <1>7, <1>8, <3>1, <3>2, <3>4, <3>5 DEF InOrder
  <2> QED BY <1>4, <2>1, <2>2, <2>3, <2>4
<1>11. Blamed(app, next)
  <2>1. \A i \in KeptParts(next) : Fine(app, next.input, i)
    BY <1>0, <1>3, <1>6, <1>7 DEF Blamed
  <2>2. Reading(app, next)
    BY <1>2, <1>4, <1>5, <1>6 DEF Reading
  <2>3. next.res \in {"none", "ok", "multipart"}
    BY <1>2, <1>6
  <2>4. next.res = "multipart" => q.cut \/ Exceeds(q.input.parts, app.limits)
    BY <1>2, <1>5, <1>6
  <2> QED BY <1>6, <2>1, <2>2, <2>3, <2>4 DEF Blamed
<1>12. next.pc \in {"done", "read", "next"}
  BY <1>6
<1> QED BY <1>7, <1>9, <1>10, <1>11, <1>12 DEF Advances, Named, next

(* With a part at hand, the order stays as it is until the part is stored. *)
LEMMA OnwardInOrder ==
    ASSUME NEW q, NEW e, InOrder(q), q.pc \in {"read", "check", "put", "write"},
           e.pc \in {"read", "check", "put", "write"}, e.res # "ok",
           e.kept = q.kept, e.input = q.input, e.part = q.part,
           e.parser.at = q.parser.at
    PROVE  InOrder(e) /\ KeptPairs(e) = KeptPairs(q) /\ KeptParts(e) = KeptParts(q)
<1>1. KeptPairs(e) = KeptPairs(q)
  BY DEF KeptPairs
<1>2. KeptParts(e) = KeptParts(q)
  BY <1>1 DEF KeptParts
<1> QED BY <1>1, <1>2 DEF InOrder

LEMMA ReadAdvances ==
    ASSUME Typed, NEW r \in Requests, Sorted(r), Read(r)
    PROVE  Advances(r)
<1> DEFINE q == req[r]
           next == req'[r]
<1>0. q.pc = "read" /\ q.pc \in Busy
  BY DEF Read, Busy
<1>1. PICK o \in Content(q.input.parts, q.parser) :
          req' = [req EXCEPT ![r].parser = o.p,
                     ![r].pc = IF o.tag = "read" THEN "check" ELSE "done",
                     ![r].res = IF o.tag = "read" THEN @ ELSE "multipart"]
  BY DEF Read, ReadField, Body
<1>2. /\ Sizes(q.input.parts) /\ Reading(app, q)
      /\ q.parser \in ParserType /\ q.parser.at <= Len(q.input.parts)
      /\ q.res = "none" /\ DOMAIN q = Fields /\ DOMAIN req = Requests
  BY <1>0, BusyRequest
<1>3. InOrder(q) /\ Blamed(app, q)
  BY DEF Sorted
<1>4. /\ o.tag \in {"read", "error"}
      /\ o.p.limits = q.parser.limits /\ o.p.at = q.parser.at
  BY <1>2, ContentOutcome
<1>5. /\ Tallied(q.input.parts, o.p)
      /\ o.tag = "error" \/ o.p.broken => q.cut \/ Exceeds(q.input.parts, app.limits)
  BY <1>2, ContentReason DEF Reading
<1>6. /\ next.input = q.input /\ next.parser = o.p /\ next.kept = q.kept
      /\ next.cut = q.cut /\ next.part = q.part
      /\ next.pc = (IF o.tag = "read" THEN "check" ELSE "done")
      /\ next.res = (IF o.tag = "read" THEN "none" ELSE "multipart")
  BY <1>1, <1>2 DEF Fields
<1> HIDE DEF next
<1>7. InOrder(next) /\ KeptPairs(next) = KeptPairs(q) /\ KeptParts(next) = KeptParts(q)
  <2>1. CASE o.tag = "read"
    BY <1>0, <1>3, <1>4, <1>6, <2>1, OnwardInOrder
  <2>2. CASE o.tag # "read"
    BY <1>0, <1>3, <1>6, <2>2, EndedInOrder
  <2> QED BY <2>1, <2>2
<1>8. Blamed(app, next)
  <2>1. \A i \in KeptParts(next) : Fine(app, next.input, i)
    BY <1>0, <1>3, <1>6, <1>7 DEF Blamed
  <2>2. Reading(app, next)
    BY <1>2, <1>4, <1>5, <1>6 DEF Reading
  <2>3. next.res \in {"none", "multipart"}
    BY <1>6
  <2>4. next.res = "multipart" => q.cut \/ Exceeds(q.input.parts, app.limits)
    BY <1>4, <1>5, <1>6
  <2> QED BY <1>6, <2>1, <2>2, <2>3, <2>4 DEF Blamed
<1>9. next.pc \in {"check", "done"}
  BY <1>6
<1> QED BY <1>6, <1>7, <1>8, <1>9 DEF Advances, Named, next

(* A name whose key is empty ends in nothing but dots.                     *)
LEMMA EmptyKeyName ==
    ASSUME NEW config, NEW name \in FileNames \cup {None}, NEW id, id # NoId,
           IsEmptyKey(GenerateKey(config, name, id))
    PROVE  OnlyDots(name)
<1>1. \A n : ~IsEmptyKey(UniqueKey(n, id))
  BY DEF UniqueKey, IsEmptyKey
<1>2. name # None /\ GenerateKey(config, name, id) = [id |-> NoId, parts |-> Sanitized(name)]
  BY <1>1 DEF GenerateKey
<1>3. Sanitized(name) = <<Bare(0)>>
  BY <1>2 DEF IsEmptyKey
<1>4. CASE HasFileName(name)
  <2> DEFINE last == LastComponent(name)
             clean == [last EXCEPT !.stem = Clean[@], !.dots = 0]
  <2>1. last \in Segment
    BY <1>2, <1>4, LastSegment
  <2>2. last \in [dots : Nat, stem : Stems, ext : Exts]
    BY <2>1 DEF Segment
  <2>3. Sanitized(name)[1] = clean
    <3> DEFINE kept == <<last>>
    <3>1. Sanitized(name) = [i \in DOMAIN kept |->
              [kept[i] EXCEPT !.stem = Clean[@], !.dots = IF i = 1 THEN 0 ELSE @]]
      BY <1>4 DEF Sanitized
    <3>2. 1 \in DOMAIN kept /\ kept[1] = last
      OBVIOUS
    <3> HIDE DEF kept, last
    <3>3. Sanitized(name)[1] =
              [kept[1] EXCEPT !.stem = Clean[@], !.dots = IF 1 = 1 THEN 0 ELSE @]
      BY <3>1, <3>2
    <3> QED BY <3>2, <3>3
  <2>4. clean = Bare(0)
    BY <1>3, <2>3
  <2>5. clean.stem = Clean[last.stem] /\ clean.ext = last.ext
    BY <2>2
  <2>6. last.stem = "" /\ last.ext = ""
    <3>1. Bare(0).stem = "" /\ Bare(0).ext = ""
      BY DEF Bare
    <3>2. Clean[last.stem] = "" /\ last.ext = ""
      BY <2>4, <2>5, <3>1
    <3>3. last.stem \in Stems
      BY <2>2
    <3> HIDE DEF last, clean
    <3> QED BY <3>2, <3>3, UploadedFilesAssumption
  <2>7. last = Bare(last.dots)
    <3> HIDE DEF last
    <3> QED BY <2>2, <2>6 DEF Bare
  <2>8. ASSUME NEW i \in DOMAIN name, IsLast(name, i)
        PROVE  name[i] = last
    <3> DEFINE j == CHOOSE j \in DOMAIN name : IsLast(name, j)
    <3>1. j \in DOMAIN name /\ IsLast(name, j)
      BY <2>8
    <3>2. DOMAIN name \subseteq Nat
      <4>1. name \in Seq(Segment)
        BY <1>2, UploadedFilesAssumption
      <4> QED BY <4>1
    <3>3. last = name[j]
      BY DEF LastComponent
    <3> HIDE DEF j, last
    <3>4. i <= j /\ j <= i
      BY <2>8, <3>1 DEF IsLast
    <3>5. i = j
      BY <3>1, <3>2, <3>4
    <3> QED BY <3>3, <3>5
  <2> HIDE DEF last
  <2> QED BY <1>2, <2>7, <2>8 DEF OnlyDots
<1>5. CASE ~HasFileName(name)
  <2>1. \A i \in DOMAIN name : IsLast(name, i) => name[i] = Bare(2)
    BY <1>5 DEF HasFileName
  <2>2. Bare(2).dots = 2
    BY DEF Bare
  <2> QED BY <1>2, <2>1, <2>2 DEF OnlyDots
<1> QED BY <1>4, <1>5

LEMMA CheckAdvances ==
    ASSUME Typed, NEW r \in Requests, Sorted(r), Check(r)
    PROVE  Advances(r)
<1> DEFINE q == req[r]
           next == req'[r]
           file == FileOf(q.input, q.part)
           errors == Validate(app.validator, file)
<1>0. q.pc = "check" /\ q.pc \in Busy
  BY DEF Check, Busy
<1>1. req' = [req EXCEPT ![r] =
           IF DOMAIN errors # {} THEN [Answered(r, "validation") EXCEPT !.errors = errors]
           ELSE IF Over(file.size, app.config.max) THEN Answered(r, "toolarge")
           ELSE IF app.local /\ IsEmptyKey(Key(r)) THEN Answered(r, "invalid")
           ELSE [q EXCEPT !.pc = "put", !.key = Key(r)]]
  BY DEF Check, TooBig, File, FileOf, Body
<1>2. /\ q.input \in Inputs /\ Reading(app, q) /\ q.part \in Nat
      /\ q.res = "none" /\ DOMAIN q = Fields /\ DOMAIN req = Requests
      /\ q.part # 0
  BY <1>0, BusyRequest DEF Typed, Sound
<1>3. InOrder(q) /\ Blamed(app, q)
  BY DEF Sorted
<1>4. Accepts(app.validator, file) <=> DOMAIN errors = {}
  BY DEF Accepts
<1>5. IsEmptyKey(Key(r)) => OnlyDots(file.name)
  <2>1. q.part \in 1 .. Len(q.input.parts)
    BY <1>0, <1>2, <1>3, WantedInBody DEF InOrder
  <2>2. q.input.parts[q.part].filename \in FileNames \cup {None}
    BY <1>2, <2>1, UploadsAssumption
  <2>3. /\ file.name = q.input.parts[q.part].filename
        /\ File(r, q.part).name = file.name
    BY DEF FileOf, FromBytes, FromField, File, Body
  <2>4. <<r, q.part>> # NoId
    BY DEF NoId
  <2>5. Key(r) = GenerateKey(app.config, file.name, <<r, q.part>>)
    BY <2>3 DEF Key
  <2> HIDE DEF file, q
  <2> QED BY <2>2, <2>3, <2>4, <2>5, EmptyKeyName
<1>6. app.config.unique => Key(r).id = <<r, q.part>>
  BY DEF Key, GenerateKey, UniqueKey
<1> HIDE DEF errors
<1>7. PICK res \in {"none", "validation", "toolarge", "invalid"} :
          /\ next.input = q.input /\ next.parser = q.parser /\ next.kept = q.kept
          /\ next.cut = q.cut /\ next.part = q.part /\ next.res = res
          /\ next.pc = (IF res = "none" THEN "put" ELSE "done")
          /\ res = "none" => next.key = Key(r)
          /\ res = "validation" => ~Accepts(app.validator, file)
          /\ res = "toolarge" => /\ Accepts(app.validator, file)
                                 /\ Over(file.size, app.config.max)
          /\ res = "invalid" => app.local /\ OnlyDots(file.name)
  <2>1. CASE DOMAIN errors # {}
    <3>1. next = [Answered(r, "validation") EXCEPT !.errors = errors]
      BY <1>1, <1>2, <2>1
    <3> WITNESS "validation" \in {"none", "validation", "toolarge", "invalid"}
    <3> HIDE DEF file
    <3> QED BY <1>2, <1>4, <2>1, <3>1 DEF Answered, Fields
  <2>2. CASE DOMAIN errors = {} /\ Over(file.size, app.config.max)
    <3>1. next = Answered(r, "toolarge")
      BY <1>1, <1>2, <2>2
    <3> WITNESS "toolarge" \in {"none", "validation", "toolarge", "invalid"}
    <3> HIDE DEF file
    <3> QED BY <1>2, <1>4, <2>2, <3>1 DEF Answered, Fields
  <2>3. CASE /\ DOMAIN errors = {} /\ ~Over(file.size, app.config.max)
             /\ app.local /\ IsEmptyKey(Key(r))
    <3>1. next = Answered(r, "invalid")
      BY <1>1, <1>2, <2>3
    <3> WITNESS "invalid" \in {"none", "validation", "toolarge", "invalid"}
    <3> HIDE DEF file
    <3> QED BY <1>2, <1>5, <2>3, <3>1 DEF Answered, Fields
  <2>4. CASE /\ DOMAIN errors = {} /\ ~Over(file.size, app.config.max)
             /\ ~(app.local /\ IsEmptyKey(Key(r)))
    <3>1. next = [q EXCEPT !.pc = "put", !.key = Key(r)]
      BY <1>1, <1>2, <2>4
    <3> WITNESS "none" \in {"none", "validation", "toolarge", "invalid"}
    <3> HIDE DEF file
    <3> QED BY <1>2, <3>1 DEF Fields
  <2> QED BY <2>1, <2>2, <2>3, <2>4
<1> HIDE DEF next
<1>8. InOrder(next) /\ KeptPairs(next) = KeptPairs(q) /\ KeptParts(next) = KeptParts(q)
  <2>1. CASE res = "none"
    BY <1>0, <1>3, <1>7, <2>1, OnwardInOrder
  <2>2. CASE res # "none"
    BY <1>0, <1>3, <1>7, <2>2, EndedInOrder
  <2> QED BY <2>1, <2>2
<1>9. Blamed(app, next)
  <2>1. \A i \in KeptParts(next) : Fine(app, next.input, i)
    BY <1>0, <1>3, <1>7, <1>8 DEF Blamed
  <2>2. Reading(app, next)
    BY <1>2, <1>7 DEF Reading
  <2>3. FileOf(next.input, next.part) = file
    BY <1>7
  <2> HIDE DEF file
  <2> QED BY <1>2, <1>7, <2>1, <2>2, <2>3 DEF Blamed
<1>10. Named(r, next)
  BY <1>6, <1>7 DEF Named
<1>11. next.pc \in {"put", "done"}
  BY <1>7
<1> QED BY <1>7, <1>8, <1>9, <1>10, <1>11 DEF Advances, next

LEMMA TruncateAdvances ==
    ASSUME Typed, NEW r \in Requests, Sorted(r), Truncate(r)
    PROVE  Advances(r)
<1> DEFINE q == req[r]
           next == req'[r]
<1>0. q.pc = "put" /\ q.pc \in Busy /\ app.local
  BY DEF Truncate, Busy
<1>1. q.res = "none" /\ DOMAIN q = Fields /\ DOMAIN req = Requests
  BY <1>0, BusyRequest
<1>2. InOrder(q) /\ Blamed(app, q) /\ Named(r, q)
  BY DEF Sorted
<1>3. /\ next.input = q.input /\ next.parser = q.parser /\ next.kept = q.kept
      /\ next.cut = q.cut /\ next.part = q.part /\ next.pc = "write"
      /\ next.res = "none" /\ next.key = q.key
  BY <1>1 DEF Truncate, Fields
<1>4. store' = With(q.key, Entry(r, FALSE))
  BY DEF Truncate
<1> HIDE DEF next
<1>5. InOrder(next) /\ KeptPairs(next) = KeptPairs(q) /\ KeptParts(next) = KeptParts(q)
  BY <1>0, <1>2, <1>3, OnwardInOrder
<1>6. Blamed(app, next)
  BY <1>0, <1>2, <1>3, <1>5 DEF Blamed, Reading
<1>7. Named(r, next)
  BY <1>0, <1>2, <1>3 DEF Named
<1> QED BY <1>0, <1>3, <1>4, <1>5, <1>6, <1>7 DEF Advances, next

LEMMA StoredAdvances ==
    ASSUME Vetted, NEW r \in Requests, Sorted(r), Stored(r)
    PROVE  Advances(r)
<1> DEFINE q == req[r]
           next == req'[r]
           pair == <<q.key, q.part>>
<1>0. /\ q.pc = (IF app.local THEN "write" ELSE "put")
      /\ q.pc \in {"put", "write"} /\ q.pc \in Busy /\ Typed
  BY DEF Stored, Busy, Vetted
<1>1. /\ q.input \in Inputs /\ Reading(app, q) /\ q.part \in Nat
      /\ Len(q.input.parts) \in Nat
      /\ q.res = "none" /\ DOMAIN q = Fields /\ DOMAIN req = Requests
      /\ WantedIn(q.input) \subseteq 1 .. Len(q.input.parts) /\ q.part # 0
  BY <1>0, BusyRequest DEF Typed, Sound
<1>2. InOrder(q) /\ Blamed(app, q)
  BY DEF Sorted
<1>3. /\ next.input = q.input /\ next.parser = q.parser
      /\ next.kept = Append(q.kept, pair)
      /\ next.cut = q.cut /\ next.part = q.part
      /\ next.pc = (IF q.input.form THEN "next" ELSE "done")
      /\ next.res = (IF q.input.form THEN "none" ELSE "ok")
  BY <1>1 DEF Stored, Fields
<1>4. \E whole \in IF Mixed(r) THEN BOOLEAN ELSE {TRUE} :
          store' = With(q.key, Entry(r, whole))
  BY DEF Stored
<1> HIDE DEF next
<1>5. /\ q.kept \in Seq(Pairs(q.kept))
      /\ KeptParts(q) \subseteq WantedIn(q.input) /\ q.part \in WantedIn(q.input)
      /\ \A i \in KeptParts(q) : i <= q.part
      /\ \A i \in WantedIn(q.input) : i < q.part => i \in KeptParts(q)
      /\ q.input.form => q.parser.at = q.part
  BY <1>0, <1>1, <1>2 DEF InOrder, KeptPairs
<1>6. KeptPairs(next) = KeptPairs(q) \cup {pair} /\ next.kept \in Seq(KeptPairs(next))
  <2> HIDE DEF q, pair
  <2> QED BY <1>3, <1>5, AppendPair DEF KeptPairs
<1>7. KeptParts(next) = KeptParts(q) \cup {q.part}
  <2>1. pair[2] = q.part
    OBVIOUS
  <2> HIDE DEF q, pair
  <2> QED BY <1>3, <1>5, <2>1, AppendPair DEF KeptPairs, KeptParts
<1>8. InOrder(next)
  <2>1. /\ KeptParts(next) \subseteq WantedIn(q.input)
        /\ \A i \in KeptParts(next) : i <= q.part
        /\ \A i \in WantedIn(q.input) : i <= q.part => i \in KeptParts(next)
        /\ \A i \in WantedIn(q.input) : i < q.part => i \in KeptParts(next)
    <3>1. \A i \in WantedIn(q.input) : i <= q.part => i < q.part \/ i = q.part
      BY <1>1
    <3> QED BY <1>1, <1>5, <1>7, <3>1
  <2>2. CASE q.input.form
    <3>1. next.pc = "next" /\ next.res = "none" /\ next.parser.at = q.part
      BY <1>3, <1>5, <2>2
    <3> QED BY <1>1, <1>3, <1>5, <1>6, <2>1, <2>2, <3>1 DEF InOrder
  <2>3. CASE ~q.input.form
    <3>1. next.pc = "done" /\ next.res = "ok"
      BY <1>3, <2>3
    <3>2. Len(q.input.parts) = 1
      BY <1>1, <2>3, UploadsAssumption
    <3>3. WantedIn(q.input) \subseteq KeptParts(next)
      BY <1>1, <1>5, <1>7, <3>2
    <3> QED BY <1>3, <1>5, <1>6, <2>1, <3>1, <3>3 DEF InOrder
  <2> QED BY <2>2, <2>3
<1>9. Blamed(app, next)
  <2>1. Fine(app, q.input, q.part)
    BY <1>0 DEF Vetted, Cleared
  <2>2. \A i \in KeptParts(next) : Fine(app, next.input, i)
    BY <1>0, <1>2, <1>3, <1>7, <2>1 DEF Blamed
  <2>3. Reading(app, next)
    BY <1>1, <1>3 DEF Reading
  <2>4. next.res \in {"none", "ok"}
    BY <1>3
  <2> QED BY <2>2, <2>3, <2>4 DEF Blamed
<1>10. next.pc \in {"next", "done"} /\ next.part = q.part
  BY <1>3
<1> QED BY <1>0, <1>4, <1>6, <1>8, <1>9, <1>10 DEF Advances, Named, next

LEMMA EndingAdvances ==
    ASSUME Typed, NEW r \in Requests, Sorted(r), Refuse(r) \/ StoreFails(r) \/ Cancel(r)
    PROVE  Advances(r)
<1> DEFINE q == req[r]
           next == req'[r]
<1>1. PICK res \in {"invalid", "storage", "dropped"} :
          /\ req' = [req EXCEPT ![r] = Answered(r, res)]
          /\ res = "invalid" => Refuses(app, q.key) /\ q.pc = "put"
  BY DEF Refuse, StoreFails, Cancel
<1>2. q.pc \in Busy
  BY DEF Refuse, StoreFails, Cancel, Busy
<1>3. DOMAIN q = Fields /\ DOMAIN req = Requests /\ InOrder(q) /\ Blamed(app, q)
  BY <1>2, BusyRequest DEF Sorted
<1>4. /\ next.input = q.input /\ next.kept = q.kept /\ next.part = q.part
      /\ next.pc = "done" /\ next.res = res /\ next.key = q.key
  BY <1>1, <1>3 DEF Answered, Fields
<1> HIDE DEF next
<1>5. InOrder(next) /\ KeptPairs(next) = KeptPairs(q) /\ KeptParts(next) = KeptParts(q)
  BY <1>2, <1>3, <1>4, EndedInOrder
<1>6. next.part # 0 \/ res # "invalid"
  BY <1>1, <1>4 DEF Typed, Sound
<1>7. Blamed(app, next)
  BY <1>1, <1>2, <1>3, <1>4, <1>5, <1>6 DEF Blamed, Busy
<1> QED BY <1>4, <1>5, <1>7 DEF Advances, Named, next

LEMMA BreakAdvances ==
    ASSUME Typed, NEW r \in Requests, Sorted(r), StreamBreaks(r)
    PROVE  Advances(r)
<1> DEFINE q == req[r]
           next == req'[r]
           broken == [q.parser EXCEPT !.broken = TRUE]
<1>0. q.pc \in {"next", "read"} /\ q.pc \in Busy
  BY DEF StreamBreaks, Busy
<1>1. /\ Reading(app, q) /\ q.parser \in ParserType /\ q.res = "none"
      /\ DOMAIN q = Fields /\ DOMAIN req = Requests /\ InOrder(q) /\ Blamed(app, q)
  BY <1>0, BusyRequest DEF Sorted
<1>2. /\ next.input = q.input /\ next.kept = q.kept /\ next.part = q.part
      /\ next.pc = q.pc /\ next.res = "none" /\ next.parser = broken /\ next.cut
  BY <1>1 DEF StreamBreaks, Fields
<1>3. /\ broken.limits = q.parser.limits /\ broken.at = q.parser.at
      /\ broken.fields = q.parser.fields /\ broken.files = q.parser.files
      /\ broken.open = q.parser.open
  BY <1>1 DEF ParserType
<1> HIDE DEF next, broken
<1>4. KeptPairs(next) = KeptPairs(q) /\ KeptParts(next) = KeptParts(q)
  BY <1>2 DEF KeptPairs, KeptParts
<1>5. InOrder(next)
  BY <1>1, <1>2, <1>3, <1>4 DEF InOrder
<1>6. Blamed(app, next)
  <2>1. Reading(app, next)
    BY <1>1, <1>2, <1>3 DEF Reading, Tallied
  <2> QED BY <1>0, <1>1, <1>2, <1>4, <2>1 DEF Blamed
<1> QED BY <1>0, <1>2, <1>4, <1>5, <1>6 DEF Advances, Named, next

LEMMA NextAdvances ==
    ASSUME Vetted, \A r \in Requests : Sorted(r), Next
    PROVE  \E r \in Requests : Effect(r) /\ Advances(r)
<1>0. Typed
  BY DEF Vetted
<1>1. PICK r \in Requests :
          \/ \E input \in Inputs : Submit(r, input)
          \/ Progress(r)
          \/ StoreFails(r) \/ StreamBreaks(r) \/ Cancel(r)
  BY DEF Next
<1>2. CASE \E input \in Inputs : Submit(r, input)
  BY <1>0, <1>2, SubmitEffect, SubmitAdvances
<1>3. CASE Progress(r)
  <2>1. Effect(r)
    BY <1>0, <1>3, AskEffect, ReadEffect, CheckEffect, EndingEffect, TruncateEffect,
       StoredEffect DEF Progress
  <2>2. Advances(r)
    BY <1>0, <1>3, AskAdvances, ReadAdvances, CheckAdvances, EndingAdvances,
       TruncateAdvances, StoredAdvances DEF Progress
  <2> QED BY <2>1, <2>2
<1>4. CASE StoreFails(r) \/ StreamBreaks(r) \/ Cancel(r)
  BY <1>0, <1>4, EndingEffect, BreakEffect, EndingAdvances, BreakAdvances
<1> QED BY <1>1, <1>2, <1>3, <1>4

(* The store and the requests agree: what a request has kept is there, if  *)
(* names are unique as the request left it; an object being written is     *)
(* there; and what is there is of a part that its request has reached.     *)
Accounted ==
    /\ Vetted
    /\ \A r \in Requests : Sorted(r)
    /\ \A r \in Requests : \A pair \in KeptPairs(req[r]) :
          /\ pair[1] \in DOMAIN store
          /\ app.config.unique =>
                /\ pair[1].id = <<r, pair[2]>>
                /\ store[pair[1]] = [by |-> r, part |-> pair[2], whole |-> TRUE]
    /\ \A r \in Requests : req[r].pc = "write" =>
          /\ app.local /\ req[r].key \in DOMAIN store
          /\ app.config.unique => store[req[r].key].by = r
    /\ \A k \in DOMAIN store :
          LET by == req[store[k].by] IN
          store[k].part \in KeptParts(by) \cup {by.part} /\ store[k].part # 0

LEMMA InitAccounted == ASSUME Init PROVE Accounted
<1>1. Vetted /\ DOMAIN store = {}
  BY InitVetted DEF Init
<1>2. ASSUME NEW r \in Requests
      PROVE  Sorted(r) /\ KeptPairs(req[r]) = {} /\ req[r].pc # "write"
  <2>1. /\ req[r].pc = "idle" /\ req[r].kept = <<>> /\ req[r].res = "none"
    BY DEF Init, Waiting
  <2>2. KeptPairs(req[r]) = {} /\ req[r].kept \in Seq(KeptPairs(req[r]))
    BY <2>1 DEF KeptPairs, Pairs
  <2>3. InOrder(req[r])
    BY <2>1, <2>2 DEF InOrder
  <2>4. Blamed(app, req[r]) /\ Named(r, req[r])
    BY <2>1 DEF Blamed, Named, Busy
  <2> QED BY <2>1, <2>2, <2>3, <2>4 DEF Sorted
<1> QED BY <1>1, <1>2 DEF Accounted

(* Writing under a key leaves the other keys as they are.                  *)
LEMMA WithKeeps ==
    ASSUME NEW key, NEW entry, store' = With(key, entry)
    PROVE  /\ DOMAIN store' = DOMAIN store \cup {key} /\ store'[key] = entry
           /\ \A k \in DOMAIN store : k # key => store'[k] = store[k]
  BY DEF With

LEMMA AccountedStep == ASSUME Accounted, [Next]_vars PROVE Accounted'
<1>0. Vetted /\ Vetted' /\ Typed
  BY VettedStep DEF Accounted, Vetted
<1>1. CASE UNCHANGED vars
  <2>1. app' = app /\ store' = store /\ req' = req
    BY <1>1 DEF vars
  <2>2. \A r \in Requests : Sorted(r)'
    BY <2>1 DEF Accounted, Sorted, Named
  <2> QED BY <1>0, <2>1, <2>2 DEF Accounted
<1>2. CASE Next
  <2>0. PICK r \in Requests : Effect(r) /\ Advances(r)
    BY <1>0, <1>2, NextAdvances DEF Accounted
  <2> DEFINE q == req[r]
             next == req'[r]
  <2>1. /\ app' = app /\ \A u \in Requests \ {r} : req'[u] = req[u]
        /\ \/ store' = store
           \/ /\ q.pc \in {"put", "write"}
              /\ \E whole \in BOOLEAN : store' = With(q.key, Entry(r, whole))
    BY <2>0 DEF Effect
  <2>2. /\ InOrder(next) /\ Blamed(app, next) /\ Named(r, next)
        /\ \/ KeptPairs(next) = KeptPairs(q)
           \/ /\ KeptPairs(next) = KeptPairs(q) \cup {<<q.key, q.part>>}
              /\ q.pc = IF app.local THEN "write" ELSE "put"
              /\ \E whole \in IF Mixed(r) THEN BOOLEAN ELSE {TRUE} :
                    store' = With(q.key, Entry(r, whole))
        /\ q.pc # "idle" => q.part \in KeptParts(next) \cup {0, next.part}
        /\ next.pc = "write" => /\ app.local /\ next.key = q.key
                                /\ store' = With(q.key, Entry(r, FALSE))
    BY <2>0 DEF Advances
  <2> HIDE DEF q, next
  <2>3. \A u \in Requests : Sorted(u)'
    <3> SUFFICES ASSUME NEW u \in Requests
                 PROVE  InOrder(req'[u]) /\ Blamed(app', req'[u]) /\ Named(u, req[u])'
      BY DEF Sorted
    <3>1. CASE u = r
      BY <2>1, <2>2, <3>1 DEF Named, next
    <3>2. CASE u # r
      <4>1. Sorted(u)
        BY DEF Accounted
      <4> QED BY <2>1, <3>2, <4>1 DEF Sorted, Named
    <3> QED BY <3>1, <3>2
  (* The store grows, and a unique key is overwritten by its owner only.   *)
  <2>4. DOMAIN store \subseteq DOMAIN store'
    BY <2>1, WithKeeps
  <2>5. ASSUME NEW k \in DOMAIN store, app.config.unique, NEW u, NEW i,
               k.id = <<u, i>>, u # r \/ i # q.part
        PROVE  store'[k] = store[k]
    <3>1. CASE store' = store
      BY <3>1
    <3>2. CASE /\ q.pc \in {"put", "write"}
               /\ \E whole \in BOOLEAN : store' = With(q.key, Entry(r, whole))
      <4>1. q.key.id = <<r, q.part>>
        BY <2>5, <3>2 DEF Accounted, Sorted, Named, q
      <4>2. k # q.key
        BY <2>5, <4>1
      <4> QED BY <3>2, <4>2, WithKeeps
    <3> QED BY <2>1, <3>1, <3>2
  <2>6. q.pc \in {"put", "write"} =>
            q.part \notin KeptParts(q) /\ q.part # 0
    BY <1>0 DEF Accounted, Sorted, InOrder, Typed, Sound, q
  <2>7. ASSUME NEW u \in Requests, NEW pair \in KeptPairs(req[u])
        PROVE  /\ pair[1] \in DOMAIN store'
               /\ app.config.unique =>
                     /\ pair[1].id = <<u, pair[2]>>
                     /\ store'[pair[1]] = [by |-> u, part |-> pair[2], whole |-> TRUE]
    <3>1. /\ pair[1] \in DOMAIN store
          /\ app.config.unique =>
                /\ pair[1].id = <<u, pair[2]>>
                /\ store[pair[1]] = [by |-> u, part |-> pair[2], whole |-> TRUE]
      BY DEF Accounted
    <3>2. CASE store' = store
      BY <3>1, <3>2
    <3>3. CASE q.pc \in {"put", "write"}
      <4>1. u # r \/ pair[2] # q.part
        <5>1. u = r => pair[2] \in KeptParts(q)
          BY DEF KeptParts, Parts, q
        <5> QED BY <2>6, <3>3, <5>1
      <4> QED BY <2>4, <2>5, <3>1, <4>1
    <3> QED BY <2>1, <3>2, <3>3
  <2>8. ASSUME NEW u \in Requests, NEW pair \in KeptPairs(req'[u])
        PROVE  /\ pair[1] \in DOMAIN store'
               /\ app.config.unique =>
                     /\ pair[1].id = <<u, pair[2]>>
                     /\ store'[pair[1]] = [by |-> u, part |-> pair[2], whole |-> TRUE]
    <3>1. CASE pair \in KeptPairs(req[u])
      BY <2>7, <3>1
    <3>2. CASE pair \notin KeptPairs(req[u])
      <4>1. /\ u = r /\ pair = <<q.key, q.part>>
            /\ q.pc = IF app.local THEN "write" ELSE "put"
            /\ \E whole \in IF Mixed(r) THEN BOOLEAN ELSE {TRUE} :
                  store' = With(q.key, Entry(r, whole))
        <5>1. u = r
          BY <2>1, <3>2
        <5> QED BY <2>2, <3>2, <5>1 DEF q, next
      <4>2. PICK whole \in IF Mixed(r) THEN BOOLEAN ELSE {TRUE} :
                store' = With(q.key, Entry(r, whole))
        BY <4>1
      <4>3. pair[1] = q.key /\ pair[2] = q.part
        BY <4>1
      <4>4. q.key \in DOMAIN store' /\ store'[q.key] = Entry(r, whole)
        BY <4>2 DEF With
      <4>5. ASSUME app.config.unique PROVE q.key.id = <<r, q.part>> /\ ~Mixed(r)
        <5>1. q.key.id = <<r, q.part>>
          BY <4>1, <4>5 DEF Accounted, Sorted, Named, q
        <5>2. app.local => store[q.key].by = r
          BY <4>1, <4>5 DEF Accounted, q
        <5>3. ASSUME NEW v \in Requests \ {r}, req[v].pc = "write"
              PROVE  req[v].key # q.key
          <6>1. req[v].key.id = <<v, req[v].part>>
            BY <4>5, <5>3 DEF Accounted, Sorted, Named
          <6> QED BY <5>1, <6>1
        <5> QED BY <5>1, <5>2, <5>3 DEF Mixed, q
      <4>6. Entry(r, TRUE) = [by |-> r, part |-> q.part, whole |-> TRUE]
        BY DEF Entry, q
      <4> QED BY <4>1, <4>2, <4>3, <4>4, <4>5, <4>6
    <3> QED BY <3>1, <3>2
  <2>9. ASSUME NEW u \in Requests, req'[u].pc = "write"
        PROVE  /\ app.local /\ req'[u].key \in DOMAIN store'
               /\ app.config.unique => store'[req'[u].key].by = u
    <3>1. CASE u = r
      <4>1. /\ app.local /\ req'[u].key = q.key
            /\ store' = With(q.key, Entry(r, FALSE))
        BY <2>2, <2>9, <3>1 DEF next
      <4>2. q.key \in DOMAIN store' /\ store'[q.key] = Entry(r, FALSE)
        BY <4>1 DEF With
      <4> QED BY <3>1, <4>1, <4>2 DEF Entry
    <3>2. CASE u # r
      <4>1. /\ req'[u] = req[u] /\ app.local /\ req[u].key \in DOMAIN store
            /\ app.config.unique => store[req[u].key].by = u
        BY <2>1, <2>9, <3>2 DEF Accounted
      <4>2. app.config.unique => req[u].key.id = <<u, req[u].part>>
        BY <2>9, <4>1 DEF Accounted, Sorted, Named
      <4> QED BY <2>4, <2>5, <3>2, <4>1, <4>2
    <3> QED BY <3>1, <3>2
  <2>10. ASSUME NEW k \in DOMAIN store'
         PROVE  LET by == req'[store'[k].by] IN
                store'[k].part \in KeptParts(by) \cup {by.part} /\ store'[k].part # 0
    <3>1. CASE k \in DOMAIN store /\ store'[k] = store[k]
      <4> DEFINE b == store[k].by
                 i == store[k].part
      <4>1. /\ i \in KeptParts(req[b]) \cup {req[b].part} /\ i # 0
            /\ b \in Requests /\ req[b].pc # "idle"
        BY <1>0, <3>1 DEF Accounted, Vetted, Typed
      <4>2. CASE b # r
        BY <2>1, <3>1, <4>1, <4>2
      <4>3. CASE b = r
        <5>1. KeptParts(q) \subseteq KeptParts(next)
          BY <2>2 DEF KeptParts, Parts
        <5>2. i \in KeptParts(q) \cup {q.part} /\ q.pc # "idle"
          BY <4>1, <4>3 DEF q
        <5>3. i \in KeptParts(next) \cup {next.part}
          BY <2>2, <4>1, <5>1, <5>2
        <5> QED BY <3>1, <4>1, <4>3, <5>3 DEF next
      <4> QED BY <4>2, <4>3
    <3>2. CASE /\ q.pc \in {"put", "write"} /\ k = q.key
               /\ store'[k].by = r /\ store'[k].part = q.part
      <4>1. q.part \in KeptParts(next) \cup {0, next.part}
        BY <2>2, <3>2
      <4> QED BY <2>6, <3>2, <4>1 DEF next
    <3> QED BY <2>0, <3>1, <3>2, Entries DEF q
  <2> QED BY <1>0, <2>1, <2>3, <2>8, <2>9, <2>10 DEF Accounted
<1> QED BY <1>1, <1>2

(* A handler that answers with Ok has stored every file of its request;    *)
(* under unique names they stay there, whole and its own, whatever other   *)
(* uploads do: no other handler makes the same key, so none truncates or   *)
(* overwrites it.                                                          *)
THEOREM OkAlwaysMeansStored == Spec => []OkMeansStored
<1>1. Init => Accounted
  BY InitAccounted
<1>2. Accounted /\ [Next]_vars => Accounted'
  BY AccountedStep
<1>3. ASSUME Accounted, NEW r \in Requests, req[r].pc = "done", req[r].res = "ok"
      PROVE  /\ KeptParts(req[r]) = Wanted(r)
             /\ \A p \in KeptPairs(req[r]) : p[1] \in DOMAIN store
             /\ app.config.unique => \A p \in KeptPairs(req[r]) :
                   store[p[1]] = [by |-> r, part |-> p[2], whole |-> TRUE]
  <2>1. WantedIn(req[r].input) = Wanted(r)
    BY DEF WantedIn, Wanted, Body
  <2>2. InOrder(req[r])
    BY <1>3 DEF Accounted, Sorted
  <2>3. KeptParts(req[r]) = WantedIn(req[r].input)
    BY <1>3, <2>2 DEF InOrder
  <2> QED BY <1>3, <2>1, <2>3 DEF Accounted
<1>4. Accounted => OkMeansStored
  BY <1>3 DEF OkMeansStored, KeptParts, KeptPairs, Pairs, Parts
<1> QED BY <1>1, <1>2, <1>4, PTL DEF Spec

(* A handler that fails has stored exactly the files before the one it     *)
(* failed at; of that one the store holds at most a rest, and of those     *)
(* after it nothing: files are taken up and stored one by one.             *)
THEOREM FailureAlwaysLeavesAPrefix == Spec => []FailureLeavesAPrefix
<1>1. Init => Accounted
  BY InitAccounted
<1>2. Accounted /\ [Next]_vars => Accounted'
  BY AccountedStep
<1>3. ASSUME Accounted, NEW r \in Requests, req[r].pc = "done"
      PROVE  /\ \A k \in DOMAIN store : store[k].by = r =>
                   store[k].part \in KeptParts(req[r]) \cup {req[r].part}
             /\ \A i \in Wanted(r) : i < req[r].part => i \in KeptParts(req[r])
             /\ \A i \in KeptParts(req[r]) : i <= req[r].part
  <2>1. WantedIn(req[r].input) = Wanted(r)
    BY DEF WantedIn, Wanted, Body
  <2>2. InOrder(req[r])
    BY <1>3 DEF Accounted, Sorted
  <2> QED BY <1>3, <2>1, <2>2 DEF Accounted, InOrder
<1>4. \A r : {req[r].kept[j][2] : j \in DOMAIN req[r].kept} = KeptParts(req[r])
  BY DEF KeptParts, KeptPairs, Pairs, Parts
<1>5. Accounted => FailureLeavesAPrefix
  <2> SUFFICES ASSUME Accounted, NEW r \in Requests, req[r].pc = "done"
               PROVE  LET mine == {store[k].part :
                                      k \in {x \in DOMAIN store : store[x].by = r}}
                          done == {req[r].kept[j][2] : j \in DOMAIN req[r].kept}
                      IN
                      /\ mine \subseteq done \cup {req[r].part}
                      /\ \A i \in Wanted(r) : i < req[r].part => i \in done
                      /\ \A i \in done : i <= req[r].part
    BY DEF FailureLeavesAPrefix
  <2> QED BY <1>3, <1>4
<1> QED BY <1>1, <1>2, <1>5, PTL DEF Spec

(* The status of an answer names the culprit: a 400 needs a file of the    *)
(* request that is not accepted or named by dots, or a local store without *)
(* a root or with a link or a special file in the way; a 413 needs a file  *)
(* too big, a 200 that every file is accepted and small enough, and a 500  *)
(* that is not the store's has a broken connection or a form beyond the    *)
(* limits behind it.                                                       *)
THEOREM StatusAlwaysTellsTheFault == Spec => []StatusTellsTheFault
<1>1. Init => Accounted
  BY InitAccounted
<1>2. Accounted /\ [Next]_vars => Accounted'
  BY AccountedStep
<1>3. ASSUME NEW b, NEW limits, Exceeds(b, limits)
      PROVE  ~Fits(b, limits)
  BY <1>3 DEF Exceeds, Fits, FilesIn
<1>4. ASSUME Accounted, NEW r \in Requests, req[r].pc = "done", req[r].res # "dropped"
      PROVE  LET files == {File(r, i) : i \in Wanted(r)}
                 good == {f \in files : Accepts(app.validator, f)}
                 status == Status(req[r].res)
             IN
             /\ status = 200 => files = good /\ \A f \in files : ~TooBig(f)
             /\ status = 400 => \/ files # good
                                \/ app.local /\ \E f \in files : OnlyDots(f.name)
                                \/ Refuses(app, req[r].key)
             /\ status = 413 => \E f \in good : TooBig(f)
             /\ status = 500 /\ ~req[r].cut /\ req[r].res # "storage" =>
                   ~Fits(Body(r), app.limits)
  <2> DEFINE q == req[r]
             files == {File(r, i) : i \in Wanted(r)}
             good == {f \in files : Accepts(app.validator, f)}
  <2>1. /\ InOrder(q) /\ Blamed(app, q)
        /\ q.res \in {"ok", "validation", "multipart", "toolarge", "invalid", "storage"}
    BY <1>4 DEF Accounted, Sorted, Vetted, Typed, Sound, Errors
  <2>2. WantedIn(q.input) = Wanted(r) /\ \A i : File(r, i) = FileOf(q.input, i)
    BY DEF WantedIn, Wanted, Body, File, FileOf
  <2>3. CASE q.res = "ok"
    <3>1. \A i \in Wanted(r) : Fine(app, q.input, i)
      BY <1>4, <2>1, <2>2, <2>3 DEF InOrder, Blamed
    <3>2. \A f \in files : Accepts(app.validator, f) /\ ~TooBig(f)
      BY <2>2, <3>1 DEF Fine, TooBig
    <3>3. Status(q.res) = 200
      BY <2>3 DEF Status
    <3> QED BY <3>2, <3>3
  <2>4. CASE q.res \in {"validation", "toolarge", "invalid"}
    <3> DEFINE file == File(r, q.part)
    <3>1. file \in files
      BY <1>4, <2>1, <2>2, <2>4 DEF InOrder, Blamed
    <3>2. /\ q.res = "validation" => ~Accepts(app.validator, file)
          /\ q.res = "toolarge" => Accepts(app.validator, file) /\ TooBig(file)
          /\ q.res = "invalid" => \/ app.local /\ OnlyDots(file.name)
                                  \/ Refuses(app, q.key)
      BY <2>1, <2>2 DEF Blamed, TooBig
    <3>3. Status(q.res) = IF q.res = "toolarge" THEN 413 ELSE 400
      BY <2>4 DEF Status
    <3> HIDE DEF file, files, q
    <3>4. CASE q.res = "toolarge"
      BY <3>1, <3>2, <3>3, <3>4 DEF q, files
    <3>5. CASE q.res = "validation"
      BY <3>1, <3>2, <3>3, <3>5 DEF q, files
    <3>6. CASE q.res = "invalid"
      BY <3>1, <3>2, <3>3, <3>6 DEF q, files
    <3> QED BY <2>4, <3>4, <3>5, <3>6
  <2>5. CASE q.res \in {"multipart", "storage"}
    <3>1. Status(q.res) = 500
      BY <2>5 DEF Status
    <3>2. q.res = "multipart" /\ ~q.cut => ~Fits(Body(r), app.limits)
      BY <1>3, <2>1 DEF Blamed, Body
    <3> QED BY <2>5, <3>1, <3>2
  <2> QED BY <2>1, <2>3, <2>4, <2>5
<1>5. Accounted => StatusTellsTheFault
  BY <1>4 DEF StatusTellsTheFault
<1> QED BY <1>1, <1>2, <1>5, PTL DEF Spec
=============================================================================
