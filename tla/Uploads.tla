------------------------------- MODULE Uploads -------------------------------
(***************************************************************************)
(* Handlers of upload requests, as src/lib.rs shows them: each takes the   *)
(* fields named "file" out of its request one by one, validates the file   *)
(* and stores it with put_file, and answers with the first error.  Files   *)
(* that the application makes itself go the same way.                      *)
(*                                                                         *)
(* The store is what the traits promise of it, see LocalStorage and        *)
(* CloudStorage: a local put destroys the old object before it writes the  *)
(* new one, and two of them on one key may leave a mixture; a cloud put    *)
(* happens at once.  Either may fail with or without an effect.            *)
(***************************************************************************)
EXTENDS FileRules, FiniteSets

CONSTANTS
    Requests,       \* requests handled at the same time
    Inputs,         \* what a request may bring: [form, parts], where form says
                    \* whether it is one, or a file the application makes
    Applications,   \* the application: [limits, validator, config, local,
                    \* rooted, linked]; local: its store is the local backend,
                    \* whose root is there (rooted) or not, and where the
                    \* keys linked are taken by links or special files
    UploadField     \* the name of the fields with files

ASSUME UploadsAssumption ==
    /\ None \notin Requests /\ UploadField \in PartNames
    /\ \A in \in Inputs :
          /\ in.form \in BOOLEAN /\ Len(in.parts) \in Nat
          /\ ~in.form => Len(in.parts) = 1
          /\ \A i \in 1 .. Len(in.parts) :
                /\ in.parts[i].filename \in FileNames \cup {None}
                /\ in.parts[i].size \in Nat
    /\ \A a \in Applications : /\ a.limits \in LimitsType
                               /\ a.config \in ConfigType
                               /\ a.local \in BOOLEAN /\ a.rooted \in BOOLEAN

VARIABLES
    app,        \* the application that was built; it stays the same
    store,      \* the store: key -> the part it holds, and whose it is
    req         \* the request each handler is at

vars == <<app, store, req>>

(* part: the part whose file is at hand; kept: the keys and parts stored   *)
(* so far; cut is history: the connection broke.                           *)
Waiting == [pc |-> "idle", input |-> None, parser |-> NewParser(Unlimited),
            part |-> 0, key |-> None, kept |-> <<>>, res |-> "none",
            errors |-> <<>>, cut |-> FALSE]

Busy == {"next", "read", "check", "put", "write"}

Body(r) == req[r].input.parts

File(r, i) == IF req[r].input.form THEN FromField(Body(r)[i])
              ELSE FromBytes(Body(r)[i])

TooBig(file) == Over(file.size, app.config.max)

Entry(r, whole) == [by |-> r, part |-> req[r].part, whole |-> whole]

With(key, entry) == [k \in DOMAIN store \cup {key} |->
                        IF k = key THEN entry ELSE store[k]]

Answered(r, res) == [req[r] EXCEPT !.pc = "done", !.res = res]

(* StorageError, as far as these calls answer it.                          *)
Errors == {"validation", "multipart", "toolarge", "invalid", "storage"}

TypeOK ==
    /\ app \in Applications
    /\ \A k \in DOMAIN store : store[k].by \in Requests /\ store[k].whole \in BOOLEAN
    /\ \A r \in Requests :
          /\ req[r].pc \in Busy \cup {"idle", "done"}
          /\ req[r].res \in Errors \cup {"none", "ok", "dropped"}
          /\ req[r].pc = "done" <=> req[r].res # "none"
          /\ DOMAIN req[r].errors # {} <=> req[r].res = "validation"
          /\ req[r].pc # "idle" => /\ req[r].input \in Inputs
                                   /\ req[r].part \in 0 .. Len(Body(r))
          /\ req[r].pc \in {"read", "check", "put", "write"} => req[r].part # 0

Init ==
    /\ app \in Applications
    /\ store = <<>>
    /\ req = [r \in Requests |-> Waiting]

-----------------------------------------------------------------------------
(* A request comes in                                                      *)

(* Mutant: a file of the application is not taken up before it is checked. *)
SubmitEmpty(r, input) ==
    /\ req[r].pc = "idle"
    /\ req' = [req EXCEPT ![r] = [Waiting EXCEPT
                  !.input = input, !.parser = NewParser(app.limits),
                  !.pc = IF input.form THEN "next" ELSE "check"]]
    /\ UNCHANGED <<app, store>>

Submit(r, input) ==
    /\ req[r].pc = "idle"
    /\ req' = [req EXCEPT ![r] = [Waiting EXCEPT
                  !.input = input, !.parser = NewParser(app.limits),
                  !.pc = IF input.form THEN "next" ELSE "check",
                  !.part = IF input.form THEN 0 ELSE 1]]
    /\ UNCHANGED <<app, store>>

(* Mutant: an error ends the loop over the fields like the end does.       *)
AskLenient(r) ==
    /\ req[r].pc = "next"
    /\ \E o \in NextField(Body(r), req[r].parser) :
          LET asked == [req[r] EXCEPT !.parser = o.p] IN
          req' = [req EXCEPT ![r] =
              IF o.tag # "field" THEN [asked EXCEPT !.pc = "done", !.res = "ok"]
              ELSE IF Body(r)[o.p.at].name = UploadField
              THEN [asked EXCEPT !.pc = "read", !.part = o.p.at]
              ELSE asked]
    /\ UNCHANGED <<app, store>>

(* next_field; the handler passes over what is not named UploadField.      *)
Ask(r) ==
    /\ req[r].pc = "next"
    /\ \E o \in NextField(Body(r), req[r].parser) :
          LET asked == [req[r] EXCEPT !.parser = o.p] IN
          req' = [req EXCEPT ![r] =
              CASE o.tag = "end"   -> [asked EXCEPT !.pc = "done", !.res = "ok"]
                [] o.tag = "error" -> [asked EXCEPT !.pc = "done", !.res = "multipart"]
                [] OTHER -> IF Body(r)[o.p.at].name = UploadField
                            THEN [asked EXCEPT !.pc = "read", !.part = o.p.at]
                            ELSE asked]
    /\ UNCHANGED <<app, store>>

(* Mutant: an error is taken for content that is still to come.            *)
ReadStubborn(r) ==
    /\ req[r].pc = "read"
    /\ \E o \in ReadField(Body(r), req[r].parser) :
          req' = [req EXCEPT ![r].parser = o.p,
                     ![r].pc = IF o.tag = "read" THEN "check" ELSE @]
    /\ UNCHANGED <<app, store>>

(* UploadedFile::from_field.                                               *)
Read(r) ==
    /\ req[r].pc = "read"
    /\ \E o \in ReadField(Body(r), req[r].parser) :
          req' = [req EXCEPT ![r].parser = o.p,
                     ![r].pc = IF o.tag = "read" THEN "check" ELSE "done",
                     ![r].res = IF o.tag = "read" THEN @ ELSE "multipart"]
    /\ UNCHANGED <<app, store>>

-----------------------------------------------------------------------------
(* validate, and put_file up to its first await                            *)

Key(r) == GenerateKey(app.config, File(r, req[r].part).name, <<r, req[r].part>>)

(* Mutant: what validate and the limit on sizes say is not looked at.      *)
CheckLoosely(r) ==
    /\ req[r].pc = "check"
    /\ req' = [req EXCEPT ![r].pc = "put", ![r].key = Key(r)]
    /\ UNCHANGED <<app, store>>

(* validate, then put_file, which makes the key and looks at the size      *)
(* before the store is asked for anything.                                 *)
Check(r) ==
    LET file == File(r, req[r].part)
        errors == Validate(app.validator, file)
    IN
    /\ req[r].pc = "check"
    /\ req' = [req EXCEPT ![r] =
           IF DOMAIN errors # {} THEN [Answered(r, "validation") EXCEPT !.errors = errors]
           ELSE IF TooBig(file) THEN Answered(r, "toolarge")
           ELSE IF app.local /\ IsEmptyKey(Key(r)) THEN Answered(r, "invalid")
           ELSE [@ EXCEPT !.pc = "put", !.key = Key(r)]]
    /\ UNCHANGED <<app, store>>

(* Keys that a local put refuses, see LocalStorage!Resolve: there is no    *)
(* root to put them in, or a link or a special file is in their place.     *)
Refuses(a, key) == a.local /\ (~a.rooted \/ key \in a.linked)

(* Mutant: the root is not the canonical one, and no key is found in it.   *)
RefuseEveryKey(r) ==
    /\ req[r].pc = "put" /\ app.local
    /\ req' = [req EXCEPT ![r] = Answered(r, "invalid")]
    /\ UNCHANGED <<app, store>>

(* resolve, or the check of the file just opened, answers InvalidFileName. *)
Refuse(r) ==
    /\ req[r].pc = "put" /\ Refuses(app, req[r].key)
    /\ req' = [req EXCEPT ![r] = Answered(r, "invalid")]
    /\ UNCHANGED <<app, store>>

(* A local put opens its file.                                             *)
Truncate(r) ==
    /\ req[r].pc = "put" /\ app.local /\ ~Refuses(app, req[r].key)
    /\ store' = With(req[r].key, Entry(r, FALSE))
    /\ req' = [req EXCEPT ![r].pc = "write"]
    /\ UNCHANGED app

(* Another handler has or had the file of this one open.                   *)
Mixed(r) ==
    /\ app.local
    /\ \/ store[req[r].key].by # r
       \/ \E u \in Requests \ {r} : req[u].pc = "write" /\ req[u].key = req[r].key

(* The object is stored and the handler goes on.                           *)
Stored(r) ==
    /\ req[r].pc = IF app.local THEN "write" ELSE "put"
    /\ \E whole \in IF Mixed(r) THEN BOOLEAN ELSE {TRUE} :
          store' = With(req[r].key, Entry(r, whole))
    /\ req' = [req EXCEPT ![r].kept = Append(@, <<req[r].key, req[r].part>>),
                          ![r].pc = IF req[r].input.form THEN "next" ELSE "done",
                          ![r].res = IF req[r].input.form THEN @ ELSE "ok"]
    /\ UNCHANGED app

(* What a put that fails or is dropped leaves behind.                      *)
LeftBehind(r) ==
    \/ store' = store
    \/ /\ req[r].pc = IF app.local THEN "write" ELSE "put"
       /\ \E whole \in IF app.local THEN BOOLEAN ELSE {TRUE} :
             store' = With(req[r].key, Entry(r, whole))

(* Mutant: a handler goes on with the next file.                           *)
StoreFailsOnward(r) ==
    /\ req[r].pc \in {"put", "write"}
    /\ LeftBehind(r)
    /\ req' = [req EXCEPT ![r].pc = IF req[r].input.form THEN "next" ELSE "done",
                          ![r].res = IF req[r].input.form THEN @ ELSE "storage"]
    /\ UNCHANGED app

StoreFails(r) ==
    /\ req[r].pc \in {"put", "write"}
    /\ LeftBehind(r)
    /\ req' = [req EXCEPT ![r] = Answered(r, "storage")]
    /\ UNCHANGED app

-----------------------------------------------------------------------------
(* The connection breaks; the handler is dropped                           *)

StreamBreaks(r) ==
    /\ req[r].pc \in {"next", "read"} /\ ~req[r].cut
    /\ req' = [req EXCEPT ![r].parser.broken = TRUE, ![r].cut = TRUE]
    /\ UNCHANGED <<app, store>>

Cancel(r) ==
    /\ req[r].pc \in Busy
    /\ LeftBehind(r)
    /\ req' = [req EXCEPT ![r] = Answered(r, "dropped")]
    /\ UNCHANGED app

Progress(r) == \/ Ask(r) \/ Read(r) \/ Check(r)
               \/ Refuse(r) \/ Truncate(r) \/ Stored(r)

Next == \E r \in Requests :
    \/ \E input \in Inputs : Submit(r, input)
    \/ Progress(r)
    \/ StoreFails(r) \/ StreamBreaks(r) \/ Cancel(r)

Spec == Init /\ [][Next]_vars

(* The handler is polled, its body arrives or breaks off, and the store    *)
(* answers.                                                                *)
FairSpec == Spec /\ \A r \in Requests : WF_vars(Progress(r))

-----------------------------------------------------------------------------
(* Properties                                                              *)

(* Whatever requests do at the same time, fail or are dropped: what is in  *)
(* the store, whole or not, comes from a part that the validator accepts   *)
(* and that is no larger than max_file_size.                               *)
OnlyAcceptedFilesAreStored ==
    \A k \in DOMAIN store :
        LET file == File(store[k].by, store[k].part)
        IN Accepts(app.validator, file) /\ ~TooBig(file)

(* README: an upload cannot pass by lying about its type.  A stored file   *)
(* that had to pass an allowlist declares a type of the list, and where    *)
(* its content is recognized, that is on every list too and agrees; where  *)
(* it is not, no list asked for it.  SVG, declared under either name, with *)
(* parameters or not, or found, needs the validator's consent.             *)
NothingPassesByLying ==
    \A k \in DOMAIN store :
        LET file == File(store[k].by, store[k].part)
            found == Sniffed(file.content)
            rules == {app.validator.rules[i] : i \in DOMAIN app.validator.rules}
        IN \A rule \in {x \in rules : x.rule = "types"} :
              /\ file.type # None /\ Permits(rule, file.type)
              /\ found # None => /\ Permits(rule, found)
                                 /\ Compatible(file.type, found)
              /\ found = None => ~rule.detect
              /\ IsSvgMime(file.type) \/ IsSvgMime(found) => app.validator.svg

(* The parts of a form that hold files.                                    *)
Wanted(r) == {i \in 1 .. Len(Body(r)) :
                 req[r].input.form => Body(r)[i].name = UploadField}

(* A request answered with Ok has every file it brought in the store, and  *)
(* with unique names each under a key of its own, whole, for as long as    *)
(* other requests only upload.                                             *)
OkMeansStored ==
    \A r \in Requests :
        req[r].pc = "done" /\ req[r].res = "ok" =>
            LET kept == {req[r].kept[j] : j \in DOMAIN req[r].kept} IN
            /\ {p[2] : p \in kept} = Wanted(r)
            /\ \A p \in kept : p[1] \in DOMAIN store
            /\ app.config.unique => \A p \in kept :
                  store[p[1]] = [by |-> r, part |-> p[2], whole |-> TRUE]

(* A request that fails leaves the files before the failure stored, of the *)
(* file it failed at at most a rest, and nothing of the files after it.    *)
FailureLeavesAPrefix ==
    \A r \in Requests :
        req[r].pc = "done" /\ req[r].res \notin {"ok", "dropped"} =>
            LET mine == {store[k].part : k \in {x \in DOMAIN store : store[x].by = r}}
                done == {req[r].kept[j][2] : j \in DOMAIN req[r].kept}
            IN
            /\ mine \subseteq done \cup {req[r].part}
            /\ \A i \in Wanted(r) : i < req[r].part => i \in done
            /\ \A i \in done : i <= req[r].part

(* StorageError::status_code, and 200.                                     *)
Status(res) == CASE res \in {"validation", "invalid"} -> 400
                 [] res = "toolarge" -> 413
                 [] res \in {"multipart", "storage"} -> 500
                 [] OTHER -> 200

Fits(body, limits) ==
    /\ ~Over(Len(body), limits.fields)
    /\ ~Over(Cardinality({i \in 1 .. Len(body) : IsFile(body[i])}), limits.files)
    /\ ~Over(Upto(body, Len(body)), limits.total)
    /\ \A i \in 1 .. Len(body) : ~Over(body[i].size, limits.field)
    /\ limits.allowed # None => \A i \in 1 .. Len(body) : body[i].name \in limits.allowed

(* A file name that ends in nothing but dots.                              *)
OnlyDots(name) ==
    /\ name # None
    /\ \A i \in DOMAIN name : IsLast(name, i) => name[i] = Bare(name[i].dots)

(* The status of an answer tells whose fault it was: 413 that of a file in *)
(* the request, 200 that of none; a 500 is due to the store, the           *)
(* connection or the limits on the form.  A 400 is the client's fault, for *)
(* a file not accepted or with a name of dots, but for one case: a local   *)
(* store has no root, or a link or a special file where the file at hand   *)
(* would go, which it answers with the error for a bad file name.          *)
StatusTellsTheFault ==
    \A r \in Requests :
        req[r].pc = "done" /\ req[r].res # "dropped" =>
            LET files == {File(r, i) : i \in Wanted(r)}
                good == {f \in files : Accepts(app.validator, f)}
                status == Status(req[r].res)
            IN
            /\ status = 200 => files = good /\ \A f \in files : ~TooBig(f)
            /\ status = 400 => \/ files # good
                               \/ app.local /\ \E f \in files : OnlyDots(f.name)
                               \/ Refuses(app, req[r].key)
            /\ status = 413 => \E f \in good : TooBig(f)
            /\ status = 500 /\ ~req[r].cut /\ req[r].res # "storage" =>
                  ~Fits(Body(r), app.limits)

(* However a client names its files, the key is one segment without dots   *)
(* in front, and on the local backend never the empty one.                 *)
KeysArePlain ==
    \A k \in DOMAIN store :
        /\ k.parts[1].dots = 0
        /\ app.local => ~IsEmptyKey(k)

(* Every request is answered.                                              *)
RequestsAnswered == \A r \in Requests : req[r].pc \in Busy ~> req[r].pc = "done"
=============================================================================
