# armature-storage in TLA+

`armature-storage` stores uploaded files: a `Storage` trait
(`src/src/storage.rs`) with four backends (local filesystem, S3, Google Cloud
Storage, Azure Blob), a multipart parser and a file validator in front of it.
This directory models the crate in TLA+, checks the models with TLC and proves
with TLAPS every safety property that TLC checks.

## 1. The system

| Part | State it keeps | Operations | What makes it correct |
|---|---|---|---|
| Local backend (`local.rs`) | a directory tree and its files; per call: open files, offsets, buffers | `put`, `put_file`, `get`, `head`, `exists`, `delete`, `copy`, `rename` | a key never leads out of the root; an undisturbed call does what the trait says, whatever was interrupted before; nothing is lost by an interrupted `rename`; sizes stay bounded; calls answer |
| Listing (`local.rs` `list_page`, `storage.rs` `list`) | per call: the stack of the walk, the page; per caller: cursor, what was reported | `list_page`, `list` | every object that stays is reported once over all pages, in order, within limits, however the store changes |
| S3, GCS, Azure (`s3.rs`, `gcs.rs`, `azure.rs`) | the objects of the service, requests in flight; GCS: a lazily built control client | the same trait by requests | an `Ok` means the effect took place; keys that are listed can be read; errors are classified |
| Multipart parser (`multipart.rs`) | the position in the stream, counters of fields and files | `next_field`, `into_stream`, `into_multipart`, `collect_files`, `collect_all` | limits hold over any mix of these calls |
| Validator (`validation.rs`) | a list of rules | `validate` | a file is accepted exactly if every rule accepts it |
| Uploaded file, keys, configuration (`file.rs`, `storage.rs`) | plain values | `from_field`, `from_bytes`, `generate_key`, `sanitize_filename` | whatever a client calls its file, its key is harmless |
| Upload handlers (`lib.rs` shows one) | per request: its parser, the file at hand; the store | `next_field`, `validate`, `put_file` in turn | what is stored was accepted; an answer says what happened and whose fault it was |

The pieces interact by calls: a handler takes fields from the multipart
parser, turns each into an `UploadedFile`, validates it and hands it to a
backend (`lib.rs` shows the flow). Backends share nothing but what they store.
A backend is used by any number of tasks of an async runtime at once and has no
lock: tasks of one process (and other processes on the same root or bucket)
interact only through the filesystem or the service.

What is hard here:

* every `await` is a point where other calls run and where the caller may drop
  the future or the process may die; `put` alone has five of them between
  its first check and its answer;
* a dropped future does not stop its last system call: it runs in the blocking
  pool of tokio and may truncate or write a file that was stored meanwhile;
* checks of a path (`assert_inside_root`) and its use (`open`, `unlink`) are
  different system calls;
* `put` truncates the object before it writes the new one, `copy` opens its
  target while its source is open, `rename` is copy and delete;
* keys that share components get in each other's way: `a` and `a/b`, `a` and
  `./a`;
* a listing is spread over many awaits and many calls and must still report
  each object once;
* cloud requests can take effect without their answer arriving;
* the limits of a form are kept by two parties: `multer` counts bytes while it
  reads ahead, the crate counts fields and files, and a caller may go on after
  an error, drop fields half read, or change from fields to a stream;
* a file passes through a validator whose rules combine (declared type, detected
  type, SVG, wildcards), and nothing but the order of calls in the handler keeps
  an unchecked file from the store.

`PROJECT.json` lists these as hazards, each at its line, with the properties
that are aimed at it.

## 2. The modules

| Module | What it is |
|---|---|
| `TreePaths` | paths as sequences of names, what lies above a path |
| `LocalPaths` | keys: what `normalize_relative`, `validate_relative` and `full_path` do to the components of a key |
| `DirectoryTree` | the abstract specification of what the backend does to names: directories appear and stay, files appear where nothing was and go away |
| `LocalStorage` | the local backend: the calls of any number of tasks over one tree |
| `LocalListing` | `list_page` and `list` over a `DirectoryTree` that changes meanwhile |
| `CloudStorage` | the S3, GCS and Azure backends: the calls of any number of tasks on one bucket, each a program of requests |
| `MultipartParser` | the parser as a value: what is left of a body, the counters, and the outcomes of `next_field` and of reading a field |
| `Multipart` | one caller and its parser: fields, streams, `collect_files`, `collect_all`, broken connections |
| `UploadedFiles` | uploaded files, file names, and the keys made of them |
| `FileRules` | the validator: its builders, each rule, `validate` |
| `Uploads` | handlers of several requests at once: parser, validator and store composed |
| `MCLocalStorage`, `MCLocalListing`, `MCCloudStorage`, `MCMultipart`, `MCUploads` | the instances TLC checks |
| `LocalStorageTyping` | proof of type correctness, with the inductive invariant |
| `LocalStorageProofs` | proofs about the tree and that `LocalStorage` implements `DirectoryTree` |
| `LocalStorageFilesProofs` | proofs about files: their size, that none outside the root is reached, who changes an object, what an undisturbed call does |
| `LocalListingProofs` | proofs about listings: types, order, what is reported, limits, errors |
| `CloudStorageProofs` | proofs about calls on a bucket: types, moves, answers, lists, the queue of the control client |
| `MultipartParserProofs` | lemmas about the parser that both users of it need |
| `MultipartProofs` | proofs about one form: types, limits, errors, what collectors return |
| `UploadsProofs` | proofs about handlers: types, what is stored, under which keys, what answers mean |

### LocalStorage

State. `tree` maps every path that matters (those on the way to a key of
`Calls`) to `Absent`, `Dir`, `Link` or an inode; `content` maps inodes to data,
a sequence of chunks, a chunk being what one read or write of an open file
moves; `task` holds, for each caller, the call it is in, its program counter,
open files, offset, buffer and result. An inode that has lost its last name
and descriptor is empty and free again (`Kept`, `Free`), so a file that was
deleted under a writer, and its successor of the same name, are two inodes.

Actions. One per stretch between awaits that another call can tell apart:

| Action | Code |
|---|---|
| `Begin` | the call up to its first await with an effect: size check, `resolve` |
| `MakeParents`, `MakeParentsFails` | `create_dir_all` and the second containment check; for `copy` also `resolve(to)` |
| `OpenSource` | `open_read` and `assert_opened_file_is_safe` |
| `Truncate`, `Create`, `CreateFails` | `open_write` (`O_CREAT`, `O_TRUNC`, `O_NOFOLLOW`) and the check of the descriptor |
| `Write`, `Read` | `write_all`/`flush`, `read_to_end`, a chunk at a time |
| `CopyRead`, `CopyWrite` | `tokio::io::copy`, a chunk at a time |
| `Stat` | `head`, `exists`, and the `head(to)` that ends `copy` |
| `Unlink` | `delete`, and the `delete(from)` that ends `rename` |
| `Fail` | any other step that returns an I/O error |
| `Cancel` | the future is dropped; its system call ends with it or goes on (`dropped`) |
| `LateMakeParents`, `LateOpen`, `LateWrite`, `LateUnlink`, `LateNothing` | that system call takes effect, once and by itself, or fails |
| `Crash` | the process dies |
| `Return` | the caller takes the answer |

Results are the variants of `StorageError`. `"io"` and `"eio"` are both
`Io`: the first is the answer of a working kernel (not a directory, is a
directory), the second that of a failing disk; the properties tell them apart.

Why some sequences of system calls are one step:

* `assert_inside_root` walks the path with one `lstat` per component. The
  backend never removes a directory and never makes a link, so what the walk
  saw of directories and links stays true; a component that appears meanwhile
  is a directory or a file, and the later open meets it again. The walk can be
  placed at any of its moments.
* `create_dir_all` makes directories one by one. A call that sees a part of
  them sees what `MakeParentsFails` leaves, which is a step of its own.
* `io::copy` may read its next chunk while the last one is being written; the
  model reads it after. The two differ only in what a copy mixes together when
  another call changes the file it reads at the same time.

Dropped futures. `tokio::fs` runs each system call in a blocking pool, and a
call that has started there runs to its end although the future that waited for
it is gone. `Cancel` therefore either ends the call, or leaves the record of the
task with `dropped` set when its next step is a system call that changes files
(`UnderWay`). Nothing of the call runs any more except that one system call,
which takes effect at any later moment (the actions `Late...`): an `O_TRUNC`
without the check of the descriptor, one chunk, one `unlink`, some directories.
A copy whose read fails while its last write is under way leaves it the same
way. The caller who tries again after a timeout is another task, so a leftover
and the repeated call meet. Until it is over a leftover counts as a call in
progress: a call that begins next to one which changes its paths is not `alone`.
It has to be so: the late `O_TRUNC` or write of a put that was given up can
destroy what the repeated put stored and answered `Ok` for, and the invariants
on single calls are false (in five steps of `LocalRace`, and for a rename in
`LocalMove`) if leftovers are not counted.

`alone` and `orig` are history variables: no call, nor a leftover of one, that
could disturb this one (that changes a path at, above or below one of its own)
has run since it began, and what its key named when it began. They turn the
promises of the trait, which speak of one call, into invariants of runs with
many.

A root that is not there (`create_directories = false`) is a state of the
instances: `resolve` climbs past it and answers `InvalidFileName` to every call.

### DirectoryTree

`LocalStorage` implements it under the mapping `Outline`, which forgets which
file a path names. It is the reason why `LocalListing` may take the rest of the
backend to be `Others`: a step of `DirectoryTree`.

### LocalListing

`walk` is the call of `list_page` in progress: its stack, the directory being
read and the entries left in it, the page. `caller` is who asked for it: a
caller that pages with any limits and repeats pages that failed, or `list`.
`history` is what was there all the time, what was ever there, and whether
nothing changed. Names are numbers, ordered like their bytes; `Less` is
`Path`'s order, by components. The test of the prefix is the set `Matching`.

### CloudStorage

The three backends are one program with differences: GCS has a control client
that the first call builds, S3 deletes what is not there and checks its options
first, GCS and Azure tell errors apart by their text. `backend` is the one that
was built; it is chosen initially and stays.

State. `objects` is the bucket. `task` holds, for each caller, the call it is
in, the request it is at, how often that was sent, the answer once there is
one, and for `list` the cursor and what was found. `late` is what was sent by a
caller that no longer waits. `control` and `queue` are the `OnceCell` of GCS:
whether the client is there, and who waits for it in the order of its semaphore.
An object name is a sequence of parts, split at `/`, so that the trimming and
stripping of prefixes is what the code does.

| Action | Code |
|---|---|
| `Begin` | the call up to its first request: size check, S3 options |
| `ControlBuilt`, `ControlFails`, `ControlThere` | `GcsStorage::control`, `get_or_try_init` |
| `Serve`, `ServePage`, `Refuse` | external: the service executes a request, or answers with an error |
| `Break`, `Resend`, `ServeLate` | external: an answer or a request is lost, the SDK sends it again, it arrives late |
| `ReceivePut` | after `send`: the URL of the object, which a `..` key does not have |
| `ReceiveGet`, `ReceiveHead`, `ReceiveDelete` | the mapping of the answer and of errors; `head` also ends `copy`, `delete` also ends `rename` |
| `ReceiveCopy` | the answer of the copy; `head(to)` is next |
| `ReceivePage` | `list_page`, and `list` around it, or a caller that pages with a limit of its own |
| `Repeat` | external: such a caller asks again for a page that failed, with the same cursor |
| `Cancel` | the future is dropped |
| `Return` | the caller takes the answer |

A request takes effect at one moment between its being sent and its answer,
which is what the three services promise for single requests. What stands
between an answer and the next request of a call changes nothing others see and
is one step.

`ever` collects what the names of a call have named since it began; `orig` and
`alone` are as in `LocalStorage`. They are history variables: with lost and late
requests a promise about the state at the end of a call would be false, and
"it was so at some moment of the call" is what remains.

### MultipartParser and Multipart

A body is a sequence of parts, each with a name, the file name it declares and
a size. The parsing is done by `multer`, which is external: `Polled` and
`Content` say what it may answer. The crate's own part is `Recorded`, which is
`ConstraintCounters::record` with its order: the counter of fields is raised
before it is compared, a file counts as a field too, and the counter of files
is only reached when the field was within its limit. `multer` reads ahead, so an error on the size of
the whole form may come earlier than the part that exceeds it, and whether
anything can be read after such an error is left open (`SizeErrors`).

| Action | Code |
|---|---|
| `Open`, `NoBoundary` | `from_request`, `new`, `unconstrained`, `with_constraints` |
| `AskNext` | `Multipart::next_field`, `MultipartStream::next_field` |
| `ReadHeld`, `DropHeld` | the field that came is read, or dropped unread |
| `IntoStream`, `IntoMultipart` | the conversions, which take the counters along |
| `CollectFiles`, `CollectAll` | `collect_files` and `collect_all` begin |
| `CollectNext`, `CollectRead` | one turn of their loops, split where it waits for the body |
| `TakeFile` | `MultipartData::take_file` |
| `StreamBreaks`, `Cancel`, `NextRequest` | the connection breaks, the caller drops everything, the next request |

`yielded`, `start` and `cut` are history: the parts handed out as fields, where
the collector began, and that the connection broke.

### UploadedFiles and FileRules

A file name is split at `/` into segments, a segment into its leading dots, its
stem and its extension, because these are the pieces that `Path::file_name`,
`Path::extension` and `sanitize_filename` tell apart; which characters a stem
loses is the constant `Clean`. Two kinds of names have no place in this form:
an extension after nothing but dots (`..png`, of which `Path::extension` says
`png`) and the empty extension of a name that ends in a dot. `GenerateKey` is `generate_key` of the backends:
a UUID, with the raw extension or without, or the sanitized name.

A validator is a sequence of rules and the consent to SVG. `Validate` asks
every rule, as `FileValidator::validate` does, and is the errors of those that
refuse, each at the place of its rule and attributed to it. The
content of a file is what `infer` makes of its first bytes (`magic`) and the
XML tokens it begins with, of which `IsSvgDocument` reads at most `SniffLimit`.
A type is two names and whether parameters follow.

### Uploads

`req[r]` is a handler: the loop of the example in `lib.rs`, whose awaits are
`next_field` (`Ask`), `from_field` (`Read`) and `put_file`. `Check` is what
stands between two awaits: `validate`, then `put_file` up to its first await,
which makes the key, compares sizes and, on the local backend, refuses the empty
key. Then the store acts. It is what `LocalStorage` and `CloudStorage` show of
it: a local put answers `InvalidFileName` if there is no root or if a link, a
hard link or a special file is where the object would go (`Refuse`; which keys
these are belongs to the application), and otherwise it destroys the old object
(`Truncate`) before the new one is there (`Stored`), two of them on one key may
mix, a put that fails or is dropped may have had its effect or, locally, a part
of it (`LeftBehind`). A request or a system call that outlives a dropped handler
needs no action here: a handler serves one request, so to the store and to all
others it is a handler that is dropped that much later.
`app` is the application that was built: limits, validator, configuration,
backend. Files that the application makes itself (`from_bytes`) go the same way
without a form.

## 3. What the runs check

| Run | Question | Bounds |
|---|---|---|
| `LocalRace` | two callers race puts of different lengths, reads and deletes on `a`, `./a` and `a/b` | 2 tasks, 9 calls, 4 stores (one without a root), files of 2 chunks |
| `LocalMove` | copies and renames in opposite directions between two keys, stored anew meanwhile | 2 tasks, 3 calls |
| `LocalLinks` | links, hard links, keys that climb or are absolute, a path prefix, a rename onto another spelling of the key; every call answers | 2 tasks, 15 calls, 2 stores, no symmetry |
| `LocalDeleteMissingIsOk`, `LocalRenameMovesTheFile` | what docs and comments say and the code does not do (section 5) | 1 task, 5 calls |
| `Listing` | paging and `list` below a path prefix while objects come and go, and one key is now an object and now a directory; both answer | 5 objects, limits 0 (2) and 1, cap 3 |
| `CloudMove` | renames and copies between two keys on GCS and S3, requests lost, repeated and late, the control client failing | 2 tasks, 3 calls, 2 sends of a request, 1 late request |
| `CloudList` | `list`, paging with a limit and repeated pages, lookups, puts and deletes on all three services below a prefix that begins a neighbour's name, one key without a URL; every call answers | 2 tasks, 8 calls, 5 names, pages of 2 and of 1, no symmetry |
| `Multipart` | any mix of fields, streams and collectors over one form; collectors answer | every body of up to 3 of 5 kinds of parts, 5 bodies at the default limits, 8 sets of limits |
| `Uploads` | two handlers upload at the same time, with errors, broken connections and dropped handlers; every request is answered | 2 requests, 13 inputs, 7 applications, no symmetry |
| `CloudDeleteReportsErrors`, `CloudListReportsEveryObject` | what docs say and the code does not do (section 5) | 1 task, 3 calls |

Two tasks are enough for every race between a step of one call and any step of
another, and calls follow each other without end, so what a call left behind
meets every later one. Two chunks are the least for which a file can be half
written, a hole can appear, and a put of one chunk is shorter than what it
replaces. There are as many inodes as two tasks can use at once, open or named:
four in `LocalMove`, where one more adds no state, so that `Free` is never
empty. The size limit is
two chunks, and a put of three is refused.

A put that runs next to another put of the same key may leave a mixture of the
two; the model shows it, and no property forbids it because the trait promises
nothing for it. What holds nevertheless is stated: sizes, containment, other
objects.

In the cloud runs `MaxSends` bounds the attempts of the SDK: the second is
enough for an effect to happen twice. `MaxLate` bounds the requests under way
without a caller: with one, an old effect can undo a newer one. Pages of at most
two of four names, and possibly shorter as the services allow, give lists of
several pages between which both callers act. In `CloudList` requests are not
repeated by the SDK and none is late, which `CloudMove` has; that a caller
repeats a page is there. The cap `MaxItems` is not
reached there; `Listing` is about it. Azure differs from GCS in the model only
by having no control client, so `CloudMove` leaves it out.

In `Multipart` (207 587 states) the small limits are each below what the
bodies of three parts can reach, the default ones are met by bodies of ten and
eleven files, of two and three parts of 50 MB, and by one of 51 MB. Three parts
are enough for a text between two files of one name, a part that is dropped,
and a part behind an error. The five kinds of parts have the two names, no
name, with and without a file, and sizes on both sides of the limits.

In `Uploads` (357 808 states) the inputs are chosen by what can go wrong: two
files whose names sanitize to the same key, a name that sanitizes to nothing, a
content that belies its type, SVG by its type, by an alias, with parameters, by
its content, and out of reach of the sniffer, an office document that is a
container, an empty file, an untyped file without a name, a file over the limit
of the store behind and before good ones. The applications combine the
presets and builders of the validator with unique and sanitized names, with
limits of every kind, and both kinds of stores, among them a local one with a
link where one of the files would go and one without a root. Two handlers are enough for a put to meet
another one on its key. A handler serves one request, so the system stops when
both are answered and the run does not check deadlock.

Fairness. `LocalLinks` assumes weak fairness of `Step(t)`: the runtime polls a
woken future again and the kernel answers its system calls, those of dropped
futures too. Nothing is assumed
of callers, failures and crashes. `Listing` assumes the same of the walk,
and that `list` asks for its next page, which it does in the same future.
`CloudList` assumes weak fairness of `Progress(t)`: the future is polled, an
attempt to build the control client ends one way or the other, and the service
answers a request that reaches it. It does not assume that it succeeds.
`Multipart` assumes weak fairness of `Collect`, `Uploads` of `Progress(r)`: the
handler is polled, its body arrives or breaks off, and the store answers. A
caller that holds a field need not do anything with it, and nothing makes
connections break.
Without bounds on the name space a walk could follow ever new objects; the
instances have finitely many.

## 4. What is proved

`LocalStorageTyping` proves `Spec => []TypeOK` for any tasks, calls, inodes
and initial trees that satisfy `LocalStorageAssumption` and
`PathPrefixAssumption`. The inductive invariant is `Typed`: `TypeOK` plus
`CallOK`, what the program counter says about keys and descriptors (a call past
`resolve` has a legal key, one that reads has its source open, an offset never
passes the data). There is one lemma per action.

`LocalStorageProofs` has three results. Each rests on `TreeSteps`, which reduces
a step of any call to one of three changes of the tree (directories on the way
to a path, a new name for a free inode, a name dropped), and on `Transitions`,
which says where the program counter of each caller may go.

* `TreeStaysTree` (`[]TreeOK`): each of the three changes preserves it.
* `ImplementsDirectoryTree`: under the mapping `Outline` the initial tree is
  one of `DirectoryTree`, and each change is one of its steps or a stutter.
* `PutFindsItsParents` (`[]PutNeverNotFound`): the strengthening `PutSafe` adds
  that the parents of a put, copy or rename about to open its target are
  directories, which stays true because no step takes a directory away.

`LocalStorageFilesProofs` has six more. The first three are about bounds:

* `SizesBounded` (`[]SizeBounded`). Alone it is not inductive: a put must keep
  data that fits, and a copy about to write must stand at an offset below the
  limit. `SizeSafe` says so. The offset of a copy never passes what it has read
  from a file that is bounded itself, so no check of the size is needed there.
* `StaysContained` (`[]Contained`): `Inside` adds that what a call past its
  checks will open lies behind no link and is not shared, and that an open file
  is not shared; links and shared files stay where they are.
* `SharedNeverChanges`: by `Inside`, every write, and every `O_TRUNC`, is to a
  file without a name outside the root.

The others are about single calls, and build on each other:

* `OnlyItsCallersEverChangeAnObject` (an action property). `Owned` says that the
  file a call has open for writing has no name but that of its own target. This
  needs `TreeOK` (one name per file) and that the numbers of files in use are not
  given out again: a file that was deleted under its writer has no name, and the
  new file of that name is another one.
* `MovesAlwaysKeepData` (`[]MoveKeepsData`) and `PromisesAreKept`
  (`[]IsolatedCallKeepsItsPromise`) rest on `Faithful`, which has two parts.
  `Lonely`: while a call is `alone`, no other call in progress can disturb it
  (such a call would have ended `alone` when it began, or been there then).
  `KeepsPromise`: what each program counter of an undisturbed call knows. A call
  that looks for its object finds `orig`; what a `get` or a copy has read is the
  beginning of `orig`; what a writer has written is the beginning of what it has
  to write, in the file its target names (`OnItsWay`, `CopyOnItsWay`); an answer
  given is borne out by the tree (`Promised`). A step of another caller keeps all
  of it because by `Owned` it touches no file and by `Lonely` no path of this
  call. A `delete`, `copy` or `rename` that an earlier crash left half done needs
  no case of its own: `orig` is whatever it left. What a dropped future left under
  way is a call in progress to `Lonely`, so that it too touches no path of an
  undisturbed call (`LeftAlone`, over `Acts`: every step of a call or of a
  leftover).

`LocalListingProofs` has six results, which are all the properties of the run
`Listing` but liveness. They rest on one inductive invariant, `IInv`:

* `Linked`: how the walk and its caller fit together (the cursor is the last key
  reported).
* `Ordered`: the stack descends from its top, everything taken for the page lies
  before all of the stack, and what is read of a directory lies between. `Apart`
  is the order of two entries together with all that is below them. The
  steps need that `Less` is a total order on paths in which what is below a path
  stays together.
* `Known`: whatever waits on the stack or was reported has been an object since
  the listing began. This gives half of `ReportsExactly`.
* `Covered`: an object that was there all the time has been reported, or lies
  beyond the cursor and is on the page, on the stack, or below an entry of it.
  When the stack is empty only the page is left: the other half.
* `Unchanged`: while nothing changes, the entries on the stack are what is on
  disk, from which `FailsOnlyIfDisturbed` and `CursorAlwaysMeansMore` follow.

`CloudStorageProofs` has five results. Requests of any number of callers on any
backend may be refused, lost, sent again and executed late in all of them.

* `MoveAlwaysKeepsData` (`[]MoveKeepsData`). Alone it is not inductive. `Whole`
  adds what each request of a move relies on: until the copy is answered with
  success the object is under its old name; while `head` runs it is under both;
  once `delete` is sent it is under the new one. A request leaves the names it
  does not name alone, and another caller that changes one of them ends `alone`.
* `AnswersAlwaysTrue` (`[]AnswersAreTrue`). `Knows` says of an answer that has
  arrived and not been looked at that the history of the call bears it out, and
  of a move past its copy that both names have held one value at one moment.
  History only grows (`Grown`), so what other callers do cannot make it false.
  The theorem assumes `Honest`, that no other error looks like that of a missing
  object; without it GCS and Azure refute it (`CloudDeleteReportsErrors`).
* `QueueAlwaysMoves` (`[]QueueMoves`). `InLine` adds that a task stands in the
  queue at most once, so that taking it out once takes it out.
* `ListAlwaysReportsEveryObject` (`[]ListReportsEveryObject`). `Reports` says that
  what a list has found is right up to its cursor (`Complete`: every object that
  stayed, only objects that occurred, in order), and that a page that has
  come in is right from the cursor to its token (`PageFits`). A page is right at
  the moment it is served, and history only grows. The keys that are found must
  lead back to the names in the bucket (`KeysReturn`). This is so only if the path prefix does not
  end in a slash, which the theorem assumes (`PlainPrefix`); with a slash
  the property is false (`CloudListReportsEveryObject`).
* `TypeCorrect` (`[]TypeOK`): `Shaped` adds what an answer looks like for each
  request, and that a list that goes on has found less than its cap.

`MultipartProofs` has four, over the lemmas of `MultipartParserProofs` (what a
step of the parser may do to position and counters, whatever `multer` does).

* `TypeCorrect` (`[]TypeOK`): a field that is held is the last part and unread.
* `LimitsAlwaysHold` (`[]LimitsHold`): `Counted` adds that the parts handed
  out are among those counted and none lies ahead of the parser. The counters
  may run ahead of what was handed out, after an error, but never behind.
* `AlwaysRefusedForAReason` (`[]RefusedForAReason`): `Reasoned` adds that the
  parser has counted no more than it has passed (`Tallied`), so that a limit that
  is exceeded is exceeded by the body; and that a broken parser has a reason.
* `AlwaysCollectsTheBody` (`[]CollectedIsTheBody`): `Gathered` says at each turn
  of a collector that what it has kept is what the parts it has passed say, the
  files in order or the last of each name. A field without a name is
  counted as passed and kept by nobody.

`UploadsProofs` has seven.

* `TypeCorrect` (`[]TypeOK`).
* `OnlyAcceptedAlways` (`[]OnlyAcceptedFilesAreStored`): `Vetted` adds that a
  handler past `Check` has a file that was accepted and fits, and that an entry
  of the store belongs to a handler that has begun and whose input never
  changes. It holds for any validator, custom rules included.
* `KeysAlwaysPlain` (`[]KeysArePlain`): the same for the key of the handler. An
  empty key that reaches a local `put` is refused there; with unique names there
  is an id.
* `NothingEverPassesByLying` (`[]NothingPassesByLying`): from `Vetted` and from
  what it takes for a rule on types to answer "ok" (`WhatAListLetsThrough`): the
  declared type is on the list, that of the content is on it too and agrees.
* `OkAlwaysMeansStored`, `FailureAlwaysLeavesAPrefix` and
  `StatusAlwaysTellsTheFault` rest on `Accounted`. It says that a handler has
  kept exactly the wanted parts before the one at hand (`InOrder`, from the order
  in which the parser hands out parts), that what it kept was fine and an
  error belongs to the part at hand, the body or the store (`Blamed`; a 400 is
  the store's only if `Refuses` says so of the key), and that
  under unique names what a handler has kept is in the store, whole, under a key
  that carries its own id, which no other handler makes.

The assumptions are those of the modules: `LocalStorageAssumption` says that
the initial store is a tree of files within the limit, and that files with a
name outside the root are known as `Shared`; `LocalListingAssumption` that there
are finitely many possible objects, and at least one, all below the directory
where the walk starts; `CloudStorageAssumption` that the
names of calls occur in `ByteOrder` and the sentinel is none of the data;
`UploadedFilesAssumption` that sanitizing replaces characters, so that only an
empty stem becomes empty; `FileRulesAssumption` that the absence of a type is not
a type; `UploadsAssumption` that inputs are typed and that a file the application
makes is one part. Two theorems have a hypothesis of their own, `Honest` and `PlainPrefix`;
what happens without them are findings of section 5.

Each of the inductive invariants was first checked with TLC on the instances of
section 3. The proof about status codes showed one case the first wording had left out:
a name that ends in nothing but dots, which, sanitized, is the empty key
that the local backend refuses (`OnlyDots`).

Only checked with TLC: liveness (`CallsReturn`, `ListingEnds`,
`CollectorsAnswer`, `RequestsAnswered`), which is out of reach of TLAPS 1.4.5.
What a recursive definition computes cannot be proved either, since no
installed prover does the induction; the models therefore say what a filter or
a search returns (`Validate`, `CollectedIsTheBody`, `ListOf`) instead of computing it.
Where a proof needs induction over numbers, as for how much of a body a parser
may have read, it takes a least counterexample (`Least` and `Reached` of
`MultipartParserProofs`, from `WFMin` of the library).

## 5. Where the code and its documentation part

* `delete` of a key that is not stored is not always `Ok(())`: a directory of
  that name, or an object on its path, makes it `Io` (`LocalDeleteMissingIsOk`).
* `rename("a", "./a")`, like `rename("a", "a")`, destroys the object and
  answers `Ok` (`LocalRenameMovesTheFile`).
* On GCS and Azure an error whose text has `404` in it counts as a missing
  object. The text names the object, so that the refused delete of
  `report-404.pdf` answers `Ok` (`CloudDeleteReportsErrors`).
* With a path prefix that ends in `/`, the cloud backends store under the
  trimmed prefix and list under the untrimmed one (`CloudListReportsEveryObject`).

Met while modelling, and not given runs of their own: the local `exists` is true
for a directory made for other keys (`local.rs` 657); a local `copy` from a key
that is not stored answers `InvalidFileName` or `Io`, not `NotFound`, when a
directory has that name or an object is on its path; a cloud `put` of a key with
a `..` part stores the object and then answers `InvalidFileName`, and a listing
that meets it fails (`README.md` 117 calls such keys opaque), which
`AnswersAreTrue` states and `CloudList` shows. `README.md` 99 says that `put_file`
takes names through `sanitize_filename`; with the default `generate_unique_names`
the key is a UUID and the extension as the client wrote it. `collect_all` is
documented to collect all fields and keeps the last one of each name, and none
without a name, which `CollectedIsTheBody` states. `documents_only` allows the
newer office types, and `types_compatible` accepts a plain zip container for them
(`validation.rs` 535), but the container's own type is not on that list, so a
document that is only recognized as one is refused. Limits of a
form that is too large answer 500, a file that is too large 413
(`StatusTellsTheFault`). A 400 is not always the client's fault: a local store
whose root is missing, or that finds a link or a special file in the way, answers
it too, because `InvalidFileName` stands for both (`error.rs` 88). Azure and GCS ignore a custom endpoint in their public
URLs.

## 6. What is not modelled

Metadata, checksums and URLs (values computed from arguments, no state); the
parsing of forms, which is `multer`'s, and the recognition of types by their
first bytes, which is `infer`'s (both external: their answers are inputs);
collisions of UUIDs; the write-back cache of the kernel (there is no `fsync`);
links planted while a call runs, which `local.rs` documents as open; FIFOs and
device nodes under the root of `LocalStorage` (the check of the descriptor,
`local.rs` 452-471, refuses them, but the `open` of a FIFO without a peer may
block before it, and such a call does not answer); a root that is given as a
relative path and does not exist, for which the first check of a put passes, the
directories are made and the second check refuses; a root that is removed while
calls run; file names that are not UTF-8, that end in a dot or have an extension
after nothing but dots; what else the raw extension in a unique name may hold
(that a key has one segment is how the model writes keys down, not something it
checks); Windows paths. Of the cloud backends: temporary URLs and the
configuration of the clients; the texts of the errors of the SDKs, which are
taken to name `NoSuchKey`, `NotFound` and `404` as the code expects (the
`Display` of the `SdkError` of S3 may be no more than "service error"; then S3
answers `Storage` where the model says `NotFound`, and `exists` an error where it
says `false`); a rewrite of
GCS that needs more than one request (its answer is not looked at); the copy
source of S3, which is not encoded, so that some keys may name another object.

## 7. Plan

Done: the modules of section 2 with their runs, and the proofs of section 4.

Every invariant and action property that a passing run checks has a theorem.
Next, in this order:

1. An abstract `ObjectStore`, a map from keys to data whose calls take effect at
   one moment, and that both backends implement it for calls that nobody disturbs.
   `Faithful` and `Whole` are the invariants the refinement needs.
2. `KeysReturn` for the local backend: the keys `list_page` reports are those
   that `full_path` turns into the same path.
3. The safety half of the liveness properties: from every state of a call in
   progress some step is possible (stated without `ENABLED`, as the disjunction
   of the guards), and a measure that each step lowers.
