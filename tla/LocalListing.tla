---------------------------- MODULE LocalListing ----------------------------
(***************************************************************************)
(* Listing the local backend (src/local.rs list_page, src/storage.rs list) *)
(* while other calls make directories and create and delete objects.  One  *)
(* listing goes on at a time: a caller that feeds cursors back to          *)
(* list_page, with any limit and repeating a page that failed, or one call *)
(* of list.  A step is what happens up to one answer of the filesystem:    *)
(* opening a directory, one entry of it, one lstat.                        *)
(*                                                                         *)
(* Names are numbers in the order of their bytes.                          *)
(***************************************************************************)
EXTENDS DirectoryTree, SequencesExt

CONSTANTS
    KeyRoot,           \* key_root: where the keys of this backend start
    Matching,          \* the objects whose key starts with the prefix asked for
    Limits,            \* limits a caller may pass to list_page
    DefaultPageSize,   \* DEFAULT_LIST_PAGE_SIZE
    MaxItems,          \* LIST_MAX_ITEMS
    None

(* A path has a greatest length, so there are only so many objects; a      *)
(* listing is of interest where there may be one.                          *)
ASSUME LocalListingAssumption ==
    /\ Objects \subseteq Seq(Nat) /\ Objects # {} /\ IsFiniteSet(Objects)
    /\ \A p \in Objects : KeyRoot \in Ancestors(p)
    /\ Matching \subseteq Objects
    /\ Limits \subseteq Nat
    /\ DefaultPageSize \in Nat \ {0}
    /\ MaxItems \in Nat
    /\ None \notin Paths

VARIABLES
    walk,      \* the call of list_page in progress
    caller,    \* who calls it, and what it got
    history    \* what happened to the objects since the listing began

vars == <<tree, walk, caller, history>>

Entry == [kind : {"dir", "file"}, path : Paths]

(* pc is "read" while directory dir is being read: left is what of it has  *)
(* not been looked at, found what will be pushed on the stack.             *)
Walk == [pc : {"off", "pop", "read"}, stack : Seq(Entry), dir : Paths \cup {None},
         left : SUBSET Paths, found : SUBSET Entry, limit : Nat,
         results : Seq(Paths)]

(* after is the cursor.  "io" is an error the filesystem gave while it was *)
(* sound, "toomany" the answer of list for more than it will hold.         *)
Caller == [pc : {"idle", "ready", "waiting", "complete", "toomany", "io", "eio"},
           mode : {"pages", "list"}, after : Paths \cup {None},
           reported : Seq(Paths)]

History == [always : SUBSET Objects, ever : SUBSET Objects, quiet : BOOLEAN]

(* Every component has its type, and a page that is full has a last entry  *)
(* (the expect in list_page).                                              *)
TypeOK ==
    /\ tree \in [Paths -> {Absent, Dir, Link, File}]
    /\ walk \in Walk
    /\ caller \in Caller
    /\ history \in History
    /\ walk.pc # "off" => walk.limit # 0

Files == {p \in Objects : tree[p] = File}

Off  == [pc |-> "off", stack |-> <<>>, dir |-> None, left |-> {}, found |-> {},
         limit |-> 0, results |-> <<>>]
NoCaller == [pc |-> "idle", mode |-> "pages", after |-> None, reported |-> <<>>]

ListingInit ==
    /\ Init
    /\ tree[KeyRoot] \in {Absent, Dir}
    /\ walk = Off
    /\ caller = NoCaller
    /\ history = [always |-> {}, ever |-> {}, quiet |-> TRUE]

-----------------------------------------------------------------------------
(* The order of the walk                                                   *)

(* Ord of Path: component by component, a path before what is below it.    *)
Less(p, q) ==
    \/ IsStrictPrefix(p, q)
    \/ \E n \in DOMAIN p \cap DOMAIN q :
          p[n] < q[n] /\ SubSeq(p, 1, n - 1) = SubSeq(q, 1, n - 1)

Children(dir) == {p \in Paths : p # <<>> /\ Front(p) = dir}

(* Mutant: children are pushed in ascending order.                         *)
SortedUp(kids) ==
    \A m, n \in DOMAIN kids : m < n => Less(kids[m].path, kids[n].path)

(* children.sort_by: descending, since the stack is popped from its end.   *)
Sorted(kids) ==
    \A m, n \in DOMAIN kids : m < n => Less(kids[n].path, kids[m].path)

Top == Last(walk.stack)

(* Mutant: the cursor's own entry is not skipped.                          *)
WantedAtCursor(p) ==
    /\ p \in Matching
    /\ caller.after # None => ~Less(p, caller.after)

(* What the page reports of the files it comes across.                     *)
Wanted(p) ==
    /\ p \in Matching
    /\ caller.after # None => Less(caller.after, p)

-----------------------------------------------------------------------------
(* The caller                                                              *)

Start(mode) ==
    /\ caller.pc = "idle"
    /\ caller' = [NoCaller EXCEPT !.pc = "ready", !.mode = mode]
    /\ history' = [always |-> Files, ever |-> Files, quiet |-> TRUE]
    /\ UNCHANGED <<tree, walk>>

(* Mutant: the limit is taken as it comes.                                 *)
CallPageAnyLimit(limit) ==
    /\ caller.pc = "ready"
    /\ (caller.mode = "list") => (limit = DefaultPageSize)
    /\ walk' = [Off EXCEPT !.pc = "pop", !.limit = limit,
                           !.stack = <<[kind |-> "dir", path |-> KeyRoot]>>]
    /\ caller' = [caller EXCEPT !.pc = "waiting"]
    /\ UNCHANGED <<tree, history>>

(* A limit of 0 stands for the default, which is also what list asks for.  *)
CallPage(limit) ==
    /\ caller.pc = "ready"
    /\ (caller.mode = "list") => (limit = DefaultPageSize)
    /\ walk' = [Off EXCEPT !.pc = "pop",
                           !.stack = <<[kind |-> "dir", path |-> KeyRoot]>>,
                           !.limit = IF limit = 0 THEN DefaultPageSize ELSE limit]
    /\ caller' = [caller EXCEPT !.pc = "waiting"]
    /\ UNCHANGED <<tree, history>>

(* Mutant: a listing of exactly MaxItems is too long.                      *)
GivesUpEarly(page) == Len(caller.reported) + Len(page) >= MaxItems

(* list does not take a page that would make it hold more than MaxItems.   *)
GivesUp(page) == Len(caller.reported) + Len(page) > MaxItems

(* list_page returns the page and the cursor; a caller of list_page goes   *)
(* on when it likes, list goes on at once.                                 *)
ReturnPage(page, next) ==
    /\ walk' = Off
    /\ caller' =
          IF caller.mode = "list" /\ GivesUp(page)
          THEN [caller EXCEPT !.pc = "toomany"]
          ELSE [caller EXCEPT !.pc = IF next = None THEN "complete" ELSE "ready",
                              !.after = next,
                              !.reported = @ \o page]

(* The error ends list.  Who pages has the cursor and may try again.       *)
ReturnError(kind) ==
    /\ walk' = Off
    /\ caller' = [caller EXCEPT !.pc = kind]

(* The page has failed and is asked for again.                             *)
Retry ==
    /\ caller.pc \in {"io", "eio"} /\ caller.mode = "pages"
    /\ caller' = [caller EXCEPT !.pc = "ready"]
    /\ UNCHANGED <<tree, walk, history>>

(* The caller is done, gives up between pages, or drops the future.        *)
Stop ==
    /\ caller.pc # "idle"
    /\ caller' = NoCaller
    /\ walk' = Off
    /\ UNCHANGED <<tree, history>>

-----------------------------------------------------------------------------
(* The walk                                                                *)

(* Mutants: a missing directory is an error, or stays on the stack.        *)
OpenDirThere ==
    LET dir == Top.path IN
    /\ walk.pc = "pop" /\ walk.stack # <<>> /\ Top.kind = "dir"
    /\ \/ /\ tree[dir] = Dir
          /\ walk' = [walk EXCEPT !.pc = "read", !.stack = Front(@), !.dir = dir,
                                  !.left = Children(dir)]
          /\ UNCHANGED caller
       \/ /\ tree[dir] # Dir
          /\ ReturnError("io")
    /\ UNCHANGED <<tree, history>>

OpenDirPeeking ==
    LET dir == Top.path IN
    /\ walk.pc = "pop" /\ walk.stack # <<>> /\ Top.kind = "dir"
    /\ walk' = IF tree[dir] = Dir
               THEN [walk EXCEPT !.pc = "read", !.stack = Front(@), !.dir = dir,
                                 !.left = Children(dir)]
               ELSE walk
    /\ UNCHANGED <<tree, caller, history>>

(* read_dir: a directory that is not there is an empty one.                *)
OpenDir ==
    LET dir == Top.path IN
    /\ walk.pc = "pop" /\ walk.stack # <<>> /\ Top.kind = "dir"
    /\ \/ /\ tree[dir] = Dir
          /\ walk' = [walk EXCEPT !.pc = "read", !.stack = Front(@), !.dir = dir,
                                  !.left = Children(dir)]
          /\ UNCHANGED caller
       \/ /\ tree[dir] = Absent
          /\ walk' = [walk EXCEPT !.stack = Front(@)]
          /\ UNCHANGED caller
       \/ /\ tree[dir] \notin {Dir, Absent}
          /\ ReturnError("io")
    /\ UNCHANGED <<tree, history>>

(* next_entry: in any order, as each is when it is read; links are passed. *)
ReadEntry ==
    /\ walk.pc = "read"
    /\ \E p \in walk.left :
          walk' = [walk EXCEPT !.left = @ \ {p},
                      !.found = CASE tree[p] = Dir  -> @ \cup {[kind |-> "dir", path |-> p]}
                                  [] tree[p] = File -> @ \cup {[kind |-> "file", path |-> p]}
                                  [] OTHER          -> @]
    /\ UNCHANGED <<tree, caller, history>>

CloseDir ==
    /\ walk.pc = "read" /\ walk.left = {}
    /\ \E kids \in SetToSeqs(walk.found) :
          /\ Sorted(kids)
          /\ walk' = [walk EXCEPT !.pc = "pop", !.stack = @ \o kids,
                                  !.dir = None, !.found = {}]
    /\ UNCHANGED <<tree, caller, history>>

SkipFile ==
    /\ walk.pc = "pop" /\ walk.stack # <<>> /\ Top.kind = "file"
    /\ ~Wanted(Top.path)
    /\ walk' = [walk EXCEPT !.stack = Front(@)]
    /\ UNCHANGED <<tree, caller, history>>

(* Mutant: the cursor is handed out when the page is full, without looking *)
(* for another entry, together with the last entry of the page.            *)
TakeFileEagerly ==
    /\ walk.pc = "pop" /\ walk.stack # <<>> /\ Top.kind = "file"
    /\ Wanted(Top.path)
    /\ tree[Top.path] # Absent
    /\ IF Len(walk.results) + 1 = walk.limit
       THEN ReturnPage(Append(walk.results, Top.path), Top.path)
       ELSE /\ walk' = [walk EXCEPT !.stack = Front(@),
                                    !.results = Append(@, Top.path)]
            /\ UNCHANGED caller
    /\ UNCHANGED <<tree, history>>

(* One more file: with the page full there is a next page, otherwise its   *)
(* lstat must still find it there.                                         *)
TakeFile ==
    /\ walk.pc = "pop" /\ walk.stack # <<>> /\ Top.kind = "file"
    /\ Wanted(Top.path)
    /\ \/ /\ Len(walk.results) = walk.limit
          /\ ReturnPage(walk.results, Last(walk.results))
       \/ /\ Len(walk.results) # walk.limit /\ tree[Top.path] # Absent
          /\ walk' = [walk EXCEPT !.stack = Front(@),
                                  !.results = Append(@, Top.path)]
          /\ UNCHANGED caller
       \/ /\ Len(walk.results) # walk.limit /\ tree[Top.path] = Absent
          /\ ReturnError("io")
    /\ UNCHANGED <<tree, history>>

EndWalk ==
    /\ walk.pc = "pop" /\ walk.stack = <<>>
    /\ ReturnPage(walk.results, None)
    /\ UNCHANGED <<tree, history>>

(* A disk that fails under read_dir, next_entry or lstat.                  *)
WalkFails ==
    /\ walk.pc # "off"
    /\ ReturnError("eio")
    /\ UNCHANGED <<tree, history>>

WalkStep == OpenDir \/ ReadEntry \/ CloseDir \/ SkipFile \/ TakeFile \/ EndWalk

-----------------------------------------------------------------------------

(* Another call makes directories, stores or deletes an object.            *)
Others ==
    /\ Next
    /\ history' = [always |-> history.always \cap Files',
                   ever   |-> history.ever \cup Files',
                   quiet  |-> history.quiet /\ tree' = tree]
    /\ UNCHANGED <<walk, caller>>

ListingNext ==
    \/ \E mode \in {"pages", "list"} : Start(mode)
    \/ \E limit \in Limits \cup {DefaultPageSize} : CallPage(limit)
    \/ Retry \/ Stop
    \/ WalkStep \/ WalkFails
    \/ Others

ListingSpec == ListingInit /\ [][ListingNext]_vars

(* The runtime polls the call; list asks for the next page by itself.      *)
ListGoesOn == caller.mode = "list" /\ CallPage(DefaultPageSize)

ListingFairSpec == ListingSpec /\ WF_vars(WalkStep) /\ WF_vars(ListGoesOn)

-----------------------------------------------------------------------------
(* Properties                                                              *)

Got == caller.reported \o walk.results

(* Whatever is stored and deleted between and during pages, and whichever  *)
(* pages are repeated, a listing never goes back: each key is reported at  *)
(* most once, in the order of the walk.                                    *)
ReportedInOrder ==
    \A m, n \in DOMAIN Got : m < n => Less(Got[m], Got[n])

(* "Every object reported exactly once across a full walk of pages": an    *)
(* object that was there all the time is reported, and one that was never  *)
(* there, or does not have the prefix, is not.                             *)
ReportsWhatIsThere ==
    /\ ToSet(Got) \subseteq history.ever \cap Matching
    /\ caller.pc = "complete" =>
          history.always \cap Matching \subseteq ToSet(caller.reported)

(* A page never exceeds its limit, and list gives up on more than MaxItems *)
(* objects before it holds them, but not on MaxItems.                      *)
ListingBounded ==
    /\ Len(walk.results) <= walk.limit
    /\ caller.mode = "list" =>
          /\ Len(caller.reported) <= MaxItems
          /\ caller.pc = "toomany" =>
                Cardinality(history.ever \cap Matching) > MaxItems

(* A cursor means that there is more: no listing of an unchanged store     *)
(* ends on an empty page.                                                  *)
CursorMeansMore ==
    caller.after # None /\ history.quiet =>
        \E p \in Files \cap Matching : Less(caller.after, p)

(* A page fails only if the disk does, or if an object goes away between   *)
(* read_dir and lstat.                                                     *)
FailsOnlyOnChange == caller.pc = "io" => ~history.quiet

(* However busy the store is, list_page and list answer.                   *)
ListingEnds ==
    /\ walk.pc # "off" ~> walk.pc = "off"
    /\ caller.mode = "list" /\ caller.pc = "waiting"
          ~> caller.pc \notin {"waiting", "ready"}
=============================================================================
