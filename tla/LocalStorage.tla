---------------------------- MODULE LocalStorage ----------------------------
(***************************************************************************)
(* The local filesystem backend (src/local.rs): any number of tasks call   *)
(* put, get, head, exists, delete, copy and rename on one LocalStorage at  *)
(* the same time.  An action is what happens between two await points of   *)
(* a call; the kernel's directory tree and its inodes are the shared       *)
(* state.  A call may fail with an I/O error at any step, and its future   *)
(* may be dropped: a system call that runs in the blocking pool then goes  *)
(* on by itself.  The process may crash, leaving the files as they are.    *)
(*                                                                         *)
(* Data is a sequence of chunks, one chunk being what one write or read    *)
(* of an open file transfers.  Symbolic links and files with a second      *)
(* name outside the root exist only if they were there from the start.     *)
(***************************************************************************)
EXTENDS LocalPaths

CONSTANTS
    Tasks,            \* concurrent callers
    Calls,            \* the calls they may make, see CallType
    Chunks,           \* what files are made of
    Inodes,           \* files the disk can hold, open or named
    Shared,           \* inodes with a second (hard) link outside the root
    MaxFileSize,      \* StorageConfig::max_file_size, in chunks
    InitialStores,    \* trees the backend may be opened on
    Absent, Dir, Link,  \* what a path is when it is not a regular file
    File,             \* a regular file, when it does not matter which
    Hole,             \* a chunk never written before the end of a file
    None              \* no inode, no call, no object

Readers  == {"get", "head", "exists"}
Movers   == {"copy", "rename"}
Kinds    == Readers \cup Movers \cup {"put", "delete"}

(* Only copy and rename have a second key: for the others to = key.        *)
CallType == [kind : Kinds, key : Seq(STRING), to : Seq(STRING),
             data : Seq(Chunks)]

LegalKeys == {k \in {c.key : c \in Calls} \cup {c.to : c \in Calls} :
                  IsRelative(k)}
Paths == UNION {UpTo(FullPath(k)) : k \in LegalKeys}

Data  == Seq(Chunks \cup {Hole})
Nodes == {Absent, Dir, Link} \cup Inodes

(* A tree is one the kernel can hold: what is below a path that is not a   *)
(* directory does not exist, and a file has one name under the root.       *)
Rooted(tr) ==
    \A p \in Paths : tr[p] # Absent => \A q \in Ancestors(p) : tr[q] = Dir

NoAlias(tr) ==
    \A p, q \in Paths : tr[p] \in Inodes /\ tr[p] = tr[q] => p = q

ASSUME LocalStorageAssumption ==
    /\ Calls \subseteq CallType
    /\ \A c \in Calls : c.kind \notin Movers => c.to = c.key
    /\ MaxFileSize \in Nat
    /\ Shared \subseteq Inodes
    /\ Absent # Dir /\ Absent # Link /\ Dir # Link
    /\ {Absent, Dir, Link, None} \cap Inodes = {}
    /\ None \notin Data
    /\ None \notin CallType
    /\ Hole \notin Chunks
    /\ \A s \in InitialStores :
          /\ s.tree \in [Paths -> Nodes] /\ Rooted(s.tree) /\ NoAlias(s.tree)
          /\ s.content \in [Inodes -> Data]
          /\ \A i \in Inodes : Len(s.content[i]) <= MaxFileSize

VARIABLES
    tree,       \* the directory tree under the root: path -> node
    content,    \* inode -> data; an inode nothing refers to is empty
    task        \* the call each task is in

vars == <<tree, content, task>>

(* pc is the next step of the call; rd and wr are its open files; pos is   *)
(* the offset of its next write; buf is what it has read and not passed    *)
(* on.  dropped: the caller has gone, one system call of the step at pc is *)
(* still under way.  alone and orig are history: no call that could        *)
(* disturb this one has run since it began, and what its key named when it *)
(* began.                                                                  *)
Idle == [pc |-> "idle", call |-> None, rd |-> None, wr |-> None, pos |-> 0,
         buf |-> <<>>, res |-> "none", dropped |-> FALSE, alone |-> FALSE,
         orig |-> None]

Running == {"mkdirs", "open", "create", "write", "read", "copyread",
            "copywrite", "stat", "unlink"}

(* "io" and "eio" are both StorageError::Io: the answer of a working       *)
(* kernel (not a directory, is a directory), and that of a failing disk.   *)
Results == {"none", "ok", "true", "false", "toolarge", "invalid", "io", "eio",
            "notfound"}

TaskType == [pc : Running \cup {"idle", "done"}, call : Calls \cup {None},
             rd : Inodes \cup {None}, wr : Inodes \cup {None}, pos : Nat,
             buf : Data, res : Results, dropped : BOOLEAN, alone : BOOLEAN,
             orig : Data \cup {None}]

(* Every component has its type, and a call that runs is a real call.      *)
TypeOK ==
    /\ tree \in [Paths -> Nodes]
    /\ content \in [Inodes -> Data]
    /\ task \in [Tasks -> TaskType]
    /\ \A t \in Tasks : task[t].pc # "idle" => task[t].call \in Calls

Init ==
    /\ \E s \in InitialStores : tree = s.tree /\ content = s.content
    /\ task = [t \in Tasks |-> Idle]

-----------------------------------------------------------------------------
(* The filesystem                                                          *)

(* Mutant: copy writes to the key it reads.                                *)
TargetSwapped(t) == FullPath(task[t].call.key)

Source(t) == FullPath(task[t].call.key)
Target(t) == FullPath(task[t].call.to)
Kind(t)   == task[t].call.kind

(* The object a path names: the data of a regular file.                    *)
Object(p) == IF tree[p] \in Inodes THEN content[tree[p]] ELSE None

Blocked(p) == \E q \in Ancestors(p) : tree[q] \notin {Dir, Absent}
Reachable(p) == \A q \in Ancestors(p) : tree[q] = Dir

(* Mutants: a resolve that looks at the last component only, and one that  *)
(* does not count the links of the file.                                   *)
ResolveLeafOnly(key) ==
    IF ~IsRelative(key) \/ tree[FullPath(key)] \in {Link} \cup Shared
    THEN "invalid" ELSE "ok"

ResolveUncounted(key) ==
    IF ~IsRelative(key) \/ \E q \in UpTo(FullPath(key)) : tree[q] = Link
    THEN "invalid" ELSE "ok"

(* resolve: lexical validation, then the physical checks of                *)
(* assert_inside_root.  A root that does not exist, a link anywhere on the *)
(* path and a second name for the file are refused; a file used as a       *)
(* directory is an I/O error.                                              *)
Resolve(key) ==
    IF ~IsRelative(key) THEN "invalid"
    ELSE LET p == FullPath(key) IN
         CASE tree[<<>>] = Absent                       -> "invalid"
           [] \E q \in UpTo(p) : tree[q] = Link         -> "invalid"
           [] \E q \in Ancestors(p) : tree[q] \in Inodes -> "io"
           [] tree[p] \in Shared                        -> "invalid"
           [] OTHER                                     -> "ok"

(* open_read and the check of the descriptor it returns.                   *)
OpenForRead(p) ==
    CASE Blocked(p)                             -> "io"
      [] ~Blocked(p) /\ tree[p] = Absent        -> "notfound"
      [] tree[p] \in {Dir, Link} \cup Shared    -> "invalid"
      [] OTHER                                  -> "ok"

(* open_write, which creates what is absent: the parent must be there.     *)
OpenForWrite(p) ==
    CASE Blocked(p)                             -> "io"
      [] ~Blocked(p) /\ ~Reachable(p)           -> "notfound"
      [] tree[p] = Dir                          -> "io"
      [] tree[p] = Link                         -> "invalid"
      [] OTHER                                  -> "ok"

WithDirs(dirs) == [q \in Paths |->
    IF q \in dirs /\ tree[q] = Absent THEN Dir ELSE tree[q]]

(* A chunk written at offset pos; a gap before it reads as holes.          *)
WriteAt(data, pos, chunk) ==
    [n \in 1 .. (IF Len(data) > pos THEN Len(data) ELSE pos + 1) |->
        IF n = pos + 1 THEN chunk
        ELSE IF n <= Len(data) THEN data[n] ELSE Hole]

Used(tr, ts) == {i \in Inodes :
    \/ \E p \in Paths : tr[p] = i
    \/ \E t \in Tasks : i \in {ts[t].rd, ts[t].wr}} \cup Shared

(* The kernel frees a file that has lost its last name and descriptor.     *)
Kept(tr, ts) == [i \in Inodes |-> IF i \in Used(tr, ts) THEN content[i] ELSE <<>>]

Free == Inodes \ Used(tree, task)

-----------------------------------------------------------------------------
(* Steps of a call                                                         *)

(* The step a call is at, its caller waiting for it.                       *)
At(t, pc) == task[t].pc = pc /\ ~task[t].dropped

Goto(t, pc) == task' = [task EXCEPT ![t].pc = pc]

(* The call returns res, with what it has read if that is its answer, and  *)
(* its open files are closed.                                              *)
Finish(t, res) ==
    task' = [task EXCEPT ![t].pc = "done", ![t].res = res, ![t].rd = None,
                         ![t].wr = None, ![t].pos = 0,
                         ![t].buf = IF res = "ok" THEN @ ELSE <<>>]

(* What a call reads or changes, and what it changes.                      *)
Uses(c) == {FullPath(c.key), FullPath(c.to)}
Mutates(c) == CASE c.kind \in Readers -> {}
                [] c.kind = "rename"  -> Uses(c)
                [] OTHER              -> {FullPath(c.to)}
Disturbs(d, c) == \E p \in Mutates(d), q \in Uses(c) : Nested(p, q)

FirstStep(c) == CASE c.kind \in {"put", "copy", "rename"} -> "mkdirs"
                  [] c.kind = "get"                       -> "open"
                  [] c.kind \in {"head", "exists"}        -> "stat"
                  [] c.kind = "delete"                    -> "unlink"

(* Mutant: put does not check the size.                                    *)
AdmitAnySize(c) == Resolve(c.key)

(* What a call answers before it changes anything: the size check of put,  *)
(* then resolve.                                                           *)
Admit(c) == IF c.kind = "put" /\ Len(c.data) > MaxFileSize
            THEN "toolarge" ELSE Resolve(c.key)

Begin(t, c) ==
    /\ task[t] = Idle
    /\ LET ok == Admit(c) = "ok"
           begun == [Idle EXCEPT
               !.call = c,
               !.pc = IF ok THEN FirstStep(c) ELSE "done",
               !.res = IF ok THEN "none" ELSE Admit(c),
               !.alone = \A u \in Tasks :
                   task[u].pc \in Running => ~Disturbs(task[u].call, c),
               !.orig = IF IsRelative(c.key) THEN Object(FullPath(c.key))
                        ELSE None]
       IN task' = [u \in Tasks |->
              IF u = t THEN begun
              ELSE IF task[u].pc # "idle" /\ Disturbs(c, task[u].call)
                   THEN [task[u] EXCEPT !.alone = FALSE]
                   ELSE task[u]]
    /\ UNCHANGED <<tree, content>>

(* put and copy: (copy resolves its second key and) create_dir_all on the  *)
(* parent, then the physical check again.                                  *)
MakeParents(t) ==
    /\ At(t, "mkdirs")
    /\ \/ /\ Resolve(task[t].call.to) = "ok"
          /\ tree' = WithDirs(Ancestors(Target(t)))
          /\ Goto(t, IF Kind(t) = "put" THEN "create" ELSE "open")
       \/ /\ Resolve(task[t].call.to) # "ok"
          /\ Finish(t, Resolve(task[t].call.to))
          /\ tree' = tree
    /\ UNCHANGED content

(* create_dir_all stops part of the way down.                              *)
MakeParentsFails(t) ==
    /\ At(t, "mkdirs")
    /\ Resolve(task[t].call.to) = "ok"
    /\ \E q \in UpTo(Target(t)) : tree' = WithDirs(Ancestors(q))
    /\ Finish(t, "eio")
    /\ UNCHANGED content

OpenSource(t) ==
    /\ At(t, "open")
    /\ LET p == Source(t) IN
       \/ /\ OpenForRead(p) = "ok"
          /\ task' = [task EXCEPT ![t].rd = tree[p],
                 ![t].pc = IF Kind(t) = "get" THEN "read" ELSE "create"]
       \/ /\ OpenForRead(p) # "ok"
          /\ Finish(t, OpenForRead(p))
    /\ UNCHANGED <<tree, content>>

(* Mutant: the file is opened without O_TRUNC.                             *)
OpenKeepingData(t) ==
    /\ At(t, "create")
    /\ OpenForWrite(Target(t)) = "ok" /\ tree[Target(t)] \in Inodes
    /\ task' = [task EXCEPT ![t].wr = tree[Target(t)],
           ![t].pc = IF Kind(t) = "put" THEN "write" ELSE "copyread"]
    /\ UNCHANGED <<tree, content>>

(* The target is opened with O_CREAT and O_TRUNC: it is empty before the   *)
(* descriptor is checked and before anything is written.                   *)
Truncate(t) ==
    LET i == tree[Target(t)] IN
    /\ At(t, "create")
    /\ OpenForWrite(Target(t)) = "ok" /\ i \in Inodes
    /\ content' = [content EXCEPT ![i] = <<>>]
    /\ IF i \in Shared THEN Finish(t, "invalid")
       ELSE task' = [task EXCEPT ![t].wr = i,
                ![t].pc = IF Kind(t) = "put" THEN "write" ELSE "copyread"]
    /\ UNCHANGED tree

Create(t) ==
    /\ At(t, "create")
    /\ OpenForWrite(Target(t)) = "ok" /\ tree[Target(t)] = Absent
    /\ Free # {}
    /\ LET i == CHOOSE j \in Free : TRUE IN
       /\ tree' = [tree EXCEPT ![Target(t)] = i]
       /\ content' = [content EXCEPT ![i] = <<>>]
       /\ task' = [task EXCEPT ![t].wr = i,
              ![t].pc = IF Kind(t) = "put" THEN "write" ELSE "copyread"]

CreateFails(t) ==
    /\ At(t, "create")
    /\ OpenForWrite(Target(t)) # "ok"
    /\ Finish(t, OpenForWrite(Target(t)))
    /\ content' = Kept(tree, task')
    /\ UNCHANGED tree

(* put: write_all, then flush and return.                                  *)
Write(t) ==
    LET pos == task[t].pos
        data == task[t].call.data
    IN
    /\ At(t, "write")
    /\ \/ /\ pos < Len(data)
          /\ content' = [content EXCEPT ![task[t].wr] =
                            WriteAt(@, pos, data[pos + 1])]
          /\ task' = [task EXCEPT ![t].pos = pos + 1]
       \/ /\ pos = Len(data)
          /\ Finish(t, "ok")
          /\ content' = Kept(tree, task')
    /\ UNCHANGED tree

(* get: read_to_end.                                                       *)
Read(t) ==
    LET buf == task[t].buf
        data == content[task[t].rd]
    IN
    /\ At(t, "read")
    /\ \/ /\ Len(buf) < Len(data)
          /\ task' = [task EXCEPT ![t].buf = Append(buf, data[Len(buf) + 1])]
          /\ UNCHANGED content
       \/ /\ Len(buf) >= Len(data)
          /\ Finish(t, "ok")
          /\ content' = Kept(tree, task')
    /\ UNCHANGED tree

(* Mutant: copy reads once instead of until the end of the file.           *)
CopyReadOnce(t) ==
    LET data == content[task[t].rd] IN
    /\ At(t, "copyread")
    /\ IF task[t].pos = 0 /\ data # <<>>
       THEN task' = [task EXCEPT ![t].buf = <<data[1]>>, ![t].pc = "copywrite"]
       ELSE Goto(t, "stat")
    /\ UNCHANGED <<tree, content>>

(* io::copy: read a chunk of the source ...                                *)
CopyRead(t) ==
    LET pos == task[t].pos
        data == content[task[t].rd]
    IN
    /\ At(t, "copyread")
    /\ \/ /\ pos < Len(data)
          /\ task' = [task EXCEPT ![t].buf = <<data[pos + 1]>>,
                                  ![t].pc = "copywrite"]
       \/ /\ pos >= Len(data)
          /\ Goto(t, "stat")
    /\ UNCHANGED <<tree, content>>

(* Mutants: the destination is opened with O_APPEND; the offset is not     *)
(* advanced.                                                               *)
CopyAppend(t) ==
    /\ At(t, "copywrite")
    /\ content' = [content EXCEPT ![task[t].wr] = Append(@, task[t].buf[1])]
    /\ task' = [task EXCEPT ![t].pos = @ + 1, ![t].buf = <<>>,
                            ![t].pc = "copyread"]
    /\ UNCHANGED tree

CopyInPlace(t) ==
    /\ At(t, "copywrite")
    /\ content' = [content EXCEPT ![task[t].wr] =
                      WriteAt(@, task[t].pos, task[t].buf[1])]
    /\ task' = [task EXCEPT ![t].buf = <<>>, ![t].pc = "copyread"]
    /\ UNCHANGED tree

(* ... and write it to the destination at the same offset.                 *)
CopyWrite(t) ==
    LET pos == task[t].pos IN
    /\ At(t, "copywrite")
    /\ content' = [content EXCEPT ![task[t].wr] =
                      WriteAt(@, pos, task[t].buf[1])]
    /\ task' = [task EXCEPT ![t].pos = pos + 1, ![t].buf = <<>>,
                            ![t].pc = "copyread"]
    /\ UNCHANGED tree

(* head and exists, and the head(to) that ends copy: resolve and lstat.    *)
Stat(t) ==
    LET found == tree[Target(t)] # Absent
        checked == Resolve(task[t].call.to)
    IN
    /\ At(t, "stat")
    /\ \/ /\ checked # "ok"
          /\ Finish(t, checked)
          /\ content' = Kept(tree, task')
       \/ /\ checked = "ok" /\ Kind(t) = "exists"
          /\ Finish(t, IF found THEN "true" ELSE "false")
          /\ UNCHANGED content
       \/ /\ checked = "ok" /\ found /\ Kind(t) = "rename"
          /\ task' = [task EXCEPT ![t].pc = "unlink", ![t].rd = None,
                                  ![t].wr = None, ![t].pos = 0]
          /\ content' = Kept(tree, task')
       \/ /\ checked = "ok" /\ Kind(t) # "exists"
          /\ found => Kind(t) # "rename"
          /\ Finish(t, IF found THEN "ok" ELSE "notfound")
          /\ content' = Kept(tree, task')
    /\ UNCHANGED tree

(* Mutants: delete removes a directory with the tree below it still there, *)
(* and delete prunes a parent that it leaves empty.                        *)
UnlinkAnything(t) ==
    /\ At(t, "unlink")
    /\ tree' = IF Resolve(task[t].call.key) = "ok"
               THEN [tree EXCEPT ![Source(t)] = Absent] ELSE tree
    /\ Finish(t, "ok")
    /\ content' = Kept(tree', task')

UnlinkPruning(t) ==
    LET empty(d) == \A q \in Paths \ {Source(t)} :
                        d \in Ancestors(q) => tree[q] = Absent
    IN
    /\ At(t, "unlink")
    /\ tree' = IF Resolve(task[t].call.key) = "ok"
               THEN [q \in Paths |->
                        IF \/ q = Source(t) /\ tree[q] \in Inodes
                           \/ q \in Ancestors(Source(t)) \ {<<>>} /\ empty(q)
                        THEN Absent ELSE tree[q]]
               ELSE tree
    /\ Finish(t, "ok")
    /\ content' = Kept(tree', task')

(* delete, and the delete(from) that ends rename: resolve and remove_file. *)
(* A name that is already gone is a success, a directory is not.           *)
Unlink(t) ==
    LET p == Source(t)
        checked == Resolve(task[t].call.key)
    IN
    /\ At(t, "unlink")
    /\ \/ /\ checked # "ok"
          /\ Finish(t, checked)
          /\ UNCHANGED <<tree, content>>
       \/ /\ checked = "ok" /\ tree[p] \in Inodes
          /\ tree' = [tree EXCEPT ![p] = Absent]
          /\ Finish(t, "ok")
          /\ content' = Kept(tree', task')
       \/ /\ checked = "ok" /\ tree[p] \in {Absent, Dir}
          /\ Finish(t, IF tree[p] = Absent THEN "ok" ELSE "io")
          /\ UNCHANGED <<tree, content>>

(* An I/O error of a step after the call was admitted.                     *)
Fail(t) ==
    /\ task[t].pc \in Running \ {"mkdirs"} /\ ~task[t].dropped
    /\ Finish(t, "eio")
    /\ content' = Kept(tree, task')
    /\ UNCHANGED tree

(* The caller has taken the result.                                        *)
Return(t) ==
    /\ At(t, "done")
    /\ task' = [task EXCEPT ![t] = Idle]
    /\ UNCHANGED <<tree, content>>

(* The step a call is at has started a system call that changes files.     *)
UnderWay(t) ==
    CASE task[t].pc = "mkdirs" -> Resolve(task[t].call.to) = "ok"
      [] task[t].pc = "write"  -> task[t].pos < Len(task[t].call.data)
      [] task[t].pc = "unlink" -> Resolve(task[t].call.key) = "ok"
      [] OTHER                 -> task[t].pc \in {"create", "copywrite"}

(* Mutant: a dropped future loses its call but still holds its place.      *)
CancelHalf(t) ==
    /\ task[t].pc \in Running
    /\ task' = [task EXCEPT ![t].call = None]
    /\ UNCHANGED <<tree, content>>

(* The caller drops the future (a timeout, a select!, a disconnect).  What *)
(* the blocking pool is doing for it is not stopped: the caller may begin  *)
(* the call anew, as another task, with this one still under way.  A copy  *)
(* whose read fails while its last write is under way leaves it so too.    *)
Cancel(t) ==
    /\ task[t].pc \in Running /\ ~task[t].dropped
    /\ \/ /\ task' = [task EXCEPT ![t] = Idle]
          /\ content' = Kept(tree, task')
       \/ /\ UnderWay(t)
          /\ task' = [task EXCEPT ![t].dropped = TRUE]
          /\ UNCHANGED content
    /\ UNCHANGED tree

(* The system call of a dropped future comes to an end: nothing of the     *)
(* call runs after it.                                                     *)
Over(t, pc) ==
    /\ task[t].pc = pc /\ task[t].dropped
    /\ task' = [task EXCEPT ![t] = Idle]

LateMakeParents(t) ==
    /\ Over(t, "mkdirs")
    /\ ~Blocked(Target(t))
    /\ \E q \in UpTo(Target(t)) : tree' = WithDirs(Ancestors(q))
    /\ UNCHANGED content

(* O_CREAT and O_TRUNC with nobody left to check the descriptor.           *)
LateOpen(t) ==
    LET p == Target(t) IN
    /\ Over(t, "create")
    /\ OpenForWrite(p) = "ok"
    /\ tree[p] = Absent => Free # {}
    /\ LET i == IF tree[p] = Absent THEN CHOOSE j \in Free : TRUE ELSE tree[p]
       IN /\ tree' = [tree EXCEPT ![p] = i]
          /\ content' = [Kept(tree', task') EXCEPT ![i] = <<>>]

LateWrite(t) ==
    LET i == task[t].wr
        pos == task[t].pos
        chunk == IF Kind(t) = "put" THEN task[t].call.data[pos + 1]
                 ELSE task[t].buf[1]
    IN
    /\ Over(t, "write") \/ Over(t, "copywrite")
    /\ content' = [Kept(tree, task') EXCEPT ![i] =
                      IF i \in Used(tree, task') THEN WriteAt(@, pos, chunk) ELSE @]
    /\ UNCHANGED tree

LateUnlink(t) ==
    /\ Over(t, "unlink")
    /\ tree[Source(t)] \in Inodes
    /\ tree' = [tree EXCEPT ![Source(t)] = Absent]
    /\ content' = Kept(tree', task')

(* It failed.                                                              *)
LateNothing(t) ==
    /\ \E pc \in Running : Over(t, pc)
    /\ content' = Kept(tree, task')
    /\ UNCHANGED tree

Late(t) == \/ LateMakeParents(t) \/ LateOpen(t) \/ LateWrite(t)
           \/ LateUnlink(t) \/ LateNothing(t)

(* The process dies; the files stay as they are.                           *)
Crash ==
    /\ \E t \in Tasks : task[t].pc \in Running
    /\ task' = [t \in Tasks |-> Idle]
    /\ content' = Kept(tree, task')
    /\ UNCHANGED tree

(* The next step of a call whose caller waits for it.                      *)
Advance(t) ==
    \/ MakeParents(t) \/ OpenSource(t)
    \/ Truncate(t) \/ Create(t) \/ CreateFails(t)
    \/ Write(t) \/ Read(t) \/ CopyRead(t) \/ CopyWrite(t)
    \/ Stat(t) \/ Unlink(t)

(* What the runtime does for a call without any help from its caller.      *)
Step(t) == Advance(t) \/ Late(t)

Next ==
    \/ \E t \in Tasks :
          \/ \E c \in Calls : Begin(t, c)
          \/ Step(t)
          \/ MakeParentsFails(t) \/ Fail(t)
          \/ Return(t) \/ Cancel(t)
    \/ Crash

Spec == Init /\ [][Next]_vars

(* The async runtime polls a woken future, and the kernel answers.         *)
Fairness == \A t \in Tasks : WF_vars(Step(t))

FairSpec == Spec /\ Fairness

-----------------------------------------------------------------------------
(* Properties                                                              *)

(* Containment (assert_inside_root, O_NOFOLLOW, the descriptor check): no  *)
(* call gets past its checks on a path that goes through a symbolic link,  *)
(* and none holds open a file that has a name outside the root.            *)
Contained ==
    \A t \in Tasks :
        /\ {task[t].rd, task[t].wr} \cap Shared = {}
        /\ task[t].pc \in Running =>
              \A q \in UpTo(Source(t)) : tree[q] # Link
        /\ task[t].pc \in {"create", "write", "copyread", "copywrite"} =>
              \A q \in UpTo(Target(t)) : tree[q] # Link

(* No step of any call changes a file that has a name outside the root,    *)
(* not even by the O_TRUNC of an open that the descriptor check refuses.   *)
SharedUntouched ==
    [][\A i \in Shared : content'[i] = content[i]]_vars

(* A file below a path means that the path is a directory, whatever order  *)
(* create_dir_all, open and unlink of different calls run in.              *)
TreeOK == Rooted(tree) /\ NoAlias(tree)

(* To the tree, any number of calls in any order do what DirectoryTree     *)
(* allows: its steps, one at a time.                                       *)
Outline == [p \in Paths |-> IF tree[p] \in Inodes THEN File ELSE tree[p]]

Names == INSTANCE DirectoryTree WITH
    tree <- Outline, Objects <- {FullPath(k) : k \in LegalKeys}

KeepsDirectoryTree == Names!Spec

(* put checks max_file_size once, before it writes, and copy never does:   *)
(* still no interleaving of puts and copies, on the same file or not,      *)
(* grows a file or the buffer of a get beyond it.                          *)
SizeBounded ==
    /\ \A i \in Inodes : Len(content[i]) <= MaxFileSize
    /\ \A t \in Tasks : Len(task[t].buf) <= MaxFileSize

(* put creates the parents and opens the file in two steps.  No delete     *)
(* between them removes a parent, so a put never answers NotFound.         *)
PutNeverNotFound ==
    \A t \in Tasks : At(t, "done") /\ Kind(t) = "put" => task[t].res # "notfound"

(* A call that no other call disturbed answers and does what the Storage   *)
(* trait promises, whatever was stopped before it (by an error, a dropped  *)
(* future, a crash) and whatever runs next to it on other keys.  What a    *)
(* dropped future has left under way is a call still running: until its    *)
(* last system call is over it disturbs whoever uses its keys, the caller  *)
(* that timed out and tries again among them.                              *)
IsolatedCallKeepsItsPromise ==
    \A t \in Tasks : At(t, "done") /\ task[t].alone =>
        LET res == task[t].res
            orig == task[t].orig
            ok(kinds) == res = "ok" /\ Kind(t) \in kinds
            moved == ok(Movers) /\ Source(t) # Target(t)
        IN
        /\ ok({"put"}) => Object(Target(t)) = task[t].call.data
        /\ moved => orig # None /\ Object(Target(t)) = orig
        /\ moved /\ Kind(t) = "copy" => Object(Source(t)) = orig
        /\ ok({"delete", "rename"}) => tree[Source(t)] = Absent
        /\ ok({"get"}) => orig # None /\ task[t].buf = orig
        /\ res = "notfound" => orig = None
        /\ res = "false" => orig = None

(* A copy or rename to another key that is stopped at any step, by an      *)
(* error, a dropped future or a crash, has not lost the object: it is      *)
(* whole under at least one of the two keys, also while the system call of *)
(* a dropped copy or rename is under way.                                  *)
MoveKeepsData ==
    \A t \in Tasks :
        /\ task[t].pc # "idle" /\ Kind(t) \in Movers
        /\ task[t].alone /\ task[t].orig # None
        /\ Source(t) # Target(t)
        => task[t].orig \in {Object(Source(t)), Object(Target(t))}

(* What is stored under a key changes only by a call in progress on that   *)
(* very key, its caller still there or not: a writer whose file was        *)
(* deleted, or deleted and stored anew, under its feet writes to nobody    *)
(* else's object.                                                          *)
OnlyItsCallersChangeAnObject ==
    [][\A p \in Paths : Object(p)' # Object(p) =>
          \E t \in Tasks : task[t].pc \in Running /\ p \in Mutates(task[t].call)]_vars

(* Every call answers, also a get of a file that puts keep rewriting and a *)
(* copy of a file onto itself.                                             *)
CallsReturn == \A t \in Tasks : task[t].pc \in Running ~> task[t].pc \notin Running

-----------------------------------------------------------------------------
(* What docs and comments say and the code does not do                     *)

(* storage.rs: "deleting a key that does not exist is Ok(())".  Not so for *)
(* a key that others are stored below, or below a key that is stored.      *)
DeleteMissingIsOk ==
    \A t \in Tasks :
        /\ At(t, "done") /\ Kind(t) = "delete" /\ task[t].alone
        /\ task[t].orig = None /\ IsRelative(task[t].call.key)
        => task[t].res \in {"ok", "eio"}

(* storage.rs: rename is to "move a file to a new key".  Not so when the   *)
(* new key is another spelling of the old one ("./a" and "a", which local  *)
(* keys treat as one object): the file is copied onto itself and deleted.  *)
RenameMovesTheFile ==
    \A t \in Tasks :
        At(t, "done") /\ Kind(t) = "rename" /\ task[t].alone
        /\ task[t].orig # None /\ task[t].res = "ok"
        => Object(Target(t)) = task[t].orig
=============================================================================
