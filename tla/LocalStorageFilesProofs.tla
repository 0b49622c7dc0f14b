---------------------- MODULE LocalStorageFilesProofs ----------------------
(***************************************************************************)
(* The files of LocalStorage, for any tasks, calls and initial trees: none *)
(* outgrows max_file_size, no call reaches one that has a name outside the *)
(* root or lies behind a symbolic link, only the calls on a key change     *)
(* what is stored under it, and a call that nobody disturbs keeps what the *)
(* Storage trait promises.                                                 *)
(***************************************************************************)
EXTENDS LocalStorageProofs

-----------------------------------------------------------------------------
(* No file outgrows max_file_size                                          *)

Sized == \A i \in Inodes : ~(Len(content[i]) > MaxFileSize)

SizeSafe ==
    /\ Sized
    /\ \A t \in Tasks :
          /\ ~(Len(task[t].buf) > MaxFileSize)
          /\ task[t].pc \in Running /\ task[t].call.kind = "put"
                => ~(Len(task[t].call.data) > MaxFileSize)
          /\ task[t].pc = "copywrite" => task[t].pos < MaxFileSize

LEMMA KeptSized ==
    ASSUME Sized, NEW tr, NEW ts, content' = Kept(tr, ts)
    PROVE  Sized'
<1>1. MaxFileSize \in Nat
  BY LocalStorageAssumption
<1>2. Len(<<>>) = 0
  OBVIOUS
<1> QED BY <1>1, <1>2 DEF Sized, Kept

LEMMA WriteSized ==
    ASSUME Typed, Sized, NEW w \in Inodes, NEW pos \in Nat, pos < MaxFileSize,
           NEW chunk \in Chunks \cup {Hole},
           content' = [content EXCEPT ![w] = WriteAt(@, pos, chunk)]
    PROVE  Sized'
<1>1. MaxFileSize \in Nat
  BY LocalStorageAssumption
<1>2. content \in [Inodes -> Data] /\ content[w] \in Data
  BY DEF Typed, StoreTyped
<1>3. Len(content[w]) \in Nat
  BY <1>2, LenProperties DEF Data
<1>4. Len(WriteAt(content[w], pos, chunk)) =
         IF Len(content[w]) > pos THEN Len(content[w]) ELSE pos + 1
  BY <1>2, WriteAtTyped
<1>5. ~(Len(WriteAt(content[w], pos, chunk)) > MaxFileSize)
  BY <1>1, <1>3, <1>4 DEF Sized
<1>6. \A i \in Inodes : content'[i] = IF i = w THEN WriteAt(content[w], pos, chunk)
                                      ELSE content[i]
  BY <1>2
<1> QED BY <1>5, <1>6 DEF Sized

(* What the last system call of a dropped future does to the files: it     *)
(* frees those that nothing refers to any more, an open empties one, and a *)
(* write puts one chunk into the file it had open, if that is still there. *)
LEMMA LateContent ==
    ASSUME Typed, NEW t \in Tasks, Late(t), NEW i \in Inodes
    PROVE  \/ content'[i] = content[i]
           \/ content'[i] = <<>> /\ i \notin Used(tree', task')
           \/ /\ LateOpen(t) /\ content'[i] = <<>>
              /\ \/ tree[Target(t)] = i /\ tree' = tree
                 \/ NamesFile(t, i)
           \/ /\ LateWrite(t) /\ i = task[t].wr
              /\ content'[i] = WriteAt(content[i], task[t].pos, LateChunk(t))
<1>1. content \in [Inodes -> Data]
  BY DEF Typed, StoreTyped
<1>2. ASSUME NEW tr, NEW ts
      PROVE  /\ i \in Used(tr, ts) => Kept(tr, ts)[i] = content[i]
             /\ i \notin Used(tr, ts) => Kept(tr, ts)[i] = <<>>
  BY DEF Kept
<1>3. CASE LateMakeParents(t)
  BY <1>3 DEF LateMakeParents
<1>4. CASE LateOpen(t)
  <2>1. PICK j \in Inodes :
           /\ content' = [Kept(tree', task') EXCEPT ![j] = <<>>]
           /\ \/ tree[Target(t)] = j /\ tree' = tree
              \/ NamesFile(t, j)
    BY <1>4, LateOpens
  <2>2. Kept(tree', task') \in [Inodes -> Data]
    BY <1>1, KeptTyped
  <2>3. CASE i = j
    BY <1>4, <2>1, <2>2, <2>3
  <2>4. CASE i # j
    <3>1. content'[i] = Kept(tree', task')[i]
      BY <2>1, <2>2, <2>4
    <3> QED BY <1>2, <3>1
  <2> QED BY <2>3, <2>4
<1>5. CASE LateWrite(t)
  <2> DEFINE w == task[t].wr
             kept == Kept(tree, task')
             used == w \in Used(tree, task')
             new == WriteAt(kept[w], task[t].pos, LateChunk(t))
  <2>1. /\ content' = [kept EXCEPT ![w] = IF used THEN new ELSE kept[w]]
        /\ tree' = tree /\ w \in Inodes
    BY <1>5, LateWriteIs DEF LateWrite
  <2>2. kept \in [Inodes -> Data]
    BY <1>1, KeptTyped
  <2>3. CASE i = w /\ used
    <3>1. kept[w] = content[w]
      BY <1>2, <2>3
    <3>2. content'[w] = new
      <4> HIDE DEF new, kept, w, used
      <4> QED BY <2>1, <2>2, <2>3
    <3> QED BY <1>5, <2>3, <3>1, <3>2
  <2>4. CASE ~(i = w /\ used)
    <3>1. content'[i] = kept[i]
      <4> HIDE DEF new, kept, w, used
      <4> QED BY <2>1, <2>2, <2>4
    <3> QED BY <1>2, <2>1, <3>1
  <2> QED BY <2>3, <2>4
<1>6. CASE LateUnlink(t) \/ LateNothing(t)
  <2>1. content' = Kept(tree', task')
    BY <1>6 DEF LateUnlink, LateNothing
  <2> QED BY <1>2, <2>1
<1> QED BY <1>3, <1>4, <1>5, <1>6 DEF Late

(* A step that is over with a Kept of the files and a file written at pos. *)
LEMMA LateSized ==
    ASSUME Typed, SizeSafe, NEW t \in Tasks, Late(t)
    PROVE  Sized'
<1> SUFFICES ASSUME NEW i \in Inodes PROVE ~(Len(content'[i]) > MaxFileSize)
  BY DEF Sized
<1>1. /\ MaxFileSize \in Nat /\ Len(<<>>) = 0
      /\ content[i] \in Data /\ Len(content[i]) \in Nat
      /\ ~(Len(content[i]) > MaxFileSize)
  BY LocalStorageAssumption, LenProperties
     DEF Typed, StoreTyped, Data, SizeSafe, Sized
<1>2. ASSUME LateWrite(t),
             content'[i] = WriteAt(content[i], task[t].pos, LateChunk(t))
      PROVE  ~(Len(content'[i]) > MaxFileSize)
  <2>1. /\ task[t].pos \in Nat /\ LateChunk(t) \in Chunks \cup {Hole}
        /\ task[t].pc = "write" => task[t].pos < Len(task[t].call.data)
        /\ task[t].pc \in {"write", "copywrite"}
    BY <1>2, LateWriteIs DEF LateWrite, Over
  <2>2. task[t].pos < MaxFileSize
    <3>1. CASE task[t].pc = "copywrite"
      BY <3>1 DEF SizeSafe
    <3>2. CASE task[t].pc = "write"
      <4>1. task[t].call \in Calls /\ task[t].call.kind = "put"
        BY <3>2 DEF Typed, TasksTyped, CallOK
      <4>2. Len(task[t].call.data) \in Nat
        BY <4>1, LocalStorageAssumption, LenProperties DEF CallType
      <4>3. ~(Len(task[t].call.data) > MaxFileSize)
        BY <3>2, <4>1 DEF SizeSafe, Running
      <4> QED BY <1>1, <2>1, <3>2, <4>2, <4>3
    <3> QED BY <2>1, <3>1, <3>2
  <2>3. Len(content'[i]) = IF Len(content[i]) > task[t].pos THEN Len(content[i])
                           ELSE task[t].pos + 1
    <3> DEFINE data == content[i]
               pos == task[t].pos
               chunk == LateChunk(t)
    <3>1. data \in Data /\ pos \in Nat /\ chunk \in Chunks \cup {Hole}
      BY <1>1, <2>1
    <3>2. content'[i] = WriteAt(data, pos, chunk)
      BY <1>2
    <3> HIDE DEF data, pos, chunk
    <3>3. Len(WriteAt(data, pos, chunk)) = IF Len(data) > pos THEN Len(data) ELSE pos + 1
      BY <3>1, WriteAtTyped
    <3> QED BY <3>2, <3>3 DEF data, pos
  <2> QED BY <1>1, <2>1, <2>2, <2>3
<1> QED BY <1>1, <1>2, LateContent

(* No step makes a file longer than max_file_size.                         *)
LEMMA SizedStep ==
    ASSUME Typed, SizeSafe, [Next]_vars
    PROVE  Sized'
<1>1. MaxFileSize \in Nat
  BY LocalStorageAssumption
<1>2. Sized /\ content \in [Inodes -> Data] /\ task \in [Tasks -> TaskType]
  BY DEF SizeSafe, Typed, StoreTyped, TasksTyped
<1>3. CASE content' = content
  BY <1>2, <1>3 DEF Sized
<1>4. ASSUME NEW t \in Tasks, Truncate(t) \/ Create(t) PROVE Sized'
  <2>1. PICK i \in Inodes : content' = [content EXCEPT ![i] = <<>>]
    <3>1. CASE Truncate(t)
      BY <3>1 DEF Truncate
    <3>2. CASE Create(t)
      <4>1. (CHOOSE j \in Free : TRUE) \in Free
        BY <3>2 DEF Create
      <4> QED BY <3>2, <4>1 DEF Create, Free
    <3> QED BY <1>4, <3>1, <3>2
  <2>2. \A j \in Inodes : content'[j] = IF j = i THEN <<>> ELSE content[j]
    BY <1>2, <2>1
  <2> QED BY <1>1, <1>2, <2>2 DEF Sized
<1>5. ASSUME NEW t \in Tasks, Write(t) PROVE Sized'
  <2> DEFINE pos == task[t].pos
             data == task[t].call.data
  <2>1. CASE pos < Len(data)
    <3>1. /\ task[t].pc = "write"
          /\ content' = [content EXCEPT ![task[t].wr] = WriteAt(@, pos, data[pos + 1])]
      BY <1>5, <2>1 DEF Write, At
    <3>2. task[t].wr \in Inodes /\ task[t].call.kind = "put" /\ pos \in Nat
      BY <1>2, <3>1 DEF Typed, TasksTyped, CallOK, TaskType
    <3>3. data \in Seq(Chunks)
      BY <3>1, LocalStorageAssumption DEF Typed, TasksTyped, CallType
    <3>4. Len(data) \in Nat /\ ~(Len(data) > MaxFileSize)
      BY <3>1, <3>2, <3>3, LenProperties DEF SizeSafe, Running
    <3>5. data[pos + 1] \in Chunks
      BY <2>1, <3>2, <3>3, <3>4, ElementOfSeq
    <3>6. pos < MaxFileSize
      BY <1>1, <2>1, <3>2, <3>4
    <3>7. data[pos + 1] \in Chunks \cup {Hole}
      BY <3>5
    <3> HIDE DEF pos, data
    <3> QED BY <1>2, <3>1, <3>2, <3>6, <3>7, WriteSized
  <2>2. CASE ~(pos < Len(data))
    BY <1>2, <1>5, <2>2, KeptSized DEF Write
  <2> QED BY <2>1, <2>2
<1>6. ASSUME NEW t \in Tasks, CopyWrite(t) PROVE Sized'
  <2>1. /\ task[t].pc = "copywrite"
        /\ content' = [content EXCEPT ![task[t].wr] =
                          WriteAt(@, task[t].pos, task[t].buf[1])]
    BY <1>6 DEF CopyWrite, At
  <2>2. /\ task[t].wr \in Inodes /\ task[t].pos \in Nat
        /\ task[t].buf \in Data /\ task[t].buf # <<>>
    BY <1>2, <2>1 DEF Typed, TasksTyped, CallOK, TaskType
  <2>3. task[t].buf[1] \in Chunks \cup {Hole}
    BY <2>2, ElementOfSeq, EmptySeq, LenProperties DEF Data
  <2>4. task[t].pos < MaxFileSize
    BY <2>1 DEF SizeSafe
  <2> QED BY <1>2, <2>1, <2>2, <2>3, <2>4, WriteSized
<1>7. ASSUME NEW t \in Tasks,
             CreateFails(t) \/ Read(t) \/ Stat(t) \/ Unlink(t) \/ Fail(t) \/ Cancel(t)
      PROVE  Sized'
  BY <1>2, <1>3, <1>7, KeptSized DEF CreateFails, Read, Stat, Unlink, Fail, Cancel
<1>8. CASE Crash
  BY <1>2, <1>8, KeptSized DEF Crash
<1>9. ASSUME NEW t \in Tasks, Late(t) PROVE Sized'
  BY <1>9, LateSized
<1> QED BY <1>3, <1>4, <1>5, <1>6, <1>7, <1>8, <1>9
        DEF Next, Step, Advance, Begin, MakeParents, MakeParentsFails, OpenSource,
            CopyRead, Return, vars

(* A step of a call is a step of one that runs, and keeps its arguments.   *)
LEMMA MovesRunning ==
    ASSUME task \in [Tasks -> TaskType], NEW t \in Tasks, Moves(t)
    PROVE  task[t].pc \in Running /\ task'[t].call = task[t].call
<1>1. task[t].pc \in Running
  BY DEF Moves, Advance, At, MakeParents, OpenSource, Truncate, Create, CreateFails,
         Write, Read, CopyRead, CopyWrite, Stat, Unlink, MakeParentsFails, Fail,
         Running
<1> SUFFICES task'[t].call = task[t].call
  BY <1>1
<1>2. CASE MakeParents(t) \/ MakeParentsFails(t) \/ OpenSource(t)
  BY <1>2, Finished, Went DEF MakeParents, MakeParentsFails, OpenSource, TaskType
<1>3. CASE Truncate(t) \/ Create(t) \/ CreateFails(t)
  BY <1>3, Finished DEF Truncate, Create, CreateFails, TaskType
<1>4. CASE Write(t) \/ Read(t) \/ CopyRead(t) \/ CopyWrite(t)
  BY <1>4, Finished, Went DEF Write, Read, CopyRead, CopyWrite, TaskType
<1>5. CASE Stat(t) \/ Unlink(t) \/ Fail(t)
  BY <1>5, Finished DEF Stat, Unlink, Fail, TaskType
<1> QED BY <1>2, <1>3, <1>4, <1>5 DEF Moves, Advance

LEMMA SizeSafeStep ==
    ASSUME Typed, SizeSafe, [Next]_vars
    PROVE  SizeSafe'
<1> DEFINE small(t) == ~(Len(task[t].buf) > MaxFileSize)
           fits(t) == task[t].pc \in Running /\ task[t].call.kind = "put"
                         => ~(Len(task[t].call.data) > MaxFileSize)
           inside(t) == task[t].pc = "copywrite" => task[t].pos < MaxFileSize
<1> SUFFICES ASSUME NEW t \in Tasks
             PROVE  small(t)' /\ fits(t)' /\ inside(t)'
  BY SizedStep DEF SizeSafe
<1>1. MaxFileSize \in Nat /\ Len(<<>>) = 0
  BY LocalStorageAssumption
<1>2. /\ Sized /\ content \in [Inodes -> Data] /\ task \in [Tasks -> TaskType]
      /\ task[t].buf \in Data /\ task[t].pos \in Nat
  BY DEF SizeSafe, Typed, StoreTyped, TasksTyped, TaskType
<1>3. small(t) /\ fits(t) /\ inside(t)
  BY DEF SizeSafe
<1>4. CASE Untouched(t)
  BY <1>3, <1>4 DEF Untouched
<1>5. CASE task'[t] = Idle
  BY <1>1, <1>5 DEF Idle, Running
<1>6. ASSUME NEW c \in Calls, Begin(t, c)
      PROVE  small(t)' /\ fits(t)' /\ inside(t)'
  <2>1. /\ task'[t].call = c /\ task'[t].buf = <<>>
        /\ task'[t].pc \in {"mkdirs", "open", "stat", "unlink", "done"}
        /\ task'[t].pc # "done" => Admit(c) = "ok"
    BY <1>2, <1>6, Begun
  <2>2. task'[t].pc \in Running => task'[t].pc # "done"
    BY DEF Running
  <2> QED BY <1>1, <2>1, <2>2, AdmitAnswers
<1>7. CASE Moves(t)
  <2>1. fits(t)'
    <3>1. task[t].pc \in Running /\ task'[t].call = task[t].call
      BY <1>2, <1>7, MovesRunning
    <3> QED BY <1>3, <3>1
  <2>2. CASE CopyRead(t)
    <3> DEFINE data == content[task[t].rd]
               pos == task[t].pos
    <3>1. /\ task[t].rd \in Inodes /\ task[t].pc = "copyread"
          /\ data \in Data /\ Len(data) \in Nat /\ ~(Len(data) > MaxFileSize)
      BY <1>2, <2>2, LenProperties
         DEF CopyRead, At, Sized, Typed, TasksTyped, CallOK, Data
    <3>2. CASE pos < Len(data)
      <4>1. task'[t].buf = <<data[pos + 1]>> /\ task'[t].pos = pos
        BY <1>2, <2>2, <3>2 DEF CopyRead, TaskType
      <4>2. pos < MaxFileSize /\ ~(1 > MaxFileSize)
        BY <1>1, <1>2, <3>1, <3>2
      <4>3. Len(<<data[pos + 1]>>) = 1
        OBVIOUS
      <4> QED BY <2>1, <4>1, <4>2, <4>3
    <3>3. CASE ~(pos < Len(data))
      <4>1. Goto(t, "stat")
        BY <2>2, <3>3 DEF CopyRead
      <4> QED BY <1>2, <1>3, <2>1, <4>1, Went
    <3> QED BY <3>2, <3>3
  <2>3. ~CopyRead(t) => task'[t].pc # "copywrite"
    BY <1>2, <1>7, Finished, Went
       DEF Moves, Advance, At, MakeParents, OpenSource, Truncate, Create,
           CreateFails, Write, Read, CopyWrite, Stat, Unlink,
           MakeParentsFails, Fail, TaskType
  <2>4. CASE Read(t)
    <3> DEFINE data == content[task[t].rd]
               buf == task[t].buf
    <3>1. /\ task[t].rd \in Inodes /\ Len(buf) \in Nat
          /\ data \in Data /\ Len(data) \in Nat /\ ~(Len(data) > MaxFileSize)
      BY <1>2, <2>4, LenProperties
         DEF Read, At, Sized, Typed, TasksTyped, CallOK, Data
    <3>2. CASE Len(buf) < Len(data)
      <4>1. task'[t].buf = Append(buf, data[Len(buf) + 1])
        BY <1>2, <2>4, <3>2 DEF Read, TaskType
      <4>2. data[Len(buf) + 1] \in Chunks \cup {Hole}
        BY <3>1, <3>2, ElementOfSeq DEF Data
      <4>3. Len(task'[t].buf) = Len(buf) + 1
        BY <1>2, <4>1, <4>2, AppendProperties DEF Data
      <4>4. ~(Len(buf) + 1 > MaxFileSize)
        BY <1>1, <3>1, <3>2
      <4> QED BY <2>1, <2>3, <2>4, <4>3, <4>4 DEF Read, CopyRead, At
    <3>3. CASE ~(Len(buf) < Len(data))
      <4>1. Finish(t, "ok")
        BY <2>4, <3>3 DEF Read
      <4> QED BY <1>2, <1>3, <2>1, <4>1, Finished
    <3> QED BY <3>2, <3>3
  <2>5. CASE ~CopyRead(t) /\ ~Read(t)
    <3>1. task'[t].buf \in {task[t].buf, <<>>}
      <4>1. CASE \E res : Finish(t, res)
        BY <1>2, <4>1, Finished
      <4>2. CASE \E pc : Goto(t, pc)
        BY <1>2, <4>2, Went
      <4>3. CASE OpenSource(t) \/ Truncate(t) \/ Create(t)
        BY <1>2, <4>1, <4>3 DEF OpenSource, Truncate, Create, TaskType
      <4>4. CASE Write(t) \/ CopyWrite(t) \/ Stat(t)
        BY <1>2, <4>1, <4>4 DEF Write, CopyWrite, Stat, TaskType
      <4> QED BY <1>7, <2>5, <4>1, <4>2, <4>3, <4>4
              DEF Moves, Advance, MakeParents, CreateFails, Unlink,
                  MakeParentsFails, Fail
    <3> QED BY <1>1, <1>3, <2>1, <2>3, <2>5, <3>1
  <2> QED BY <2>2, <2>4, <2>5
<1> QED BY <1>2, <1>4, <1>5, <1>6, <1>7, Transitions

(* put checks the size of its data once and copy checks nothing, yet no    *)
(* interleaving of calls makes a file, or the buffer of a get, longer than *)
(* max_file_size.                                                          *)
THEOREM SizesBounded == Spec => []SizeBounded
<1>1. MaxFileSize \in Nat /\ Len(<<>>) = 0
  BY LocalStorageAssumption
<1>2. Init => SizeSafe
  <2> SUFFICES ASSUME Init PROVE SizeSafe
    OBVIOUS
  <2>1. \A i \in Inodes : Len(content[i]) \in Nat /\ Len(content[i]) <= MaxFileSize
    BY LocalStorageAssumption, LenProperties DEF Init, Data
  <2>2. Sized
    BY <1>1, <2>1 DEF Sized
  <2> QED BY <1>1, <2>2 DEF Init, SizeSafe, Idle, Running
<1>3. Typed /\ SizeSafe /\ [Next]_vars => SizeSafe'
  BY SizeSafeStep
<1>4. Typed /\ SizeSafe => SizeBounded
  <2> SUFFICES ASSUME Typed, SizeSafe PROVE SizeBounded
    OBVIOUS
  <2>1. \A i \in Inodes : Len(content[i]) \in Nat
    BY LenProperties DEF Typed, StoreTyped, Data
  <2>2. \A t \in Tasks : Len(task[t].buf) \in Nat
    BY LenProperties DEF Typed, TasksTyped, TaskType, Data
  <2> QED BY <1>1, <2>1, <2>2 DEF SizeSafe, Sized, SizeBounded
<1> QED BY <1>2, <1>3, <1>4, AlwaysTyped, PTL DEF Spec

-----------------------------------------------------------------------------
(* Nothing reaches a linked file                                           *)

Entering == {"open", "create", "write", "copyread", "copywrite"}

(* What makes Contained and SharedUntouched inductive: a copy has checked  *)
(* its second key before it opens anything, and what a call is about to    *)
(* open for writing has no name outside the root.                          *)
Clear(t) ==
    /\ task[t].rd \notin Shared /\ task[t].wr \notin Shared
    /\ task[t].pc \in Running => \A q \in UpTo(Source(t)) : tree[q] # Link
    /\ task[t].pc \in Entering => \A q \in UpTo(Target(t)) : tree[q] # Link
    /\ task[t].pc \in {"open", "create"} => tree[Target(t)] \notin Shared

Inside == \A t \in Tasks : Clear(t)

LEMMA ResolvedClear ==
    ASSUME NEW key, Resolve(key) = "ok"
    PROVE  /\ \A q \in UpTo(FullPath(key)) : tree[q] # Link
           /\ tree[FullPath(key)] \notin Shared
  BY DEF Resolve

(* Where the steps of a call that lead to an open file come from.          *)
LEMMA EntersChecked ==
    ASSUME Typed, NEW t \in Tasks, Moves(t)
    PROVE  /\ task'[t].pc \in Entering =>
                 task[t].pc \in Entering
                    \/ (task[t].pc = "mkdirs" /\ Resolve(task[t].call.to) = "ok")
           /\ task'[t].pc \in {"open", "create"} =>
                 task[t].pc = "open"
                    \/ (task[t].pc = "mkdirs" /\ Resolve(task[t].call.to) = "ok")
<1>1. task \in [Tasks -> TaskType]
  BY DEF Typed, TasksTyped
<1>2. CASE MakeParents(t)
  BY <1>1, <1>2, Finished, Went DEF MakeParents, At, Entering
<1>3. CASE OpenSource(t) \/ Truncate(t) \/ Create(t)
  BY <1>1, <1>3, Finished DEF OpenSource, Truncate, Create, At, Entering, TaskType
<1>4. CASE Write(t) \/ Read(t) \/ CopyRead(t) \/ CopyWrite(t)
  <2>1. task[t].pc \in Entering \/ task[t].pc = "read"
    BY <1>4 DEF Write, Read, CopyRead, CopyWrite, At, Entering
  <2>2. /\ task'[t].pc # "open" /\ task'[t].pc # "create"
        /\ task[t].pc = "read" => task'[t].pc \notin Entering
    BY <1>1, <1>4, Finished, Went
       DEF Write, Read, CopyRead, CopyWrite, At, Entering, TaskType
  <2> QED BY <2>1, <2>2
<1>5. CASE Stat(t)
  BY <1>1, <1>5, Finished DEF Stat, At, Entering, TaskType
<1>6. CASE CreateFails(t) \/ Unlink(t) \/ MakeParentsFails(t) \/ Fail(t)
  BY <1>1, <1>6, Finished
     DEF CreateFails, Unlink, MakeParentsFails, Fail, Entering
<1> QED BY <1>2, <1>3, <1>4, <1>5, <1>6 DEF Moves, Advance

LEMMA OpensUnshared ==
    ASSUME Typed, NEW t \in Tasks, Moves(t),
           task[t].rd \notin Shared, task[t].wr \notin Shared
    PROVE  task'[t].rd \notin Shared /\ task'[t].wr \notin Shared
<1>1. task \in [Tasks -> TaskType] /\ None \notin Shared
  BY Distinct DEF Typed, TasksTyped
<1>2. CASE \E res : Finish(t, res)
  BY <1>1, <1>2, Finished
<1>3. CASE \E pc : Goto(t, pc)
  BY <1>1, <1>3, Went
<1>4. CASE OpenSource(t)
  BY <1>1, <1>2, <1>4 DEF OpenSource, OpenForRead, TaskType
<1>5. CASE Truncate(t)
  BY <1>1, <1>2, <1>5 DEF Truncate, TaskType
<1>6. CASE Create(t)
  <2>1. task'[t].rd = task[t].rd /\ task'[t].wr \in Free
    BY <1>1, <1>6 DEF Create, TaskType
  <2> QED BY <2>1 DEF Free, Used
<1>7. CASE Write(t) \/ Read(t) \/ CopyRead(t) \/ CopyWrite(t) \/ Stat(t)
  BY <1>1, <1>2, <1>3, <1>7 DEF Write, Read, CopyRead, CopyWrite, Stat, TaskType
<1> QED BY <1>2, <1>3, <1>4, <1>5, <1>6, <1>7
        DEF Moves, Advance, MakeParents, CreateFails, Unlink, MakeParentsFails, Fail

LEMMA InsideStep ==
    ASSUME Typed, Inside, [Next]_vars
    PROVE  Inside'
<1> SUFFICES ASSUME NEW t \in Tasks PROVE Clear(t)'
  BY DEF Inside
<1>1. Clear(t) /\ task \in [Tasks -> TaskType]
  BY DEF Inside, Typed, TasksTyped
<1>2. task[t].pc \in Running =>
         \A q \in UpTo(Source(t)) : tree[q] # Link /\ tree'[q] # Link
  <2> SUFFICES ASSUME task[t].pc \in Running, NEW q \in UpTo(Source(t))
               PROVE  tree[q] # Link /\ tree'[q] # Link
    OBVIOUS
  <2>1. q \in Paths
    BY SourceInPaths, PathsClosed
  <2> QED BY <1>1, <2>1, DirsAndLinksStay DEF Clear
<1>3. ASSUME task[t].pc \in Running, IsRelative(task[t].call.to),
             \A q \in UpTo(Target(t)) : tree[q] # Link
      PROVE  \A q \in UpTo(Target(t)) : tree'[q] # Link
  <2> SUFFICES ASSUME NEW q \in UpTo(Target(t)) PROVE tree'[q] # Link
    OBVIOUS
  <2>1. q \in Paths
    BY <1>3, TargetInPaths, PathsClosed DEF Running
  <2> QED BY <1>3, <2>1, DirsAndLinksStay
<1>4. ASSUME task[t].pc \in Running, IsRelative(task[t].call.to),
             tree[Target(t)] \notin Shared
      PROVE  tree'[Target(t)] \notin Shared
  BY <1>4, TargetInPaths, DirsAndLinksStay DEF Running
<1>5. /\ Entering \subseteq Running \ {"mkdirs"}
      /\ task[t].pc \in Running \ {"mkdirs"} => IsRelative(task[t].call.to)
  BY DEF Entering, Running, Typed, TasksTyped, CallOK
<1>6. CASE Untouched(t)
  <2>1. Source(t)' = Source(t) /\ Target(t)' = Target(t)
    BY <1>6 DEF Untouched, Source, Target
  <2> QED BY <1>1, <1>2, <1>3, <1>4, <1>5, <1>6, <2>1
          DEF Untouched, Clear, Entering, Running
<1>7. CASE task'[t] = Idle
  BY <1>7, Distinct DEF Idle, Clear, Running, Entering
<1>8. ASSUME NEW c \in Calls, Begin(t, c) PROVE Clear(t)'
  <2>1. /\ task'[t].call = c /\ tree' = tree
        /\ task'[t].rd = None /\ task'[t].wr = None
        /\ task'[t].pc \in {"mkdirs", "open", "stat", "unlink", "done"}
        /\ task'[t].pc # "done" => Resolve(c.key) = "ok"
        /\ task'[t].pc = "open" => c.kind = "get"
    BY <1>1, <1>8, Begun, AdmitAnswers
  <2>2. c.kind = "get" => c.to = c.key
    BY LocalStorageAssumption DEF Movers
  <2>3. Source(t)' = FullPath(c.key) /\ Target(t)' = FullPath(c.to)
    BY <2>1 DEF Source, Target
  <2>4. Resolve(c.key) = "ok" =>
           /\ \A q \in UpTo(FullPath(c.key)) : tree'[q] # Link
           /\ tree'[FullPath(c.key)] \notin Shared
    BY <2>1, ResolvedClear
  <2> QED BY <2>1, <2>2, <2>3, <2>4, Distinct DEF Clear, Running, Entering
<1>9. CASE Moves(t)
  <2>1. task[t].pc \in Running /\ task'[t].call = task[t].call
    BY <1>1, <1>9, MovesRunning
  <2>2. Source(t)' = Source(t) /\ Target(t)' = Target(t)
    BY <2>1 DEF Source, Target
  <2>3. task'[t].rd \notin Shared /\ task'[t].wr \notin Shared
    BY <1>1, <1>9, OpensUnshared DEF Clear
  <2>4. Resolve(task[t].call.to) = "ok" =>
           /\ IsRelative(task[t].call.to)
           /\ \A q \in UpTo(Target(t)) : tree[q] # Link
           /\ tree[Target(t)] \notin Shared
    BY ResolvedClear, ResolveAnswers DEF Target
  <2>5. task'[t].pc \in Entering => \A q \in UpTo(Target(t)) : tree'[q] # Link
    BY <1>1, <1>3, <1>5, <1>9, <2>1, <2>4, EntersChecked DEF Clear
  <2>6. task'[t].pc \in {"open", "create"} => tree'[Target(t)] \notin Shared
    BY <1>1, <1>4, <1>5, <1>9, <2>1, <2>4, EntersChecked DEF Clear, Entering
  <2> QED BY <1>2, <2>1, <2>2, <2>3, <2>5, <2>6 DEF Clear
<1> QED BY <1>1, <1>6, <1>7, <1>8, <1>9, Transitions

(* The content of a file with a name outside the root: what no step of any *)
(* call changes, because the calls never hold such a file nor truncate it. *)
LEMMA SharedStays ==
    ASSUME Typed, Inside, [Next]_vars, NEW i \in Shared
    PROVE  content'[i] = content[i]
<1>1. /\ content \in [Inodes -> Data] /\ task \in [Tasks -> TaskType]
      /\ i \in Inodes
  BY Distinct DEF Typed, StoreTyped, TasksTyped
<1>2. ASSUME NEW tr, NEW ts, content' = Kept(tr, ts)
      PROVE  content'[i] = content[i]
  BY <1>1, <1>2 DEF Kept, Used
<1>3. ASSUME NEW j \in Inodes \ Shared, NEW data,
             content' = [content EXCEPT ![j] = data]
      PROVE  content'[i] = content[i]
  BY <1>1, <1>3
<1>4. ASSUME NEW t \in Tasks, Truncate(t) PROVE content'[i] = content[i]
  <2>1. tree[Target(t)] \in Inodes \ Shared
    BY <1>4 DEF Truncate, At, Inside, Clear
  <2> QED BY <1>3, <1>4, <2>1 DEF Truncate
<1>5. ASSUME NEW t \in Tasks, Create(t) PROVE content'[i] = content[i]
  <2>1. (CHOOSE j \in Free : TRUE) \in Inodes \ Shared
    BY <1>5 DEF Create, Free, Used
  <2> QED BY <1>3, <1>5, <2>1 DEF Create
<1>6. ASSUME NEW t \in Tasks, Write(t) \/ CopyWrite(t)
      PROVE  content'[i] = content[i]
  <2>1. task[t].wr \in Inodes \ Shared
    BY <1>6 DEF Write, CopyWrite, At, Inside, Clear, Typed, TasksTyped, CallOK
  <2> QED BY <1>2, <1>3, <1>6, <2>1 DEF Write, CopyWrite
<1>7. ASSUME NEW t \in Tasks,
             CreateFails(t) \/ Read(t) \/ Stat(t) \/ Unlink(t) \/ Fail(t) \/ Cancel(t)
      PROVE  content'[i] = content[i]
  BY <1>2, <1>7 DEF CreateFails, Read, Stat, Unlink, Fail, Cancel
<1>8. CASE Crash
  BY <1>2, <1>8 DEF Crash
<1>9. ASSUME NEW t \in Tasks, Late(t) PROVE content'[i] = content[i]
  <2>1. i \in Used(tree', task')
    BY DEF Used
  <2>2. ASSUME LateOpen(t) PROVE tree[Target(t)] # i /\ ~NamesFile(t, i)
    BY <2>2 DEF LateOpen, Over, Inside, Clear, NamesFile, Free, Used
  <2>3. i # task[t].wr
    BY DEF Inside, Clear
  <2> QED BY <1>1, <1>9, <2>1, <2>2, <2>3, LateContent
<1> QED BY <1>4, <1>5, <1>6, <1>7, <1>8, <1>9
        DEF Next, Step, Advance, Begin, MakeParents, MakeParentsFails, OpenSource,
            CopyRead, Return, vars

LEMMA InsideAlways == Spec => []Inside
<1>1. Init => Inside
  BY Distinct DEF Init, Inside, Clear, Idle, Running, Entering
<1>2. Typed /\ Inside /\ [Next]_vars => Inside'
  BY InsideStep
<1> QED BY <1>1, <1>2, AlwaysTyped, PTL DEF Spec

(* Whatever calls run beside it and whatever was in the store before, no   *)
(* call that has passed its checks works on a path through a symbolic      *)
(* link, or holds open a file that has a name outside the root.            *)
THEOREM StaysContained == Spec => []Contained
<1>1. Inside => Contained
  BY DEF Inside, Clear, Contained, Entering, Running
<1> QED BY <1>1, InsideAlways, PTL

(* No step of any call changes a file that has a name outside the root.    *)
THEOREM SharedNeverChanges == Spec => SharedUntouched
<1>1. Typed /\ Inside /\ [Next]_vars
         => [\A i \in Shared : content'[i] = content[i]]_vars
  BY SharedStays
<1> QED BY <1>1, InsideAlways, AlwaysTyped, PTL DEF Spec, SharedUntouched

-----------------------------------------------------------------------------
(* Who changes an object                                                   *)

(* Which calls get to which step.                                          *)
KindFits(t) ==
    LET pc == task[t].pc
        kind == task[t].call.kind
    IN
    /\ pc \in {"mkdirs", "create"} => kind \in Movers \cup {"put"}
    /\ pc = "open" => kind \in Movers \cup {"get"}
    /\ pc = "write" => kind = "put"
    /\ pc = "read" => kind = "get"
    /\ pc \in {"copyread", "copywrite"} => kind \in Movers
    /\ pc = "stat" => kind \in Movers \cup {"head", "exists"}
    /\ pc = "unlink" => kind \in {"delete", "rename"}

(* The file a call has open for writing has no name but that of the call's *)
(* target: when another call deletes it, no path gets it again.            *)
WritesOwn(t) ==
    \A p \in Paths :
        task[t].wr \in Inodes /\ tree[p] = task[t].wr => p = Target(t)

Owned ==
    \A t \in Tasks : task[t].pc # "idle" => KindFits(t) /\ WritesOwn(t)

LEMMA CallKinds ==
    ASSUME NEW c \in Calls
    PROVE  /\ c.kind \in Kinds
           /\ c.kind \notin Movers => c.to = c.key
  BY LocalStorageAssumption DEF CallType

(* What a call that moves on changes in its record.                        *)
LEMMA MoveRecord ==
    ASSUME task \in [Tasks -> TaskType], NEW t \in Tasks, Moves(t)
    PROVE  /\ \A u \in Tasks \ {t} : task'[u] = task[u]
           /\ task'[t].call = task[t].call
           /\ task'[t].alone = task[t].alone
           /\ task'[t].orig = task[t].orig
<1>1. \A u \in Tasks \ {t} : task'[u] = task[u]
  BY OthersKeep DEF Moves, Step
<1>2. task'[t].call = task[t].call
  BY MovesRunning
<1> SUFFICES task'[t].alone = task[t].alone /\ task'[t].orig = task[t].orig
  BY <1>1, <1>2
<1>3. ASSUME NEW res, Finish(t, res)
      PROVE  task'[t].alone = task[t].alone /\ task'[t].orig = task[t].orig
  BY <1>3 DEF Finish, TaskType
<1>4. ASSUME NEW pc, Goto(t, pc)
      PROVE  task'[t].alone = task[t].alone /\ task'[t].orig = task[t].orig
  BY <1>4 DEF Goto, TaskType
<1>5. CASE OpenSource(t) \/ Truncate(t) \/ Create(t) \/ CreateFails(t)
  BY <1>3, <1>5 DEF OpenSource, Truncate, Create, CreateFails, TaskType
<1>6. CASE Write(t) \/ Read(t) \/ CopyRead(t) \/ CopyWrite(t)
  BY <1>3, <1>4, <1>6 DEF Write, Read, CopyRead, CopyWrite, TaskType
<1>7. CASE MakeParents(t) \/ Stat(t) \/ Unlink(t) \/ MakeParentsFails(t) \/ Fail(t)
  BY <1>3, <1>4, <1>7 DEF MakeParents, Stat, Unlink, MakeParentsFails, Fail, TaskType
<1> QED BY <1>5, <1>6, <1>7 DEF Moves, Advance

LEMMA KindStep ==
    ASSUME Typed, NEW t \in Tasks, Moves(t), KindFits(t)
    PROVE  KindFits(t)'
<1>1. /\ task \in [Tasks -> TaskType] /\ task'[t].call = task[t].call
      /\ task[t].pc \in Running
  BY MovesRunning DEF Typed, TasksTyped
<1>2. CASE task'[t].pc = "done"
  BY <1>2 DEF KindFits
<1>3. CASE MakeParents(t)
  BY <1>1, <1>2, <1>3, Finished, Went
     DEF MakeParents, At, Kind, KindFits, Movers
<1>4. CASE OpenSource(t)
  <2>1. OpenForRead(Source(t)) # "ok" => task'[t].pc = "done"
    BY <1>1, <1>4, Finished DEF OpenSource
  <2>2. OpenForRead(Source(t)) = "ok" =>
           task'[t].pc = IF task[t].call.kind = "get" THEN "read" ELSE "create"
    BY <1>1, <1>4 DEF OpenSource, Kind, TaskType
  <2> QED BY <1>1, <1>2, <1>4, <2>1, <2>2 DEF OpenSource, At, KindFits
<1>5. CASE Truncate(t) \/ Create(t)
  <2>1. \/ task'[t].pc = "done"
        \/ task'[t].pc = IF task[t].call.kind = "put" THEN "write" ELSE "copyread"
    BY <1>1, <1>5, Finished DEF Truncate, Create, Kind, TaskType
  <2> QED BY <1>1, <1>2, <1>5, <2>1 DEF Truncate, Create, At, KindFits
<1>6. CASE Write(t) \/ Read(t)
  <2>1. task'[t].pc = "done" \/ task'[t].pc = task[t].pc
    BY <1>1, <1>6, Finished DEF Write, Read, TaskType
  <2> QED BY <1>1, <1>2, <2>1 DEF KindFits
<1>7. CASE CopyRead(t) \/ CopyWrite(t)
  <2>1. /\ task'[t].pc \in {"copyread", "copywrite", "stat"}
        /\ task[t].pc \in {"copyread", "copywrite"}
    BY <1>1, <1>7, Went DEF CopyRead, CopyWrite, At, TaskType
  <2> QED BY <1>1, <2>1 DEF KindFits
<1>8. CASE Stat(t)
  <2>1. \/ task'[t].pc = "done"
        \/ task'[t].pc = "unlink" /\ task[t].call.kind = "rename"
    BY <1>1, <1>8, Finished DEF Stat, Kind, TaskType
  <2> QED BY <1>1, <1>2, <2>1 DEF KindFits
<1>9. CASE CreateFails(t) \/ Unlink(t) \/ MakeParentsFails(t) \/ Fail(t)
  BY <1>1, <1>2, <1>9, Finished DEF CreateFails, Unlink, MakeParentsFails, Fail
<1> QED BY <1>3, <1>4, <1>5, <1>6, <1>7, <1>8, <1>9 DEF Moves, Advance

(* What a call has open for writing, and which paths lead to a file.       *)
LEMMA WrStep ==
    ASSUME Typed, NEW t \in Tasks, Moves(t)
    PROVE  \/ task'[t].wr \in {task[t].wr, None}
           \/ /\ Truncate(t) /\ task'[t].wr = tree[Target(t)]
              /\ tree' = tree
           \/ /\ Create(t) /\ task'[t].wr \in Free
              /\ tree' = [tree EXCEPT ![Target(t)] = task'[t].wr]
<1>1. task \in [Tasks -> TaskType]
  BY DEF Typed, TasksTyped
<1>2. CASE \E res : Finish(t, res)
  BY <1>1, <1>2, Finished
<1>3. CASE \E pc : Goto(t, pc)
  BY <1>1, <1>3, Went
<1>4. CASE Truncate(t)
  BY <1>1, <1>2, <1>4 DEF Truncate, TaskType
<1>5. CASE Create(t)
  BY <1>1, <1>5 DEF Create, TaskType
<1>6. CASE OpenSource(t) \/ Write(t) \/ Read(t) \/ CopyRead(t) \/ CopyWrite(t) \/ Stat(t)
  BY <1>1, <1>2, <1>3, <1>6
     DEF OpenSource, Write, Read, CopyRead, CopyWrite, Stat, TaskType
<1> QED BY <1>2, <1>3, <1>4, <1>5, <1>6
        DEF Moves, Advance, MakeParents, CreateFails, Unlink, MakeParentsFails, Fail

(* What a call that begins looks like, and what it does to the others.     *)
LEMMA BeginRecord ==
    ASSUME task \in [Tasks -> TaskType], NEW t \in Tasks, NEW c \in Calls, Begin(t, c)
    PROVE  /\ task'[t].pc = IF Admit(c) = "ok" THEN FirstStep(c) ELSE "done"
           /\ task'[t].alone = \A u \in Tasks :
                 task[u].pc \in Running => ~Disturbs(task[u].call, c)
           /\ task'[t].orig = IF IsRelative(c.key) THEN Object(FullPath(c.key)) ELSE None
           /\ \A u \in Tasks \ {t} :
                 /\ Untouched(u) /\ task'[u].orig = task[u].orig
                 /\ task'[u].alone =>
                       /\ task[u].alone
                       /\ task[u].pc # "idle" => ~Disturbs(c, task[u].call)
<1> DEFINE ok == Admit(c) = "ok"
           begun == [Idle EXCEPT
               !.call = c,
               !.pc = IF ok THEN FirstStep(c) ELSE "done",
               !.res = IF ok THEN "none" ELSE Admit(c),
               !.alone = \A u \in Tasks :
                   task[u].pc \in Running => ~Disturbs(task[u].call, c),
               !.orig = IF IsRelative(c.key) THEN Object(FullPath(c.key))
                        ELSE None]
<1>1. task' = [u \in Tasks |->
              IF u = t THEN begun
              ELSE IF task[u].pc # "idle" /\ Disturbs(c, task[u].call)
                   THEN [task[u] EXCEPT !.alone = FALSE]
                   ELSE task[u]]
  BY DEF Begin
<1>2. /\ begun.pc = IF Admit(c) = "ok" THEN FirstStep(c) ELSE "done"
      /\ begun.alone = \A u \in Tasks :
            task[u].pc \in Running => ~Disturbs(task[u].call, c)
      /\ begun.orig = IF IsRelative(c.key) THEN Object(FullPath(c.key)) ELSE None
  BY DEF Idle
<1>3. ASSUME NEW u \in Tasks \ {t}
      PROVE  /\ Untouched(u) /\ task'[u].orig = task[u].orig
             /\ task'[u].alone =>
                   /\ task[u].alone
                   /\ task[u].pc # "idle" => ~Disturbs(c, task[u].call)
  <2>1. task[u] \in TaskType
    OBVIOUS
  <2>2. CASE task[u].pc # "idle" /\ Disturbs(c, task[u].call)
    <3>1. task'[u] = [task[u] EXCEPT !.alone = FALSE]
      BY <1>1, <2>2
    <3> QED BY <2>1, <3>1 DEF Untouched, TaskType
  <2>3. CASE ~(task[u].pc # "idle" /\ Disturbs(c, task[u].call))
    <3>1. task'[u] = task[u]
      BY <1>1, <2>3
    <3> QED BY <2>3, <3>1 DEF Untouched
  <2> QED BY <2>2, <2>3
<1> HIDE DEF begun
<1> QED BY <1>1, <1>2, <1>3

(* A call that is not the one to move keeps its record and its history,    *)
(* and it is alone only if it was.                                         *)
Watches(t) ==
    /\ Untouched(t) /\ task'[t].orig = task[t].orig
    /\ task'[t].alone => task[t].alone

LEMMA Story ==
    ASSUME task \in [Tasks -> TaskType], [Next]_vars, NEW t \in Tasks
    PROVE  \/ UNCHANGED vars
           \/ task'[t] = Idle
           \/ \E c \in Calls : Begin(t, c)
           \/ Moves(t)
           \/ Watches(t)
<1>1. CASE Crash
  BY <1>1 DEF Crash
<1>2. ASSUME NEW u \in Tasks \ {t}, NEW c \in Calls, Begin(u, c)
      PROVE  Watches(t)
  BY <1>2, BeginRecord DEF Watches
<1>3. ASSUME NEW u \in Tasks \ {t}, Moves(u) \/ Late(u) \/ Return(u) \/ Cancel(u)
      PROVE  Watches(t)
  <2>1. task'[t] = task[t]
    BY <1>3, OthersKeep DEF Moves, Step
  <2> QED BY <2>1 DEF Watches, Untouched
<1>4. CASE Return(t) \/ Late(t)
  BY <1>4, LateEnds DEF Return
<1>5. CASE Cancel(t)
  BY <1>5, Cancelled DEF Watches
<1> QED BY <1>1, <1>2, <1>3, <1>4, <1>5 DEF Next, Step, Moves

(* A path gets only a name that nothing else refers to.                    *)
LEMMA NewNames ==
    ASSUME Typed, [Next]_vars, NEW p \in Paths, NEW i \in Inodes, tree'[p] = i
    PROVE  tree[p] = i \/ i \in Free
<1>1. tree \in [Paths -> Nodes]
  BY DEF Typed, StoreTyped
<1>2. ASSUME NEW t \in Tasks, MakesDirs(t) PROVE tree[p] = i
  BY <1>1, <1>2, Distinct DEF MakesDirs, WithDirs
<1>3. ASSUME NEW t \in Tasks, NEW j \in Free, NamesFile(t, j)
      PROVE  tree[p] = i \/ i \in Free
  BY <1>1, <1>3 DEF NamesFile
<1>4. ASSUME NEW t \in Tasks, DropsName(t) PROVE tree[p] = i
  BY <1>1, <1>4, Distinct DEF DropsName
<1> QED BY <1>2, <1>3, <1>4, TreeSteps

LEMMA OwnedStep ==
    ASSUME Typed, TreeOK, Owned, [Next]_vars
    PROVE  Owned'
<1> SUFFICES ASSUME NEW t \in Tasks, task'[t].pc # "idle"
             PROVE  KindFits(t)' /\ WritesOwn(t)'
  BY DEF Owned
<1>1. task \in [Tasks -> TaskType] /\ tree \in [Paths -> Nodes]
  BY DEF Typed, TasksTyped, StoreTyped
<1>2. ASSUME task[t].pc # "idle", task'[t].wr = task[t].wr,
             task'[t].call = task[t].call
      PROVE  WritesOwn(t)'
  <2> SUFFICES ASSUME NEW p \in Paths, task'[t].wr \in Inodes, tree'[p] = task'[t].wr
               PROVE  p = Target(t)
    BY <1>2 DEF WritesOwn, Target
  <2>1. task[t].wr \notin Free
    BY DEF Free, Used
  <2>2. tree[p] = task[t].wr
    BY <1>2, <2>1, NewNames
  <2> QED BY <1>2, <2>2 DEF Owned, WritesOwn
<1>3. CASE Untouched(t)
  <2>1. KindFits(t)'
    BY <1>3 DEF Untouched, Owned, KindFits
  <2> QED BY <1>2, <1>3, <2>1 DEF Untouched
<1>4. CASE task'[t] = Idle
  BY <1>4 DEF Idle
<1>5. ASSUME NEW c \in Calls, Begin(t, c) PROVE KindFits(t)' /\ WritesOwn(t)'
  <2>1. /\ task'[t].call = c /\ task'[t].wr = None
        /\ task'[t].pc \in {FirstStep(c), "done"}
    BY <1>1, <1>5, Begun, BeginRecord
  <2>2. KindFits(t)'
    BY <2>1, CallKinds DEF KindFits, FirstStep, Kinds, Readers, Movers
  <2> QED BY <2>1, <2>2, Distinct DEF WritesOwn
<1>6. CASE Moves(t)
  <2>1. task[t].pc \in Running /\ task'[t].call = task[t].call /\ task[t].pc # "idle"
    BY <1>1, <1>6, MovesRunning DEF Running
  <2>2. KindFits(t)'
    BY <1>6, <2>1, KindStep DEF Owned
  <2>3. CASE task'[t].wr = None
    BY <2>2, <2>3, Distinct DEF WritesOwn
  <2>4. CASE task'[t].wr = task[t].wr
    BY <1>2, <2>1, <2>2, <2>4
  <2>5. CASE Truncate(t) /\ task'[t].wr = tree[Target(t)] /\ tree' = tree
    <3>1. Target(t) \in Paths
      BY <2>1, <2>5, TargetInPaths
         DEF Truncate, At, Typed, TasksTyped, CallOK, Running
    <3>2. Target(t)' = Target(t)
      BY <2>1 DEF Target
    <3>3. WritesOwn(t)'
      BY <2>5, <3>1, <3>2 DEF WritesOwn, TreeOK, NoAlias
    <3> QED BY <2>2, <3>3
  <2>6. CASE /\ Create(t) /\ task'[t].wr \in Free
             /\ tree' = [tree EXCEPT ![Target(t)] = task'[t].wr]
    <3>1. Target(t)' = Target(t)
      BY <2>1 DEF Target
    <3>2. \A p \in Paths : tree[p] # task'[t].wr
      BY <2>6 DEF Free, Used
    <3>3. WritesOwn(t)'
      BY <1>1, <2>6, <3>1, <3>2 DEF WritesOwn
    <3> QED BY <2>2, <3>3
  <2> QED BY <1>6, <2>2, <2>3, <2>4, <2>5, <2>6, WrStep
<1> QED BY <1>1, <1>3, <1>4, <1>5, <1>6, Transitions

(* A file that keeps a name changes only by a call that opens or writes it.*)
LEMMA ContentSteps ==
    ASSUME Typed, [Next]_vars, NEW p \in Paths, NEW i \in Inodes,
           tree[p] = i, tree'[p] = i, content'[i] # content[i]
    PROVE  \E t \in Tasks :
              \/ Truncate(t) /\ tree[Target(t)] = i
              \/ (Write(t) \/ CopyWrite(t)) /\ task[t].wr = i
              \/ LateOpen(t) /\ tree[Target(t)] = i
              \/ LateWrite(t) /\ task[t].wr = i
<1>1. content \in [Inodes -> Data] /\ i \notin Free
  BY DEF Typed, StoreTyped, Free, Used
<1>2. ASSUME NEW ts, content' = Kept(tree', ts) PROVE FALSE
  BY <1>2 DEF Kept, Used
<1>3. ASSUME NEW t \in Tasks, Create(t) PROVE FALSE
  <2>1. PICK j \in Free : content' = [content EXCEPT ![j] = <<>>]
    BY <1>3 DEF Create
  <2> QED BY <1>1, <2>1
<1>4. ASSUME NEW t \in Tasks, Truncate(t)
      PROVE  tree[Target(t)] = i
  BY <1>1, <1>4 DEF Truncate
<1>5. ASSUME NEW t \in Tasks, Write(t) \/ CopyWrite(t)
      PROVE  task[t].wr = i
  <2>1. CASE content' = Kept(tree, task')
    BY <1>2, <1>5, <2>1 DEF Write, CopyWrite
  <2>2. CASE content' # Kept(tree, task')
    BY <1>1, <1>5, <2>2 DEF Write, CopyWrite
  <2> QED BY <2>1, <2>2
<1>6. ASSUME NEW t \in Tasks,
             CreateFails(t) \/ Read(t) \/ Stat(t) \/ Unlink(t) \/ Fail(t) \/ Cancel(t)
      PROVE  FALSE
  BY <1>2, <1>6 DEF CreateFails, Read, Stat, Unlink, Fail, Cancel
<1>7. CASE Crash
  BY <1>2, <1>7 DEF Crash
<1>8. ASSUME NEW t \in Tasks, Late(t)
      PROVE  \/ LateOpen(t) /\ tree[Target(t)] = i
             \/ LateWrite(t) /\ task[t].wr = i
  <2>1. i \in Used(tree', task') /\ ~NamesFile(t, i)
    BY <1>1 DEF Used, NamesFile
  <2> QED BY <1>8, <2>1, LateContent
<1> QED BY <1>3, <1>4, <1>5, <1>6, <1>7, <1>8
        DEF Next, Step, Advance, Begin, MakeParents, MakeParentsFails, OpenSource,
            CopyRead, Return, vars

(* What a path leads to, and the data of the file there, stay the same.    *)
Stays(p) ==
    /\ tree'[p] = tree[p]
    /\ tree[p] \in Inodes => content'[tree[p]] = content[tree[p]]

(* A call moves on, or the system call of a dropped one comes to its end.  *)
Acts(t) == Moves(t) \/ Late(t)

LEMMA TreeActs ==
    ASSUME Typed, [Next]_vars, tree' # tree
    PROVE  \E t \in Tasks :
              /\ Acts(t)
              /\ \/ MakesDirs(t)
                 \/ \E i \in Free : NamesFile(t, i)
                 \/ DropsName(t)
<1>1. ASSUME NEW t \in Tasks, MakeParents(t) \/ MakeParentsFails(t)
      PROVE  Acts(t) /\ MakesDirs(t)
  BY <1>1, ResolvedUnblocked
     DEF MakeParents, MakeParentsFails, MakesDirs, At, UpTo, Acts, Moves, Advance
<1>2. ASSUME NEW t \in Tasks, Create(t)
      PROVE  Acts(t) /\ \E i \in Free : NamesFile(t, i)
  BY <1>2 DEF Create, NamesFile, At, Acts, Moves, Advance
<1>3. ASSUME NEW t \in Tasks, Unlink(t) PROVE Acts(t) /\ DropsName(t)
  BY <1>3 DEF Unlink, DropsName, At, Acts, Moves, Advance
<1>4. ASSUME NEW t \in Tasks, Late(t)
      PROVE  Acts(t) /\ (MakesDirs(t) \/ (\E i \in Free : NamesFile(t, i)) \/ DropsName(t))
  <2>1. CASE LateMakeParents(t)
    BY <1>4, <2>1, LateMakesDirs DEF Acts
  <2>2. CASE LateOpen(t)
    BY <1>4, <2>2, LateOpens DEF NamesFile, Acts
  <2>3. CASE LateUnlink(t)
    BY <1>4, <2>3 DEF LateUnlink, DropsName, Over, Acts
  <2> QED BY <1>4, <2>1, <2>2, <2>3 DEF Late, LateWrite, LateNothing
<1> QED BY <1>1, <1>2, <1>3, <1>4
        DEF Next, Step, Advance, Begin, OpenSource, Truncate, CreateFails, Write,
            Read, CopyRead, CopyWrite, Stat, Fail, Return, Cancel, Crash, vars

LEMMA ActsRunning ==
    ASSUME task \in [Tasks -> TaskType], NEW t \in Tasks, Acts(t)
    PROVE  task[t].pc \in Running
  BY MovesRunning, LateEnds DEF Acts

(* A step changes what a path leads to only if it is a step of a call on   *)
(* that path, or makes a directory of it on the way to the call's target.  *)
LEMMA ChangedBy ==
    ASSUME Typed, TreeOK, Owned, [Next]_vars, NEW p \in Paths, ~Stays(p)
    PROVE  \E t \in Tasks :
              /\ Acts(t) /\ task[t].pc \in Running
              /\ \/ p \in Mutates(task[t].call)
                 \/ /\ tree[p] = Absent /\ tree'[p] = Dir
                    /\ p \in Ancestors(Target(t))
                    /\ Target(t) \in Mutates(task[t].call)
<1>1. task \in [Tasks -> TaskType] /\ tree \in [Paths -> Nodes]
  BY DEF Typed, TasksTyped, StoreTyped
<1>2. ASSUME NEW t \in Tasks, task[t].pc \in Running
      PROVE  /\ KindFits(t) /\ WritesOwn(t)
             /\ task[t].call \in Calls /\ task[t].call.kind \in Kinds
  BY <1>2, CallKinds DEF Owned, Running, Typed, TasksTyped
<1>3. ASSUME NEW t \in Tasks, task[t].pc \in Running,
             task[t].call.kind \in Movers \cup {"put"}
      PROVE  Target(t) \in Mutates(task[t].call)
  BY <1>3 DEF Mutates, Movers, Readers, Target, Uses
<1>4. ASSUME NEW t \in Tasks, MakesDirs(t), tree'[p] # tree[p]
      PROVE  /\ tree[p] = Absent /\ tree'[p] = Dir
             /\ p \in Ancestors(Target(t))
             /\ Target(t) \in Mutates(task[t].call)
  <2>1. PICK q \in UpTo(Target(t)) : tree' = WithDirs(Ancestors(q))
    BY <1>4 DEF MakesDirs
  <2>2. Ancestors(q) \subseteq Ancestors(Target(t))
    BY <2>1, AncestorsTransitive DEF UpTo
  <2>3. Target(t) \in Mutates(task[t].call)
    BY <1>2, <1>3, <1>4 DEF MakesDirs, KindFits, Running
  <2> QED BY <1>4, <2>1, <2>2, <2>3 DEF WithDirs
<1>5. CASE tree'[p] # tree[p]
  <2>1. PICK t \in Tasks :
           /\ Acts(t)
           /\ \/ MakesDirs(t)
              \/ \E i \in Free : NamesFile(t, i)
              \/ DropsName(t)
    BY <1>5, TreeActs
  <2>2. task[t].pc \in Running
    BY <1>1, <2>1, ActsRunning
  <2>3. CASE MakesDirs(t)
    BY <1>4, <1>5, <2>1, <2>2, <2>3
  <2>4. CASE \E i \in Free : NamesFile(t, i)
    <3>1. p = Target(t) /\ task[t].pc = "create"
      BY <1>1, <1>5, <2>4 DEF NamesFile
    <3> QED BY <1>2, <1>3, <2>1, <2>2, <3>1 DEF KindFits
  <2>5. CASE DropsName(t)
    <3>1. p = Source(t) /\ task[t].pc = "unlink"
      BY <1>1, <1>5, <2>5 DEF DropsName
    <3>2. p \in Mutates(task[t].call)
      BY <1>2, <2>2, <3>1, CallKinds
         DEF KindFits, Mutates, Source, Uses, Readers, Movers
    <3> QED BY <2>1, <2>2, <3>2
  <2> QED BY <2>1, <2>3, <2>4, <2>5
<1>6. CASE tree'[p] = tree[p]
  <2>1. /\ tree[p] \in Inodes /\ tree'[p] = tree[p]
        /\ content'[tree[p]] # content[tree[p]]
    BY <1>6 DEF Stays
  <2>2. PICK t \in Tasks :
           \/ Truncate(t) /\ tree[Target(t)] = tree[p]
           \/ (Write(t) \/ CopyWrite(t)) /\ task[t].wr = tree[p]
           \/ LateOpen(t) /\ tree[Target(t)] = tree[p]
           \/ LateWrite(t) /\ task[t].wr = tree[p]
    BY <2>1, ContentSteps
  <2>3. Acts(t) /\ task[t].pc \in Running
    BY <1>1, <2>2, ActsRunning DEF Acts, Moves, Advance, Late
  <2>4. task[t].pc \in {"create", "write", "copywrite"}
    BY <2>2 DEF Truncate, Write, CopyWrite, LateOpen, LateWrite, Over, At
  <2>5. p = Target(t)
    <3>1. CASE tree[Target(t)] = tree[p]
      <4>1. Target(t) \in Paths
        BY <2>3, <2>4, TargetInPaths DEF Typed, TasksTyped, CallOK, Running
      <4> QED BY <2>1, <3>1, <4>1 DEF TreeOK, NoAlias
    <3>2. CASE task[t].wr = tree[p]
      BY <1>2, <2>1, <2>3, <3>2 DEF WritesOwn
    <3> QED BY <2>2, <3>1, <3>2
  <2> QED BY <1>2, <1>3, <2>3, <2>4, <2>5 DEF KindFits
<1> QED BY <1>5, <1>6

LEMMA OwnedAlways == Spec => []Owned
<1>1. Init => Owned
  BY DEF Init, Owned, Idle
<1>2. Typed /\ TreeOK /\ Owned /\ [Next]_vars => Owned'
  BY OwnedStep
<1> QED BY <1>1, <1>2, AlwaysTyped, TreeStaysTree, PTL DEF Spec

(* What is stored under a key changes only by a step of a call in progress *)
(* that changes that very key: also a writer whose file another call has   *)
(* deleted, and whose name a third has given to a new file.                *)
THEOREM OnlyItsCallersEverChangeAnObject == Spec => OnlyItsCallersChangeAnObject
<1>1. ASSUME Typed, TreeOK, Owned, [Next]_vars, NEW p \in Paths,
             Object(p)' # Object(p)
      PROVE  \E t \in Tasks : task[t].pc \in Running /\ p \in Mutates(task[t].call)
  <2>1. ~Stays(p)
    BY <1>1 DEF Stays, Object
  <2>2. ~(tree[p] = Absent /\ tree'[p] = Dir)
    BY <1>1, Distinct DEF Object
  <2> QED BY <1>1, <2>1, <2>2, ChangedBy
<1>2. Typed /\ TreeOK /\ Owned /\ [Next]_vars =>
         [\A p \in Paths : Object(p)' # Object(p) =>
             \E t \in Tasks : task[t].pc \in Running /\ p \in Mutates(task[t].call)]_vars
  BY <1>1
<1> QED BY <1>2, AlwaysTyped, TreeStaysTree, OwnedAlways, PTL
        DEF Spec, OnlyItsCallersChangeAnObject

-----------------------------------------------------------------------------
(* What a call does that no other call disturbs                            *)

(* No call in progress changes anything on the paths of one that is alone. *)
Lonely ==
    \A t, u \in Tasks :
        t # u /\ task[t].pc # "idle" /\ task[t].alone /\ task[u].pc \in Running
        => ~Disturbs(task[u].call, task[t].call)

LEMMA LonelyStep ==
    ASSUME Typed, Lonely, [Next]_vars
    PROVE  Lonely'
<1> SUFFICES ASSUME NEW t \in Tasks, NEW u \in Tasks, t # u, task'[t].pc # "idle",
                    task'[t].alone, task'[u].pc \in Running
             PROVE  ~Disturbs(task'[u].call, task'[t].call)
  BY DEF Lonely
<1>1. task \in [Tasks -> TaskType] /\ "idle" \notin Running
  BY DEF Typed, TasksTyped, Running
<1>2. ASSUME NEW v \in Tasks, NEW c \in Calls, Begin(v, c)
      PROVE  ~Disturbs(task'[u].call, task'[t].call)
  <2>1. task'[v].call = c /\ \A w \in Tasks \ {v} : Untouched(w)
    BY <1>1, <1>2, Begun, BeginRecord
  <2>2. CASE v = t
    <3>1. ~Disturbs(task[u].call, c)
      BY <1>1, <1>2, <2>1, <2>2, BeginRecord DEF Untouched
    <3> QED BY <2>1, <2>2, <3>1 DEF Untouched
  <2>3. CASE v = u
    <3>1. ~Disturbs(c, task[t].call)
      <4>1. t \in Tasks \ {v} /\ task[t].pc # "idle"
        BY <2>1, <2>3 DEF Untouched
      <4>2. task'[t].alone => (task[t].pc # "idle" => ~Disturbs(c, task[t].call))
        BY <1>1, <1>2, <4>1, BeginRecord
      <4> QED BY <4>1, <4>2
    <3> QED BY <2>1, <2>3, <3>1 DEF Untouched
  <2>4. CASE v # t /\ v # u
    <3>1. task[t].alone
      BY <1>1, <1>2, <2>4, BeginRecord
    <3> QED BY <2>1, <2>4, <3>1 DEF Untouched, Lonely
  <2> QED BY <2>2, <2>3, <2>4
<1>3. ASSUME \A v \in Tasks, c \in Calls : ~Begin(v, c)
      PROVE  ~Disturbs(task'[u].call, task'[t].call)
  <2>1. ASSUME NEW v \in Tasks, task'[v].pc # "idle"
        PROVE  /\ task'[v].call = task[v].call /\ task[v].pc # "idle"
               /\ task'[v].alone => task[v].alone
               /\ task'[v].pc \in Running => task[v].pc \in Running
    <3>1. UNCHANGED vars \/ Moves(v) \/ Watches(v)
      BY <1>1, <1>3, <2>1, Story DEF Idle
    <3>2. CASE UNCHANGED vars
      BY <2>1, <3>2 DEF vars
    <3>3. CASE Moves(v)
      BY <1>1, <3>3, MovesRunning, MoveRecord
    <3>4. CASE Watches(v)
      BY <2>1, <3>4 DEF Watches, Untouched
    <3> QED BY <3>1, <3>2, <3>3, <3>4
  <2>2. task'[u].pc # "idle"
    BY <1>1
  <2> QED BY <2>1, <2>2 DEF Lonely
<1> QED BY <1>2, <1>3

(* What a call that is alone works on stays, except by its own steps.      *)
LEMMA LeftAlone ==
    ASSUME Typed, TreeOK, Owned, Lonely, [Next]_vars,
           NEW t \in Tasks, task[t].pc # "idle", task[t].alone, ~Acts(t),
           NEW p \in Paths, p \in Uses(task[t].call)
    PROVE  Stays(p) /\ Object(p)' = Object(p)
<1>1. Stays(p)
  <2> SUFFICES ASSUME ~Stays(p) PROVE FALSE
    OBVIOUS
  <2>1. PICK u \in Tasks :
           /\ Acts(u) /\ task[u].pc \in Running
           /\ \/ p \in Mutates(task[u].call)
              \/ /\ p \in Ancestors(Target(u))
                 /\ Target(u) \in Mutates(task[u].call)
    BY ChangedBy
  <2>2. \E q \in Mutates(task[u].call) : Nested(q, p)
    BY <2>1 DEF Nested, UpTo
  <2>3. Disturbs(task[u].call, task[t].call)
    BY <2>2 DEF Disturbs
  <2> QED BY <2>1, <2>3 DEF Lonely
<1> QED BY <1>1 DEF Stays, Object

(* data is the first n chunks of whole.                                    *)
Begins(data, whole, n) ==
    /\ n <= Len(whole) /\ Len(data) = n
    /\ \A i \in 1 .. n : data[i] = whole[i]

(* Until it opens its target, or unlinks its key, a call leaves the object *)
(* under its key as it found it.                                           *)
Looking(t) ==
    \/ task[t].pc \in {"mkdirs", "open", "create", "read"}
    \/ task[t].pc = "stat" /\ Kind(t) \notin Movers

Copying(t) ==
    \/ task[t].pc \in {"copyread", "copywrite"}
    \/ task[t].pc = "stat" /\ Kind(t) \in Movers

Elsewhere(t) == Kind(t) \in Movers /\ Source(t) # Target(t)

(* What the open files of a call are, and how far it has got.              *)
OnItsWay(t) ==
    LET k == task[t] IN
    /\ Looking(t) => Object(Source(t)) = k.orig
    /\ k.pc \in {"mkdirs", "open"} => k.buf = <<>>
    /\ k.pc = "read" => k.rd = tree[Source(t)] /\ Begins(k.buf, k.orig, Len(k.buf))
    /\ k.pc = "create" /\ Kind(t) \in Movers => k.rd = tree[Source(t)]
    /\ k.pc = "write" \/ Copying(t) => k.wr \in Inodes /\ k.wr = tree[Target(t)]
    /\ k.pc = "write" => Begins(content[k.wr], k.call.data, k.pos)

(* The same for a copy to another key: what has been written so far is the *)
(* beginning of the source, which is still there.                          *)
CopyOnItsWay(t) ==
    LET k == task[t] IN
    /\ Copying(t) => /\ k.rd \in Inodes /\ k.rd = tree[Source(t)]
                     /\ Object(Source(t)) = k.orig
    /\ k.pc \in {"copyread", "copywrite"} => Begins(content[k.wr], k.orig, k.pos)
    /\ k.pc = "copywrite" => k.pos < Len(k.orig) /\ k.buf = <<k.orig[k.pos + 1]>>
    /\ k.pc \in {"stat", "unlink"} =>
          k.orig # None /\ Object(Target(t)) = k.orig

(* The object a move is about is under one of its keys.                    *)
Safe(t) ==
    Elsewhere(t) /\ task[t].orig # None =>
        \/ Object(Source(t)) = task[t].orig
        \/ IsRelative(task[t].call.to) /\ Object(Target(t)) = task[t].orig

(* What a call that has returned has done, and the object a move is about  *)
(* is still there if it has failed.                                        *)
Promised(t) ==
    LET res == task[t].res
        orig == task[t].orig
        ok(kinds) == res = "ok" /\ Kind(t) \in kinds
        moved == ok(Movers) /\ Source(t) # Target(t)
    IN
    /\ res = "ok" => IsRelative(task[t].call.key) /\ IsRelative(task[t].call.to)
    /\ orig # None => IsRelative(task[t].call.key)
    /\ ok({"put"}) => Object(Target(t)) = task[t].call.data
    /\ moved => orig # None /\ Object(Target(t)) = orig
    /\ moved /\ Kind(t) = "copy" => Object(Source(t)) = orig
    /\ ok({"delete", "rename"}) => tree[Source(t)] = Absent
    /\ ok({"get"}) => orig # None /\ task[t].buf = orig
    /\ res \in {"notfound", "false"} => orig = None
    /\ Safe(t)

KeepsPromise(t) ==
    /\ OnItsWay(t)
    /\ Elsewhere(t) => CopyOnItsWay(t)
    /\ task[t].pc = "done" => Promised(t)

(* What the lemmas below assume of a call that takes a step.               *)
Going(t) ==
    /\ Typed /\ TreeOK /\ Owned /\ ParentsThere
    /\ task[t].pc \in Running /\ KeepsPromise(t)

LEMMA GoingFacts ==
    ASSUME NEW t \in Tasks, Going(t)
    PROVE  /\ task \in [Tasks -> TaskType] /\ tree \in [Paths -> Nodes]
           /\ content \in [Inodes -> Data]
           /\ task[t].call \in Calls /\ KindFits(t)
           /\ IsRelative(task[t].call.key) /\ Source(t) \in Paths
           /\ task[t].pc # "mkdirs" => IsRelative(task[t].call.to)
           /\ IsRelative(task[t].call.to) => Target(t) \in Paths
           /\ task[t].pos \in Nat /\ task[t].buf \in Data
<1>1. task[t].pc # "idle"
  BY DEF Going, Running
<1> QED BY <1>1, SourceInPaths, TargetInPaths
        DEF Going, Typed, TasksTyped, StoreTyped, CallOK, Owned, TaskType

LEMMA SafeNow ==
    ASSUME NEW t \in Tasks, Going(t)
    PROVE  Safe(t)
<1>1. KindFits(t) /\ (task[t].pc # "mkdirs" => IsRelative(task[t].call.to))
  BY GoingFacts
<1> QED BY <1>1 DEF Going, Safe, Elsewhere, KeepsPromise, OnItsWay, CopyOnItsWay,
              Looking, Copying, KindFits, Kind, Running, Movers

(* The keys, kind and history of a call do not change as it moves on.      *)
LEMMA SameCall ==
    ASSUME task \in [Tasks -> TaskType], NEW t \in Tasks, Moves(t)
    PROVE  /\ Source(t)' = Source(t) /\ Target(t)' = Target(t) /\ Kind(t)' = Kind(t)
           /\ Elsewhere(t)' = Elsewhere(t)
           /\ task'[t].call = task[t].call /\ task'[t].orig = task[t].orig
<1>1. task'[t].call = task[t].call /\ task'[t].orig = task[t].orig
  BY MoveRecord
<1>2. Source(t)' = Source(t) /\ Target(t)' = Target(t) /\ Kind(t)' = Kind(t)
  BY <1>1 DEF Source, Target, Kind
<1> QED BY <1>1, <1>2 DEF Elsewhere

(* A step that frees files nobody refers to changes nothing on a path.     *)
LEMMA FreeingKeeps ==
    ASSUME content \in [Inodes -> Data], NEW p \in Paths, tree'[p] = tree[p],
           content' = content \/ \E ts : content' = Kept(tree', ts)
    PROVE  Object(p)' = Object(p)
  BY DEF Object, Kept, Used

(* A call that ends.                                                       *)
LEMMA EndKeeps ==
    ASSUME task \in [Tasks -> TaskType], NEW t \in Tasks, NEW res, Finish(t, res),
           Promised(t)'
    PROVE  KeepsPromise(t)'
<1>1. task'[t].pc = "done"
  BY Finished
<1> QED BY <1>1 DEF KeepsPromise, OnItsWay, CopyOnItsWay, Looking, Copying

LEMMA FailedKeeps ==
    ASSUME NEW t \in Tasks, Going(t), Moves(t), NEW res, Finish(t, res),
           res \notin {"ok", "false"},
           res = "notfound" => task[t].orig = None,
           Object(Source(t))' = Object(Source(t)),
           IsRelative(task[t].call.to) => Object(Target(t))' = Object(Target(t))
    PROVE  KeepsPromise(t)'
<1>1. /\ task \in [Tasks -> TaskType] /\ task'[t].res = res
      /\ IsRelative(task[t].call.key)
  BY GoingFacts, Finished
<1>2. Safe(t)'
  BY <1>1, SafeNow, SameCall DEF Safe
<1>3. Promised(t)'
  BY <1>1, <1>2, SameCall DEF Promised
<1> QED BY <1>1, <1>3, EndKeeps

LEMMA MakeParentsKeeps ==
    ASSUME NEW t \in Tasks, Going(t), MakeParents(t) \/ MakeParentsFails(t)
    PROVE  KeepsPromise(t)'
<1>1. /\ task \in [Tasks -> TaskType] /\ Moves(t) /\ task[t].pc = "mkdirs"
      /\ KindFits(t) /\ Source(t) \in Paths
      /\ IsRelative(task[t].call.to) => Target(t) \in Paths
  BY GoingFacts DEF Moves, Advance, MakeParents, MakeParentsFails, At
<1>2. ASSUME NEW p \in Paths PROVE Object(p)' = Object(p)
  <2>1. content' = content
    BY DEF MakeParents, MakeParentsFails
  <2>2. tree' = tree \/ \E q \in UpTo(Target(t)) : tree' = WithDirs(Ancestors(q))
    BY DEF MakeParents, MakeParentsFails, UpTo
  <2>3. tree'[p] = tree[p] \/ (tree[p] = Absent /\ tree'[p] = Dir)
    BY <2>2 DEF WithDirs
  <2> QED BY <2>1, <2>3, Distinct DEF Object
<1>a. /\ Object(Source(t))' = Object(Source(t))
      /\ IsRelative(task[t].call.to) => Object(Target(t))' = Object(Target(t))
  BY <1>1, <1>2, SameCall DEF Object
<1>3. CASE MakeParentsFails(t)
  <2>1. Finish(t, "eio")
    BY <1>3 DEF MakeParentsFails
  <2> QED BY <1>1, <1>a, <2>1, FailedKeeps
<1>4. CASE MakeParents(t) /\ Resolve(task[t].call.to) # "ok"
  <2>1. Finish(t, Resolve(task[t].call.to))
    BY <1>4 DEF MakeParents
  <2> QED BY <1>1, <1>a, <1>4, <2>1, FailedKeeps, ResolveAnswers
<1>5. CASE MakeParents(t) /\ Resolve(task[t].call.to) = "ok"
  <2>1. Goto(t, IF Kind(t) = "put" THEN "create" ELSE "open")
    BY <1>5 DEF MakeParents
  <2>2. /\ task'[t].pc = IF Kind(t) = "put" THEN "create" ELSE "open"
        /\ task'[t].buf = task[t].buf
    BY <1>1, <2>1, Went
  <2>3. task[t].buf = <<>> /\ Object(Source(t)) = task[t].orig
    BY <1>1 DEF Going, KeepsPromise, OnItsWay, Looking
  <2>4. ~Copying(t)' /\ task'[t].pc \in {"open", "create"}
    BY <2>2 DEF Copying
  <2>5. Object(Source(t))' = task'[t].orig
    BY <1>1, <1>a, <2>3, SameCall
  <2>6. task'[t].pc = "create" => Kind(t)' = "put"
    BY <1>1, <2>2, SameCall
  <2>7. OnItsWay(t)'
    BY <2>2, <2>3, <2>4, <2>5, <2>6 DEF OnItsWay, Movers
  <2>8. CopyOnItsWay(t)'
    BY <2>4 DEF CopyOnItsWay
  <2> QED BY <2>4, <2>7, <2>8 DEF KeepsPromise
<1> QED BY <1>3, <1>4, <1>5

LEMMA OpenSourceKeeps ==
    ASSUME NEW t \in Tasks, Going(t), OpenSource(t)
    PROVE  KeepsPromise(t)'
<1> DEFINE s == Source(t)
           answer == OpenForRead(s)
<1>1. /\ task \in [Tasks -> TaskType] /\ Moves(t) /\ task[t].pc = "open"
      /\ KindFits(t) /\ s \in Paths /\ Target(t) \in Paths
      /\ tree' = tree /\ content' = content /\ tree \in [Paths -> Nodes]
  BY GoingFacts DEF Moves, Advance, OpenSource, At
<1>2. Object(s) = task[t].orig /\ task[t].buf = <<>>
  BY <1>1 DEF Going, KeepsPromise, OnItsWay, Looking
<1>3. CASE answer # "ok"
  <2>1. Finish(t, answer)
    BY <1>3 DEF OpenSource
  <2>2. answer = "notfound" => Object(s) = None
    BY Distinct DEF OpenForRead, Object
  <2>3. Object(Source(t))' = Object(Source(t)) /\ Object(Target(t))' = Object(Target(t))
    BY <1>1, SameCall DEF Object
  <2>4. answer \in {"invalid", "io", "notfound"}
    BY <1>3, OpenAnswers
  <2> HIDE DEF s, answer
  <2> QED BY <1>1, <1>2, <2>1, <2>2, <2>3, <2>4, FailedKeeps
<1>4. CASE answer = "ok"
  <2>1. /\ task'[t].pc = IF Kind(t) = "get" THEN "read" ELSE "create"
        /\ task'[t].rd = tree[s] /\ task'[t].buf = <<>>
    BY <1>1, <1>2, <1>4 DEF OpenSource, TaskType
  <2>2. tree[s] \in Inodes
    BY <1>1, <1>4 DEF OpenForRead, Nodes
  <2>3. task[t].orig = content[tree[s]] /\ Len(task[t].orig) \in Nat
    <3>1. task[t].orig = content[tree[s]]
      BY <1>2, <2>2 DEF Object
    <3>2. content[tree[s]] \in Data
      BY <2>2, GoingFacts
    <3> QED BY <3>1, <3>2, LenProperties DEF Data
  <2>4. /\ Object(Source(t))' = task'[t].orig /\ task'[t].rd = tree'[Source(t)']
        /\ Kind(t)' = Kind(t)
    BY <1>1, <1>2, <2>1, SameCall DEF Object
  <2>5. Len(<<>>) = 0 /\ Len(<<>>) <= Len(task'[t].orig)
    BY <1>1, <2>3, SameCall
  <2>6. Begins(task'[t].buf, task'[t].orig, Len(task'[t].buf))
    BY <2>1, <2>5 DEF Begins
  <2>7. task'[t].pc \in {"read", "create"} /\ ~Copying(t)'
    BY <2>1 DEF Copying
  <2>8. OnItsWay(t)'
    BY <2>4, <2>6, <2>7 DEF OnItsWay
  <2>9. CopyOnItsWay(t)'
    BY <2>7 DEF CopyOnItsWay
  <2> QED BY <2>7, <2>8, <2>9 DEF KeepsPromise
<1> QED BY <1>3, <1>4

(* A move opens its target: its source is another file, still whole.       *)
LEMMA OpenedKeeps ==
    ASSUME NEW t \in Tasks, Going(t), Moves(t), task[t].pc = "create",
           NEW i \in Inodes, tree'[Target(t)] = i, content'[i] = <<>>,
           tree'[Source(t)] = tree[Source(t)] \/ Source(t) = Target(t),
           \A j \in Inodes \ {i} : content'[j] = content[j],
           Source(t) # Target(t) /\ Kind(t) \in Movers => tree[Source(t)] # i,
           task'[t].wr = i, task'[t].rd = task[t].rd,
           task'[t].pos = task[t].pos,
           task'[t].pc = IF Kind(t) = "put" THEN "write" ELSE "copyread"
    PROVE  KeepsPromise(t)'
<1>1. /\ task \in [Tasks -> TaskType] /\ task[t].pos = 0
      /\ KindFits(t) /\ Source(t) \in Paths /\ Target(t) \in Paths
      /\ task[t].call \in CallType
      /\ Kind(t) \in Movers => task[t].rd \in Inodes
  BY GoingFacts, LocalStorageAssumption
     DEF Going, Typed, TasksTyped, CallOK, Kind, Movers
<1>2. /\ Object(Source(t)) = task[t].orig
      /\ Kind(t) \in Movers => task[t].rd = tree[Source(t)]
  BY DEF Going, KeepsPromise, OnItsWay, Looking
<1>3. Len(task[t].call.data) \in Nat /\ Len(<<>>) = 0
  BY <1>1, LenProperties DEF CallType
<1>4. /\ Kind(t)' = Kind(t) /\ Source(t)' = Source(t) /\ Target(t)' = Target(t)
      /\ task'[t].call = task[t].call /\ task'[t].orig = task[t].orig
      /\ Elsewhere(t)' = Elsewhere(t)
  BY <1>1, SameCall
<1>5. Begins(content'[task'[t].wr], task'[t].call.data, task'[t].pos)
  BY <1>1, <1>3, <1>4 DEF Begins
<1>6. task'[t].pc \in {"write", "copyread"} /\ ~Looking(t)'
  BY DEF Looking
<1>7. OnItsWay(t)'
  BY <1>4, <1>5, <1>6 DEF OnItsWay
<1>8. ASSUME Elsewhere(t) PROVE CopyOnItsWay(t)'
  <2>1. /\ task[t].rd = tree[Source(t)] /\ task[t].rd \in Inodes \ {i}
        /\ tree'[Source(t)] = tree[Source(t)]
    BY <1>1, <1>2, <1>8 DEF Elsewhere
  <2>2. content'[task[t].rd] = content[task[t].rd]
    BY <2>1
  <2>3. /\ task[t].orig = content[task[t].rd]
        /\ Object(Source(t))' = task[t].orig
    BY <1>2, <1>4, <2>1, <2>2 DEF Object
  <2>4. Len(task[t].orig) \in Nat
    <3>1. content[task[t].rd] \in Data
      BY <2>1, GoingFacts
    <3> QED BY <2>3, <3>1, LenProperties DEF Data
  <2>5. Begins(content'[task'[t].wr], task'[t].orig, task'[t].pos)
    BY <1>1, <1>3, <1>4, <2>4 DEF Begins
  <2>6. task'[t].rd = tree'[Source(t)'] /\ task'[t].rd \in Inodes
    BY <1>4, <2>1
  <2> QED BY <1>4, <1>6, <2>3, <2>5, <2>6 DEF CopyOnItsWay
<1> QED BY <1>4, <1>6, <1>7, <1>8 DEF KeepsPromise

LEMMA TruncateKeeps ==
    ASSUME NEW t \in Tasks, Going(t), Truncate(t)
    PROVE  KeepsPromise(t)'
<1> DEFINE i == tree[Target(t)]
<1>1. /\ task \in [Tasks -> TaskType] /\ Moves(t) /\ task[t].pc = "create"
      /\ Source(t) \in Paths /\ Target(t) \in Paths
      /\ content \in [Inodes -> Data] /\ i \in Inodes
      /\ tree' = tree /\ content' = [content EXCEPT ![i] = <<>>]
  BY GoingFacts DEF Moves, Advance, Truncate, At
<1>2. Source(t) # Target(t) => tree[Source(t)] # i
  BY <1>1 DEF Going, TreeOK, NoAlias
<1>3. CASE i \in Shared
  <2>1. Finish(t, "invalid") /\ task'[t].res = "invalid" /\ IsRelative(task[t].call.key)
    BY <1>1, <1>3, Finished, GoingFacts DEF Truncate
  <2>2. Source(t) # Target(t) => Object(Source(t))' = Object(Source(t))
    BY <1>1, <1>2, SameCall DEF Object
  <2>3. Object(Source(t)) = task[t].orig
    BY <1>1 DEF Going, KeepsPromise, OnItsWay, Looking
  <2>4. Safe(t)'
    BY <1>1, <2>2, <2>3, SameCall DEF Safe, Elsewhere
  <2>5. Promised(t)'
    BY <1>1, <2>1, <2>4, SameCall DEF Promised
  <2> QED BY <1>1, <2>1, <2>5, EndKeeps
<1>4. CASE i \notin Shared
  <2>1. /\ task'[t].wr = i /\ task'[t].rd = task[t].rd /\ task'[t].pos = task[t].pos
        /\ task'[t].pc = IF Kind(t) = "put" THEN "write" ELSE "copyread"
    BY <1>1, <1>4 DEF Truncate, TaskType
  <2>2. content'[i] = <<>> /\ \A j \in Inodes \ {i} : content'[j] = content[j]
    BY <1>1
  <2>3. tree'[Target(t)] = i /\ tree'[Source(t)] = tree[Source(t)]
    BY <1>1
  <2> HIDE DEF i
  <2> QED BY <1>1, <1>2, <2>1, <2>2, <2>3, OpenedKeeps
<1> QED BY <1>3, <1>4

LEMMA CreateKeeps ==
    ASSUME NEW t \in Tasks, Going(t), Create(t)
    PROVE  KeepsPromise(t)'
<1> DEFINE i == CHOOSE j \in Free : TRUE
<1>1. /\ task \in [Tasks -> TaskType] /\ Moves(t) /\ task[t].pc = "create"
      /\ Source(t) \in Paths /\ Target(t) \in Paths
      /\ content \in [Inodes -> Data] /\ tree \in [Paths -> Nodes]
  BY GoingFacts DEF Moves, Advance, Create, At
<1>2. i \in Free
  BY DEF Create
<1>3. /\ tree' = [tree EXCEPT ![Target(t)] = i]
      /\ content' = [content EXCEPT ![i] = <<>>]
      /\ task' = [task EXCEPT ![t].wr = i,
             ![t].pc = IF Kind(t) = "put" THEN "write" ELSE "copyread"]
  BY DEF Create
<1> HIDE DEF i
<1>4. i \in Inodes /\ tree[Source(t)] # i
  BY <1>1, <1>2 DEF Free, Used
<1>5. /\ task'[t].wr = i /\ task'[t].rd = task[t].rd /\ task'[t].pos = task[t].pos
      /\ task'[t].pc = IF Kind(t) = "put" THEN "write" ELSE "copyread"
  BY <1>1, <1>3 DEF TaskType
<1>6. content'[i] = <<>> /\ \A j \in Inodes \ {i} : content'[j] = content[j]
  BY <1>1, <1>3, <1>4
<1>7. /\ tree'[Target(t)] = i
      /\ tree'[Source(t)] = tree[Source(t)] \/ Source(t) = Target(t)
  BY <1>1, <1>3
<1> QED BY <1>1, <1>4, <1>5, <1>6, <1>7, OpenedKeeps

(* A call that only frees what it had open.                                *)
LEMMA FreeingEnds ==
    ASSUME NEW t \in Tasks, Going(t), Moves(t), tree' = tree,
           content' = content \/ content' = Kept(tree, task')
    PROVE  /\ Object(Source(t))' = Object(Source(t))
           /\ IsRelative(task[t].call.to) => Object(Target(t))' = Object(Target(t))
<1>1. \A p \in Paths : tree[p] \in Inodes => content'[tree[p]] = content[tree[p]]
  BY DEF Kept, Used
<1>2. /\ Source(t)' = Source(t) /\ Target(t)' = Target(t)
      /\ Source(t) \in Paths /\ (IsRelative(task[t].call.to) => Target(t) \in Paths)
  BY SameCall, GoingFacts
<1> QED BY <1>1, <1>2 DEF Object

LEMMA FailKeeps ==
    ASSUME NEW t \in Tasks, Going(t), CreateFails(t) \/ Fail(t)
    PROVE  KeepsPromise(t)'
<1>1. Moves(t) /\ tree' = tree /\ content' = Kept(tree, task')
  BY DEF Moves, Advance, CreateFails, Fail
<1>2. CASE Fail(t)
  BY <1>1, <1>2, FreeingEnds, FailedKeeps DEF Fail
<1>3. CASE CreateFails(t)
  <2>1. task[t].pc = "create" /\ Finish(t, OpenForWrite(Target(t)))
    BY <1>3 DEF CreateFails, At
  <2>2. OpenForWrite(Target(t)) # "notfound"
    BY <2>1 DEF OpenForWrite, Reachable, Going, ParentsThere, Prepared
  <2>3. OpenForWrite(Target(t)) \in {"invalid", "io"}
    BY <1>3, <2>2, OpenAnswers DEF CreateFails
  <2> QED BY <1>1, <2>1, <2>3, FreeingEnds, FailedKeeps
<1> QED BY <1>2, <1>3

(* A sequence that begins with all of another one is that one.             *)
LEMMA BeginsWhole ==
    ASSUME NEW S, NEW data \in Seq(S), NEW R, NEW whole \in Seq(R),
           Begins(data, whole, Len(whole))
    PROVE  data = whole
<1>1. Len(data) = Len(whole) /\ \A i \in 1 .. Len(whole) : data[i] = whole[i]
  BY DEF Begins
<1> QED BY <1>1

(* One more chunk at the end of what has been written.                     *)
LEMMA BeginsOneMore ==
    ASSUME NEW data \in Data, NEW whole, NEW n \in Nat, Len(whole) \in Nat,
           Begins(data, whole, n), n < Len(whole),
           whole[n + 1] \in Chunks \cup {Hole}
    PROVE  Begins(WriteAt(data, n, whole[n + 1]), whole, n + 1)
<1> DEFINE new == WriteAt(data, n, whole[n + 1])
<1>1. Len(data) = n /\ \A i \in 1 .. n : data[i] = whole[i]
  BY DEF Begins
<1>2. Len(new) = n + 1
  BY <1>1, WriteAtTyped
<1>3. new = [m \in 1 .. n + 1 |-> IF m = n + 1 THEN whole[n + 1]
                                  ELSE IF m <= n THEN data[m] ELSE Hole]
  BY <1>1 DEF WriteAt
<1> HIDE DEF new
<1>4. \A i \in 1 .. n + 1 : new[i] = whole[i]
  <2> SUFFICES ASSUME NEW i \in 1 .. n + 1 PROVE new[i] = whole[i]
    OBVIOUS
  <2>1. CASE i = n + 1
    BY <1>3, <2>1
  <2>2. CASE i # n + 1
    <3>1. i \in 1 .. n /\ i <= n
      BY <2>2
    <3> QED BY <1>1, <1>3, <2>2, <3>1
  <2> QED BY <2>1, <2>2
<1>5. n + 1 <= Len(whole)
  OBVIOUS
<1> QED BY <1>2, <1>4, <1>5 DEF Begins, new

LEMMA WriteKeeps ==
    ASSUME NEW t \in Tasks, Going(t), Write(t)
    PROVE  KeepsPromise(t)'
<1> DEFINE k == task[t]
           w == k.wr
           data == k.call.data
           pos == k.pos
<1>1. /\ task \in [Tasks -> TaskType] /\ Moves(t) /\ k.pc = "write" /\ k.call \in Calls
      /\ content \in [Inodes -> Data] /\ tree' = tree /\ pos \in Nat
      /\ IsRelative(k.call.key) /\ IsRelative(k.call.to) /\ Kind(t) = "put"
  BY GoingFacts DEF Moves, Advance, Write, At, KindFits, Kind
<1>2. data \in Seq(Chunks) /\ Len(data) \in Nat
  BY <1>1, LocalStorageAssumption, LenProperties DEF CallType
<1>3. w \in Inodes /\ w = tree[Target(t)] /\ Begins(content[w], data, pos)
  BY <1>1 DEF Going, KeepsPromise, OnItsWay
<1>4. /\ Kind(t)' = "put" /\ Target(t)' = Target(t) /\ ~Elsewhere(t)'
      /\ task'[t].call = k.call /\ task'[t].orig = k.orig
  BY <1>1, SameCall DEF Elsewhere, Movers
<1>5. CASE pos < Len(data)
  <2>1. /\ content' = [content EXCEPT ![w] = WriteAt(content[w], pos, data[pos + 1])]
        /\ task' = [task EXCEPT ![t].pos = pos + 1]
    BY <1>1, <1>5 DEF Write
  <2>2. /\ task'[t].pc = "write" /\ task'[t].wr = w /\ task'[t].pos = pos + 1
        /\ content'[w] = WriteAt(content[w], pos, data[pos + 1])
    BY <1>1, <1>3, <2>1 DEF TaskType
  <2>3. data[pos + 1] \in Chunks \cup {Hole} /\ content[w] \in Data
    <3> HIDE DEF data, pos, w, k
    <3> QED BY <1>1, <1>2, <1>3, <1>5, ElementOfSeq
  <2>4. Begins(content'[w], data, pos + 1)
    <3> HIDE DEF data, pos, w, k
    <3> QED BY <1>1, <1>2, <1>3, <1>5, <2>2, <2>3, BeginsOneMore
  <2>5. OnItsWay(t)'
    BY <1>1, <1>3, <1>4, <2>2, <2>4 DEF OnItsWay, Looking, Copying
  <2> QED BY <1>4, <2>2, <2>5 DEF KeepsPromise
<1>6. CASE ~(pos < Len(data))
  <2>1. Finish(t, "ok") /\ pos = Len(data) /\ content' = Kept(tree, task')
    BY <1>6 DEF Write
  <2>2. content[w] = data
    <3> HIDE DEF data, pos, w, k
    <3> QED BY <1>1, <1>2, <1>3, <2>1, BeginsWhole DEF Data
  <2>3. Object(Target(t))' = data
    BY <1>1, <1>3, <2>1, <2>2, FreeingEnds DEF Object
  <2>4. task'[t].res = "ok"
    BY <1>1, <2>1, Finished
  <2>5. Promised(t)'
    BY <1>1, <1>4, <2>3, <2>4 DEF Promised, Safe, Movers
  <2> QED BY <1>1, <2>1, <2>5, EndKeeps
<1> QED BY <1>5, <1>6

LEMMA ReadKeeps ==
    ASSUME NEW t \in Tasks, Going(t), Read(t)
    PROVE  KeepsPromise(t)'
<1> DEFINE k == task[t]
           orig == k.orig
           buf == k.buf
<1>1. /\ task \in [Tasks -> TaskType] /\ Moves(t) /\ k.pc = "read" /\ k.call \in Calls
      /\ content \in [Inodes -> Data] /\ tree' = tree /\ k.rd \in Inodes
      /\ IsRelative(k.call.key) /\ IsRelative(k.call.to) /\ Kind(t) = "get"
      /\ buf \in Data
  BY GoingFacts
     DEF Moves, Advance, Read, At, KindFits, Kind, Going, Typed, TasksTyped, CallOK
<1>2. k.rd = tree[Source(t)] /\ Begins(buf, orig, Len(buf)) /\ Object(Source(t)) = orig
  BY <1>1 DEF Going, KeepsPromise, OnItsWay, Looking
<1>3. content[k.rd] = orig /\ orig \in Data /\ Len(orig) \in Nat /\ Len(buf) \in Nat
  BY <1>1, <1>2, LenProperties DEF Object, Data
<1>4. /\ Kind(t)' = "get" /\ Source(t)' = Source(t) /\ ~Elsewhere(t)'
      /\ task'[t].call = k.call /\ task'[t].orig = orig
  BY <1>1, SameCall DEF Elsewhere, Movers
<1>5. CASE Len(buf) < Len(orig)
  <2>1. /\ content' = content
        /\ task' = [task EXCEPT ![t].buf = Append(buf, orig[Len(buf) + 1])]
    BY <1>3, <1>5 DEF Read
  <2>2. /\ task'[t].pc = "read" /\ task'[t].rd = k.rd
        /\ task'[t].buf = Append(buf, orig[Len(buf) + 1])
    BY <1>1, <2>1 DEF TaskType
  <2>3. Begins(Append(buf, orig[Len(buf) + 1]), orig, Len(buf) + 1)
    <3> HIDE DEF buf, orig, k
    <3>1. orig[Len(buf) + 1] \in Chunks \cup {Hole}
      BY <1>3, <1>5, ElementOfSeq DEF Data
    <3>2. Len(buf) + 1 <= Len(orig)
      BY <1>3, <1>5
    <3>3. Len(Append(buf, orig[Len(buf) + 1])) = Len(buf) + 1
      BY <1>1, <3>1, AppendProperties DEF Data
    <3>4. ASSUME NEW i \in 1 .. Len(buf) + 1
          PROVE  Append(buf, orig[Len(buf) + 1])[i] = orig[i]
      <4>1. CASE i = Len(buf) + 1
        BY <1>1, <3>1, <4>1, AppendProperties DEF Data
      <4>2. CASE i # Len(buf) + 1
        <5>1. i \in 1 .. Len(buf)
          BY <1>3, <4>2
        <5>2. Append(buf, orig[Len(buf) + 1])[i] = buf[i]
          BY <1>1, <3>1, <5>1, AppendProperties DEF Data
        <5> QED BY <1>2, <5>1, <5>2 DEF Begins
      <4> QED BY <4>1, <4>2
    <3> QED BY <3>2, <3>3, <3>4 DEF Begins
  <2>4. Len(task'[t].buf) = Len(buf) + 1
    BY <2>2, <2>3 DEF Begins
  <2>5. Object(Source(t))' = orig
    BY <1>2, <1>4, <1>1, <2>1 DEF Object
  <2>6. OnItsWay(t)'
    BY <1>1, <1>2, <1>4, <2>2, <2>3, <2>4, <2>5 DEF OnItsWay, Looking, Copying
  <2> QED BY <1>4, <2>2, <2>6 DEF KeepsPromise
<1>6. CASE ~(Len(buf) < Len(orig))
  <2>1. Finish(t, "ok") /\ content' = Kept(tree, task')
    BY <1>3, <1>6 DEF Read
  <2>2. buf = orig
    <3> HIDE DEF buf, orig, k
    <3>1. Len(buf) = Len(orig)
      BY <1>2, <1>3, <1>6 DEF Begins
    <3> QED BY <1>1, <1>2, <1>3, <3>1, BeginsWhole DEF Data
  <2>3. task'[t].res = "ok" /\ task'[t].buf = buf
    BY <1>1, <2>1, Finished
  <2>4. orig # None
    BY <1>3, LocalStorageAssumption
  <2>5. Promised(t)'
    BY <1>1, <1>4, <2>2, <2>3, <2>4 DEF Promised, Safe, Movers
  <2> QED BY <1>1, <2>1, <2>5, EndKeeps
<1> QED BY <1>5, <1>6

LEMMA CopyReadKeeps ==
    ASSUME NEW t \in Tasks, Going(t), CopyRead(t)
    PROVE  KeepsPromise(t)'
<1> DEFINE k == task[t]
           data == content[k.rd]
           pos == k.pos
<1>1. /\ task \in [Tasks -> TaskType] /\ Moves(t) /\ k.pc = "copyread" /\ pos \in Nat
      /\ content \in [Inodes -> Data] /\ tree' = tree /\ content' = content
      /\ k.rd \in Inodes /\ Kind(t) \in Movers
  BY GoingFacts DEF Moves, Advance, CopyRead, At, KindFits, Kind, Going, Typed,
                    TasksTyped, CallOK
<1>2. k.wr \in Inodes /\ k.wr = tree[Target(t)]
  BY <1>1 DEF Going, KeepsPromise, OnItsWay, Copying
<1>3. /\ Kind(t)' = Kind(t) /\ Source(t)' = Source(t) /\ Target(t)' = Target(t)
      /\ Elsewhere(t)' = Elsewhere(t)
      /\ task'[t].call = k.call /\ task'[t].orig = k.orig
  BY <1>1, SameCall
<1>4. data \in Data /\ Len(data) \in Nat
  BY <1>1, LenProperties DEF Data
<1>5. /\ task'[t].wr = k.wr /\ task'[t].rd = k.rd /\ task'[t].pos = pos
      /\ \/ /\ pos < Len(data) /\ task'[t].pc = "copywrite"
            /\ task'[t].buf = <<data[pos + 1]>>
         \/ pos >= Len(data) /\ task'[t].pc = "stat"
  BY <1>1, Went DEF CopyRead, TaskType
<1>6. task'[t].pc \in {"copywrite", "stat"} /\ ~Looking(t)' /\ Copying(t)'
  BY <1>1, <1>3, <1>5 DEF Looking, Copying
<1>7. OnItsWay(t)'
  BY <1>1, <1>2, <1>3, <1>5, <1>6 DEF OnItsWay
<1>8. ASSUME Elsewhere(t) PROVE CopyOnItsWay(t)'
  <2>1. /\ k.rd = tree[Source(t)] /\ Object(Source(t)) = k.orig
        /\ Begins(content[k.wr], k.orig, pos)
    BY <1>1, <1>8 DEF Going, KeepsPromise, CopyOnItsWay, Copying
  <2>2. k.orig = data
    BY <1>1, <2>1 DEF Object
  <2>3. /\ Object(Source(t))' = k.orig /\ Begins(content'[task'[t].wr], k.orig, task'[t].pos)
        /\ Object(Target(t))' = content[k.wr]
    BY <1>1, <1>2, <1>3, <1>5, <2>1 DEF Object
  <2>4. task'[t].pc = "stat" => content[k.wr] = k.orig
    <3> SUFFICES ASSUME task'[t].pc = "stat" PROVE content[k.wr] = k.orig
      OBVIOUS
    <3>1. pos = Len(data)
      <4>1. pos >= Len(data)
        BY <1>5
      <4>2. pos <= Len(data)
        BY <2>1, <2>2 DEF Begins
      <4> HIDE DEF pos, data
      <4> QED BY <1>1, <1>4, <4>1, <4>2
    <3>2. content[k.wr] \in Data
      BY <1>1, <1>2
    <3> HIDE DEF pos, data, k
    <3> QED BY <1>4, <2>1, <2>2, <3>1, <3>2, BeginsWhole DEF Data
  <2>5. k.orig # None
    BY <1>4, <2>2, LocalStorageAssumption
  <2> HIDE DEF data
  <2>6. /\ task'[t].rd \in Inodes /\ task'[t].rd = tree'[Source(t)']
        /\ task'[t].pc = "copywrite" => /\ task'[t].pos < Len(k.orig)
                                        /\ task'[t].buf = <<k.orig[task'[t].pos + 1]>>
    BY <1>1, <1>3, <1>5, <2>1, <2>2
  <2> QED BY <1>3, <1>6, <2>3, <2>4, <2>5, <2>6 DEF CopyOnItsWay
<1> QED BY <1>3, <1>6, <1>7, <1>8 DEF KeepsPromise

LEMMA CopyWriteKeeps ==
    ASSUME NEW t \in Tasks, Going(t), CopyWrite(t)
    PROVE  KeepsPromise(t)'
<1> DEFINE k == task[t]
           w == k.wr
           pos == k.pos
           orig == k.orig
<1>1. /\ task \in [Tasks -> TaskType] /\ Moves(t) /\ k.pc = "copywrite" /\ pos \in Nat
      /\ content \in [Inodes -> Data] /\ tree' = tree /\ tree \in [Paths -> Nodes]
      /\ Source(t) \in Paths /\ Target(t) \in Paths
      /\ k.rd \in Inodes /\ Kind(t) \in Movers
  BY GoingFacts DEF Moves, Advance, CopyWrite, At, KindFits, Kind, Going, Typed,
                    TasksTyped, CallOK
<1>2. w \in Inodes /\ w = tree[Target(t)]
  BY <1>1 DEF Going, KeepsPromise, OnItsWay, Copying
<1>3. /\ Kind(t)' = Kind(t) /\ Source(t)' = Source(t) /\ Target(t)' = Target(t)
      /\ Elsewhere(t)' = Elsewhere(t)
      /\ task'[t].call = k.call /\ task'[t].orig = orig
  BY <1>1, SameCall
<1>4. /\ task'[t].wr = w /\ task'[t].rd = k.rd /\ task'[t].pos = pos + 1
      /\ task'[t].pc = "copyread"
      /\ content' = [content EXCEPT ![w] = WriteAt(content[w], pos, k.buf[1])]
  BY <1>1 DEF CopyWrite, TaskType
<1>5. ~Looking(t)' /\ Copying(t)'
  BY <1>4 DEF Looking, Copying
<1>6. OnItsWay(t)'
  BY <1>1, <1>2, <1>3, <1>4, <1>5 DEF OnItsWay
<1>7. ASSUME Elsewhere(t) PROVE CopyOnItsWay(t)'
  <2>1. /\ k.rd = tree[Source(t)] /\ Object(Source(t)) = orig
        /\ Begins(content[w], orig, pos) /\ pos < Len(orig)
        /\ k.buf = <<orig[pos + 1]>>
    BY <1>1, <1>7 DEF Going, KeepsPromise, CopyOnItsWay, Copying
  <2>2. k.rd # w
    BY <1>1, <1>2, <1>7, <2>1 DEF Elsewhere, Going, TreeOK, NoAlias
  <2>3. content'[k.rd] = content[k.rd] /\ orig = content[k.rd]
    BY <1>1, <1>4, <2>1, <2>2 DEF Object
  <2>4. Object(Source(t))' = orig
    BY <1>1, <1>3, <2>1, <2>3 DEF Object
  <2>5. content[w] \in Data /\ orig \in Data
    BY <1>1, <1>2, <2>3
  <2>6. content'[w] = WriteAt(content[w], pos, orig[pos + 1])
    BY <1>1, <1>2, <1>4, <2>1
  <2>7. Begins(content'[w], orig, pos + 1)
    <3> HIDE DEF w, pos, orig, k
    <3>1. Len(orig) \in Nat
      BY <2>5, LenProperties DEF Data
    <3>2. orig[pos + 1] \in Chunks \cup {Hole}
      BY <1>1, <2>1, <2>5, <3>1, ElementOfSeq DEF Data
    <3> QED BY <1>1, <2>1, <2>5, <2>6, <3>1, <3>2, BeginsOneMore
  <2> QED BY <1>1, <1>3, <1>4, <1>5, <2>1, <2>4, <2>7 DEF CopyOnItsWay
<1> QED BY <1>3, <1>4, <1>6, <1>7 DEF KeepsPromise

LEMMA StatKeeps ==
    ASSUME NEW t \in Tasks, Going(t), Stat(t)
    PROVE  KeepsPromise(t)'
<1> DEFINE k == task[t]
           orig == k.orig
           found == tree[Target(t)] # Absent
           checked == Resolve(k.call.to)
<1>1. /\ task \in [Tasks -> TaskType] /\ Moves(t) /\ k.pc = "stat" /\ k.call \in Calls
      /\ tree' = tree /\ (content' = content \/ content' = Kept(tree, task'))
      /\ IsRelative(k.call.key) /\ IsRelative(k.call.to)
      /\ Kind(t) \in Movers \cup {"head", "exists"}
  BY GoingFacts DEF Moves, Advance, Stat, At, KindFits, Kind
<1>2. /\ Kind(t)' = Kind(t) /\ Source(t)' = Source(t) /\ Target(t)' = Target(t)
      /\ Elsewhere(t)' = Elsewhere(t)
      /\ task'[t].call = k.call /\ task'[t].orig = orig
  BY <1>1, SameCall
<1>3. Object(Source(t))' = Object(Source(t)) /\ Object(Target(t))' = Object(Target(t))
  BY <1>1, FreeingEnds
<1>4. CASE checked # "ok"
  <2>1. Finish(t, checked) /\ checked \in {"invalid", "io"}
    BY <1>4, ResolveAnswers DEF Stat
  <2> HIDE DEF checked
  <2> QED BY <1>1, <1>3, <2>1, FailedKeeps
<1>5. CASE checked = "ok" /\ Kind(t) \notin Movers
  <2>1. Source(t) = Target(t) /\ Object(Source(t)) = orig
    BY <1>1, <1>5, CallKinds
       DEF Going, KeepsPromise, OnItsWay, Looking, Source, Target, Kind
  <2>2. ~found => orig = None
    BY <2>1, Distinct DEF Object
  <2>3. \E res : Finish(t, res) /\ (res \in {"notfound", "false"} => ~found)
    BY <1>1, <1>5 DEF Stat, Movers
  <2>4. PICK res : Finish(t, res) /\ (res \in {"notfound", "false"} => ~found)
    BY <2>3
  <2>5. task'[t].res = res
    BY <1>1, <2>4, Finished
  <2> HIDE DEF found
  <2>6. Promised(t)'
    BY <1>1, <1>2, <1>5, <2>2, <2>4, <2>5 DEF Promised, Safe, Elsewhere, Movers
  <2> QED BY <1>1, <2>4, <2>6, EndKeeps
<1>6. CASE checked = "ok" /\ Kind(t) \in Movers
  <2>1. found
    BY <1>1, <1>6, Distinct DEF Going, KeepsPromise, OnItsWay, Copying
  <2>2. Elsewhere(t) => /\ orig # None /\ Object(Source(t)) = orig
                        /\ Object(Target(t)) = orig
    BY <1>1, <1>6 DEF Going, KeepsPromise, CopyOnItsWay, Copying
  <2>3. CASE Kind(t) = "rename"
    <3>1. task'[t].pc = "unlink"
      BY <1>1, <1>6, <2>1, <2>3 DEF Stat, TaskType
    <3>2. OnItsWay(t)'
      BY <3>1 DEF OnItsWay, Looking, Copying
    <3>3. Elsewhere(t) => CopyOnItsWay(t)'
      BY <1>2, <1>3, <2>2, <3>1 DEF CopyOnItsWay, Copying
    <3> QED BY <1>2, <3>1, <3>2, <3>3 DEF KeepsPromise
  <2>4. CASE Kind(t) = "copy"
    <3>1. Finish(t, "ok")
      BY <1>1, <1>6, <2>1, <2>4 DEF Stat
    <3>2. task'[t].res = "ok"
      BY <1>1, <3>1, Finished
    <3>3. Promised(t)'
      BY <1>1, <1>2, <1>3, <2>2, <2>4, <3>2 DEF Promised, Safe, Elsewhere, Movers
    <3> QED BY <1>1, <3>1, <3>3, EndKeeps
  <2> QED BY <1>6, <2>3, <2>4 DEF Movers
<1> QED BY <1>4, <1>5, <1>6

LEMMA UnlinkKeeps ==
    ASSUME NEW t \in Tasks, Going(t), Unlink(t)
    PROVE  KeepsPromise(t)'
<1> DEFINE k == task[t]
           orig == k.orig
           p == Source(t)
           checked == Resolve(k.call.key)
<1>1. /\ task \in [Tasks -> TaskType] /\ Moves(t) /\ k.pc = "unlink" /\ k.call \in Calls
      /\ tree \in [Paths -> Nodes] /\ content \in [Inodes -> Data]
      /\ IsRelative(k.call.key) /\ IsRelative(k.call.to)
      /\ p \in Paths /\ Target(t) \in Paths
      /\ Kind(t) \in {"delete", "rename"}
  BY GoingFacts DEF Moves, Advance, Unlink, At, KindFits, Kind
<1>2. /\ Kind(t)' = Kind(t) /\ Source(t)' = Source(t) /\ Target(t)' = Target(t)
      /\ Elsewhere(t)' = Elsewhere(t)
      /\ task'[t].call = k.call /\ task'[t].orig = orig
  BY <1>1, SameCall
<1>3. Elsewhere(t) => orig # None /\ Object(Target(t)) = orig
  BY <1>1 DEF Going, KeepsPromise, CopyOnItsWay
<1>4. ASSUME tree' = tree, content' = content
      PROVE  Object(Source(t))' = Object(Source(t)) /\ Object(Target(t))' = Object(Target(t))
  BY <1>1, <1>4, FreeingEnds
<1>5. ASSUME Finish(t, "ok"), tree'[p] = Absent,
             Elsewhere(t) => Object(Target(t))' = Object(Target(t))
      PROVE  KeepsPromise(t)'
  <2>1. task'[t].res = "ok"
    BY <1>1, <1>5, Finished
  <2>2. Promised(t)'
    BY <1>1, <1>2, <1>3, <1>5, <2>1 DEF Promised, Safe, Elsewhere, Movers
  <2> QED BY <1>1, <1>5, <2>2, EndKeeps
<1>6. CASE checked # "ok"
  <2>1. Finish(t, checked) /\ checked \in {"invalid", "io"}
    BY <1>6, ResolveAnswers DEF Unlink
  <2>2. tree' = tree /\ content' = content
    BY <1>6 DEF Unlink
  <2> HIDE DEF checked
  <2> QED BY <1>1, <1>4, <2>1, <2>2, FailedKeeps
<1>7. CASE checked = "ok" /\ tree[p] \in Inodes
  <2>1. /\ tree' = [tree EXCEPT ![p] = Absent] /\ Finish(t, "ok")
        /\ content' = Kept(tree', task')
    BY <1>7, Distinct DEF Unlink
  <2>2. tree'[p] = Absent
    BY <1>1, <2>1
  <2>3. Elsewhere(t) => Object(Target(t))' = Object(Target(t))
    <3> SUFFICES ASSUME Elsewhere(t) PROVE Object(Target(t))' = Object(Target(t))
      OBVIOUS
    <3>1. tree'[Target(t)] = tree[Target(t)]
      BY <1>1, <2>1 DEF Elsewhere
    <3>2. tree[Target(t)] \in Inodes => content'[tree[Target(t)]] = content[tree[Target(t)]]
      BY <1>1, <2>1, <3>1 DEF Kept, Used
    <3> QED BY <1>2, <3>1, <3>2 DEF Object
  <2> QED BY <1>5, <2>1, <2>2, <2>3
<1>8. CASE checked = "ok" /\ tree[p] \notin Inodes
  <2>1. /\ tree' = tree /\ content' = content
        /\ \/ Finish(t, "ok") /\ tree[p] = Absent
           \/ Finish(t, "io")
    BY <1>8 DEF Unlink
  <2> QED BY <1>1, <1>4, <1>5, <2>1, FailedKeeps
<1> QED BY <1>6, <1>7, <1>8

LEMMA MovesKeep ==
    ASSUME NEW t \in Tasks, Going(t), Moves(t)
    PROVE  KeepsPromise(t)'
  BY MakeParentsKeeps, OpenSourceKeeps, TruncateKeeps, CreateKeeps, FailKeeps,
     WriteKeeps, ReadKeeps, CopyReadKeeps, CopyWriteKeeps, StatKeeps, UnlinkKeeps
     DEF Moves, Advance

LEMMA BeginKeeps ==
    ASSUME Typed, NEW t \in Tasks, NEW c \in Calls, Begin(t, c)
    PROVE  KeepsPromise(t)'
<1>1. /\ task'[t].call = c /\ c \in CallType /\ c.kind \in Kinds
      /\ task'[t].pc = IF Admit(c) = "ok" THEN FirstStep(c) ELSE "done"
      /\ task'[t].pc = "done" => task'[t].res = Admit(c)
      /\ task'[t].buf = <<>> /\ tree' = tree /\ content' = content
      /\ task'[t].orig = IF IsRelative(c.key) THEN Object(FullPath(c.key)) ELSE None
  <2>1. task \in [Tasks -> TaskType]
    BY DEF Typed, TasksTyped
  <2> QED BY <2>1, Begun, BeginRecord, CallKinds
<1>a. /\ Admit(c) = "ok" => IsRelative(c.key)
      /\ Admit(c) \in {"ok", "toolarge", "invalid", "io"}
  BY AdmitAnswers, ResolveAnswers
<1>2. FirstStep(c) \in {"mkdirs", "open", "stat", "unlink"}
  BY <1>1 DEF FirstStep, Kinds, Readers, Movers
<1>3. FirstStep(c) \in {"stat", "unlink"} => c.kind \notin Movers
  BY <1>1 DEF FirstStep, Kinds, Readers, Movers
<1>4. /\ Source(t)' = FullPath(c.key) /\ Kind(t)' = c.kind
      /\ IsRelative(c.key) => Object(Source(t))' = task'[t].orig
  BY <1>1 DEF Source, Kind, Object
<1>5. OnItsWay(t)'
  BY <1>1, <1>a, <1>2, <1>3, <1>4 DEF OnItsWay, Looking, Copying
<1>6. Elsewhere(t)' => CopyOnItsWay(t)'
  BY <1>1, <1>2, <1>3, <1>4 DEF CopyOnItsWay, Copying, Elsewhere
<1>7. ASSUME task'[t].pc = "done" PROVE Promised(t)'
  <2>1. task'[t].res \in {"toolarge", "invalid", "io"}
    BY <1>1, <1>a, <1>2, <1>7
  <2>2. task'[t].orig # None => IsRelative(c.key)
    BY <1>1
  <2> QED BY <1>1, <1>4, <2>1, <2>2 DEF Promised, Safe
<1> QED BY <1>5, <1>6, <1>7 DEF KeepsPromise

(* Another call moved.                                                     *)
LEMMA WatchKeeps ==
    ASSUME Typed, TreeOK, Owned, Lonely, [Next]_vars,
           NEW t \in Tasks, Watches(t), ~Moves(t),
           task[t].pc # "idle", task[t].alone, KeepsPromise(t)
    PROVE  KeepsPromise(t)'
<1> DEFINE k == task[t]
           s == Source(t)
           d == Target(t)
<1>1. /\ task'[t].pc = k.pc /\ task'[t].call = k.call /\ task'[t].rd = k.rd
      /\ task'[t].wr = k.wr /\ task'[t].pos = k.pos /\ task'[t].buf = k.buf
      /\ task'[t].res = k.res /\ task'[t].orig = k.orig
  BY DEF Watches, Untouched
<1>2. /\ Source(t)' = s /\ Target(t)' = d /\ Kind(t)' = Kind(t)
      /\ Elsewhere(t)' = Elsewhere(t)
      /\ Looking(t)' = Looking(t) /\ Copying(t)' = Copying(t)
  BY <1>1 DEF Source, Target, Kind, Elsewhere, Looking, Copying
<1>3. /\ IsRelative(k.call.key) => s \in Paths
      /\ IsRelative(k.call.to) => d \in Paths
      /\ s \in Uses(k.call) /\ d \in Uses(k.call)
  BY PathOfKey DEF Typed, TasksTyped, Source, Target, Uses
<1>a. ~Acts(t)
  <2>1. task \in [Tasks -> TaskType] /\ Idle.pc = "idle"
    BY IdleTyped DEF Typed, TasksTyped
  <2> QED BY <1>1, <2>1, LateEnds DEF Acts
<1>4. /\ IsRelative(k.call.key) =>
            /\ tree'[s] = tree[s] /\ Object(Source(t))' = Object(s)
      /\ IsRelative(k.call.to) =>
            /\ tree'[d] = tree[d] /\ Object(Target(t))' = Object(d)
            /\ tree[d] \in Inodes => content'[tree[d]] = content[tree[d]]
  BY <1>2, <1>3, <1>a, LeftAlone DEF Stays, Object
<1>5. /\ k.pc \in Running => IsRelative(k.call.key)
      /\ k.pc \in Running \ {"mkdirs"} => IsRelative(k.call.to)
  BY DEF Typed, TasksTyped, CallOK
<1>6. /\ Looking(t) => k.pc \in Running
      /\ Copying(t) => k.pc \in Running \ {"mkdirs"}
  BY DEF Looking, Copying, Running
<1>7. OnItsWay(t)'
  BY <1>1, <1>2, <1>4, <1>5, <1>6 DEF KeepsPromise, OnItsWay, Running
<1>8. Elsewhere(t) => CopyOnItsWay(t)'
  <2> SUFFICES ASSUME Elsewhere(t) PROVE CopyOnItsWay(t)'
    OBVIOUS
  <2>1. k.pc \in {"copyread", "copywrite"} => k.wr \in Inodes /\ k.wr = tree[d]
    BY DEF KeepsPromise, OnItsWay, Copying
  <2> QED BY <1>1, <1>2, <1>4, <1>5, <1>6, <2>1 DEF KeepsPromise, CopyOnItsWay, Running
<1>9. k.pc = "done" => Promised(t)'
  <2> SUFFICES ASSUME k.pc = "done" PROVE Promised(t)'
    OBVIOUS
  <2>1. Promised(t)
    BY DEF KeepsPromise
  <2>2. Safe(t)'
    BY <1>1, <1>2, <1>4, <2>1 DEF Promised, Safe
  <2> QED BY <1>1, <1>2, <1>4, <2>1, <2>2 DEF Promised
<1> QED BY <1>1, <1>2, <1>7, <1>8, <1>9 DEF KeepsPromise

(* What makes the promises inductive: what is done on the way to them, and *)
(* that nobody else is on the same paths.                                  *)
Faithful ==
    /\ Lonely
    /\ \A t \in Tasks : task[t].pc # "idle" /\ task[t].alone => KeepsPromise(t)

LEMMA FaithfulStep ==
    ASSUME Typed, TreeOK, Owned, PutSafe, Faithful, [Next]_vars
    PROVE  Faithful'
<1>1. Lonely'
  BY LonelyStep DEF Faithful
<1>2. ASSUME NEW t \in Tasks, task'[t].pc # "idle", task'[t].alone
      PROVE  KeepsPromise(t)'
  <2>1. task \in [Tasks -> TaskType]
    BY DEF Typed, TasksTyped
  <2>2. CASE Moves(t)
    <3>1. task[t].pc \in Running /\ task[t].alone
      BY <1>2, <2>1, <2>2, MovesRunning, MoveRecord
    <3>2. Going(t)
      BY <3>1 DEF Going, PutSafe, Faithful, Running
    <3> QED BY <2>2, <3>2, MovesKeep
  <2>3. ASSUME NEW c \in Calls, Begin(t, c) PROVE KeepsPromise(t)'
    BY <2>3, BeginKeeps
  <2>4. CASE Watches(t) /\ ~Moves(t)
    <3>1. task[t].pc # "idle" /\ task[t].alone
      BY <1>2, <2>4 DEF Watches, Untouched
    <3> QED BY <2>4, <3>1, WatchKeeps DEF Faithful
  <2>5. UNCHANGED vars => Watches(t)
    BY DEF vars, Watches, Untouched
  <2> QED BY <1>2, <2>1, <2>2, <2>3, <2>4, <2>5, Story DEF Idle
<1> QED BY <1>1, <1>2 DEF Faithful

LEMMA FaithfulAlways == Spec => []Faithful
<1>1. Init => Faithful
  BY DEF Init, Faithful, Lonely, Idle
<1>2. Typed /\ TreeOK /\ Owned /\ PutSafe /\ Faithful /\ [Next]_vars => Faithful'
  BY FaithfulStep
<1> QED BY <1>1, <1>2, AlwaysTyped, TreeStaysTree, OwnedAlways, PutSafeAlways, PTL
        DEF Spec

(* A copy or rename to another key that nobody disturbs and that stops at  *)
(* any step, by an error, a dropped future or a crash, has not lost the    *)
(* object: all of it is under one of the two keys, also while what a       *)
(* dropped call has left under way is not over.                            *)
THEOREM MovesAlwaysKeepData == Spec => []MoveKeepsData
<1>1. Typed /\ TreeOK /\ Owned /\ PutSafe /\ Faithful => MoveKeepsData
  <2> SUFFICES ASSUME Typed, TreeOK, Owned, PutSafe, Faithful,
                      NEW t \in Tasks, task[t].pc # "idle", Elsewhere(t),
                      task[t].alone, task[t].orig # None
               PROVE  task[t].orig \in {Object(Source(t)), Object(Target(t))}
    BY DEF MoveKeepsData, Elsewhere
  <2>1. KeepsPromise(t)
    BY DEF Faithful
  <2>2. CASE task[t].pc \in Running
    <3>1. Going(t)
      BY <2>1, <2>2 DEF Going, PutSafe
    <3> QED BY <3>1, SafeNow DEF Safe
  <2>3. CASE task[t].pc = "done"
    BY <2>1, <2>3 DEF KeepsPromise, Promised, Safe
  <2> QED BY <2>2, <2>3 DEF Typed, TasksTyped, TaskType
<1> QED BY <1>1, FaithfulAlways, AlwaysTyped, TreeStaysTree, OwnedAlways,
           PutSafeAlways, PTL

(* A call that no other call disturbs does what the Storage trait promises *)
(* for it, whatever was stopped before it and runs beside it.  A system    *)
(* call that a dropped future has left under way disturbs it like any call *)
(* in progress; once that is over, nothing of the dropped call is left.    *)
THEOREM PromisesAreKept == Spec => []IsolatedCallKeepsItsPromise
<1>1. Faithful => IsolatedCallKeepsItsPromise
  <2> SUFFICES ASSUME Faithful,
                      NEW t \in Tasks, task[t].pc = "done", task[t].alone
               PROVE  Promised(t)
    BY DEF IsolatedCallKeepsItsPromise, Promised, At
  <2> QED BY DEF Faithful, KeepsPromise
<1> QED BY <1>1, FaithfulAlways, PTL
=============================================================================
