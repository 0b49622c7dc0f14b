------------------------- MODULE LocalStorageTyping -------------------------
(***************************************************************************)
(* Type correctness of LocalStorage: the inductive invariant Typed, which  *)
(* relates the program counter of a call to its keys and open files, one   *)
(* lemma per action, and the theorem.                                      *)
(***************************************************************************)
EXTENDS LocalStorage, TLAPS, SequenceTheorems

(* What the program counter of a call says about its keys and open files.  *)
CallOK ==
    \A t \in Tasks :
        LET k == task[t] IN
        /\ k.pc \in Running => IsRelative(k.call.key)
        /\ k.pc \in Running \ {"mkdirs"} => IsRelative(k.call.to)
        /\ k.pc \in {"read", "copyread", "copywrite"} => k.rd \in Inodes
        /\ k.pc \in {"write", "copyread", "copywrite"} => k.wr \in Inodes
        /\ k.pc \in {"mkdirs", "open", "create"} => k.pos = 0
        /\ k.pc \in {"open", "copyread", "copywrite", "stat"} => k.call.kind # "put"
        /\ k.pc = "create" => k.call.kind = "put" \/ k.rd \in Inodes
        /\ k.pc = "write" => k.call.kind = "put" /\ k.pos <= Len(k.call.data)
        /\ k.pc = "copywrite" => k.buf # <<>>
        /\ k.dropped /\ k.pc = "mkdirs" => IsRelative(k.call.to)
        /\ k.dropped /\ k.pc = "write" => k.pos < Len(k.call.data)

TasksTyped ==
    /\ task \in [Tasks -> TaskType]
    /\ \A t \in Tasks : task[t].pc # "idle" => task[t].call \in Calls
    /\ CallOK

StoreTyped == tree \in [Paths -> Nodes] /\ content \in [Inodes -> Data]

Typed == TasksTyped /\ StoreTyped

LEMMA AncestorsTransitive ==
    ASSUME NEW p, NEW q \in Ancestors(p), NEW r \in Ancestors(q)
    PROVE  r \in Ancestors(p)
<1>1. PICK m \in 0 .. Len(p) - 1 : q = SubSeq(p, 1, m)
  BY DEF Ancestors
<1>2. m \in Nat
  BY <1>1
<1>3. Len(q) = m
  BY <1>1, <1>2
<1>4. PICK n \in 0 .. m - 1 : r = SubSeq(q, 1, n)
  BY <1>3 DEF Ancestors
<1>5. r = SubSeq(p, 1, n) /\ n \in 0 .. Len(p) - 1
  BY <1>1, <1>4
<1> QED BY <1>5 DEF Ancestors

(* Paths is closed under going up, and holds the path of every legal key.  *)
LEMMA PathsClosed ==
    ASSUME NEW p \in Paths, NEW q \in UpTo(p)
    PROVE  q \in Paths
<1>1. PICK k \in LegalKeys : p \in UpTo(FullPath(k))
  BY DEF Paths
<1>2. q \in UpTo(FullPath(k))
  BY <1>1, AncestorsTransitive DEF UpTo
<1> QED BY <1>2 DEF Paths

LEMMA PathOfKey ==
    ASSUME NEW c \in Calls
    PROVE  /\ IsRelative(c.key) => FullPath(c.key) \in Paths
           /\ IsRelative(c.to) => FullPath(c.to) \in Paths
  BY DEF Paths, LegalKeys, UpTo

LEMMA ResolveAnswers ==
    ASSUME NEW key
    PROVE  /\ Resolve(key) \in {"ok", "invalid", "io"}
           /\ Resolve(key) = "ok" => IsRelative(key)
  BY DEF Resolve

LEMMA OpenAnswers ==
    ASSUME NEW p
    PROVE  /\ OpenForRead(p) \in {"ok", "invalid", "io", "notfound"}
           /\ OpenForWrite(p) \in {"ok", "invalid", "io", "notfound"}
  BY DEF OpenForRead, OpenForWrite

LEMMA WriteAtTyped ==
    ASSUME NEW data \in Data, NEW pos \in Nat, NEW chunk \in Chunks \cup {Hole}
    PROVE  /\ WriteAt(data, pos, chunk) \in Data
           /\ Len(WriteAt(data, pos, chunk)) =
                 IF Len(data) > pos THEN Len(data) ELSE pos + 1
<1> DEFINE len == IF Len(data) > pos THEN Len(data) ELSE pos + 1
           at(n) == IF n = pos + 1 THEN chunk
                    ELSE IF n <= Len(data) THEN data[n] ELSE Hole
<1>1. len \in Nat
  BY LenProperties DEF Data
<1>2. \A n \in 1 .. len : at(n) \in Chunks \cup {Hole}
  BY ElementOfSeq, LenProperties DEF Data
<1>3. WriteAt(data, pos, chunk) = [n \in 1 .. len |-> at(n)]
  BY DEF WriteAt
<1>4. [n \in 1 .. len |-> at(n)] \in Seq(Chunks \cup {Hole})
  <2> HIDE DEF len, at
  <2> QED BY <1>1, <1>2, IsASeq
<1>5. Len([n \in 1 .. len |-> at(n)]) = len
  <2> HIDE DEF len, at
  <2> QED BY <1>1
<1> QED BY <1>3, <1>4, <1>5 DEF Data

LEMMA KeptTyped ==
    ASSUME content \in [Inodes -> Data], NEW tr, NEW ts
    PROVE  /\ Kept(tr, ts) \in [Inodes -> Data]
           /\ \A i \in Inodes : Kept(tr, ts)[i] \in {content[i], <<>>}
<1>1. <<>> \in Data
  BY EmptySeq DEF Data
<1> QED BY <1>1 DEF Kept

LEMMA FinishTyped ==
    ASSUME TasksTyped, NEW t \in Tasks, NEW res \in Results, task[t].pc \in Running,
           Finish(t, res)
    PROVE  TasksTyped'
<1>1. <<>> \in Data
  BY EmptySeq DEF Data
<1> DEFINE k == task[t]
           rest == IF res = "ok" THEN k.buf ELSE <<>>
           new == [k EXCEPT !.pc = "done", !.res = res, !.rd = None,
                            !.wr = None, !.pos = 0, !.buf = rest]
<1>2. k \in TaskType
  BY DEF TasksTyped
<1>3. rest \in Data
  BY <1>1, <1>2 DEF TaskType
<1>4. new \in TaskType
  <2> HIDE DEF k, rest
  <2> QED BY <1>2, <1>3 DEF TaskType
<1>5. task' = [task EXCEPT ![t] = new]
  BY DEF Finish
<1>6. task' \in [Tasks -> TaskType]
  BY <1>4, <1>5 DEF TasksTyped
<1>7. task'[t].pc = "done" /\ task'[t].call = task[t].call
  BY <1>5 DEF TasksTyped
<1>8. "done" \notin Running /\ "idle" \notin Running
  BY DEF Running
<1>9. \A u \in Tasks : u # t => task'[u] = task[u]
  BY <1>5 DEF TasksTyped
<1> HIDE DEF k, new, rest
<1> QED BY <1>6, <1>7, <1>8, <1>9 DEF TasksTyped, CallOK

LEMMA InitTyped == Init => Typed
<1>1. <<>> \in Data /\ 0 \in Nat
  BY EmptySeq DEF Data
<1>2. ASSUME Init PROVE TasksTyped
  BY <1>1, <1>2 DEF Init, TasksTyped, CallOK, Idle, TaskType, Running, Results
<1>3. ASSUME Init PROVE StoreTyped
  BY <1>3, LocalStorageAssumption DEF Init, StoreTyped
<1> QED BY <1>2, <1>3 DEF Typed

LEMMA BeginTyped ==
    ASSUME Typed, NEW t \in Tasks, NEW c \in Calls, Begin(t, c)
    PROVE  Typed'
<1> DEFINE ok == Admit(c) = "ok"
           begun == [Idle EXCEPT
               !.call = c,
               !.pc = IF ok THEN FirstStep(c) ELSE "done",
               !.res = IF ok THEN "none" ELSE Admit(c),
               !.alone = \A u \in Tasks :
                   task[u].pc \in Running => ~Disturbs(task[u].call, c),
               !.orig = IF IsRelative(c.key) THEN Object(FullPath(c.key))
                        ELSE None]
           left(u) == IF task[u].pc # "idle" /\ Disturbs(c, task[u].call)
                      THEN [task[u] EXCEPT !.alone = FALSE] ELSE task[u]
<1>1. task' = [u \in Tasks |-> IF u = t THEN begun ELSE left(u)]
  BY DEF Begin
<1>2. <<>> \in Data /\ 0 \in Nat
  BY EmptySeq DEF Data
<1>3. c.kind \in Kinds /\ (c.kind \notin Movers => c.to = c.key)
  BY LocalStorageAssumption DEF CallType
<1>4. Admit(c) \in Results
  BY ResolveAnswers DEF Admit, Results
<1>5. FirstStep(c) \in {"mkdirs", "open", "stat", "unlink"}
  BY <1>3 DEF FirstStep, Kinds, Movers, Readers
<1>6. (IF IsRelative(c.key) THEN Object(FullPath(c.key)) ELSE None)
         \in Data \cup {None}
  BY PathOfKey DEF Object, Typed, StoreTyped
<1>7. begun \in TaskType
  <2>1. Idle.pc = "idle" /\ Idle \in [pc : {"idle"}, call : {None}, rd : {None},
            wr : {None}, pos : {0}, buf : {<<>>}, res : {"none"},
            dropped : {FALSE}, alone : {FALSE}, orig : {None}]
    BY DEF Idle
  <2> DEFINE cl == \A u \in Tasks :
                 task[u].pc \in Running => ~Disturbs(task[u].call, c)
             og == IF IsRelative(c.key) THEN Object(FullPath(c.key)) ELSE None
             p == IF ok THEN FirstStep(c) ELSE "done"
             r == IF ok THEN "none" ELSE Admit(c)
  <2>2. p \in Running \cup {"idle", "done"} /\ r \in Results
    BY <1>4, <1>5 DEF Running, Results
  <2>3. og \in Data \cup {None}
    BY <1>6
  <2>4. cl \in BOOLEAN
    OBVIOUS
  <2>5. begun = [Idle EXCEPT !.call = c, !.pc = p, !.res = r, !.alone = cl, !.orig = og]
    OBVIOUS
  <2> HIDE DEF p, r, cl, og, begun
  <2> QED BY <1>2, <2>1, <2>2, <2>3, <2>4, <2>5 DEF TaskType
<1>8. \A u \in Tasks : left(u) \in TaskType
  BY DEF Typed, TasksTyped, TaskType
<1>9. /\ begun.call = c
      /\ begun.pc = IF ok THEN FirstStep(c) ELSE "done"
      /\ begun.pos = 0 /\ ~begun.dropped
  BY DEF Idle
<1>10. task' \in [Tasks -> TaskType]
  <2> HIDE DEF begun, left
  <2> QED BY <1>1, <1>7, <1>8
<1>11. ok => IsRelative(c.key)
  BY ResolveAnswers DEF Admit
<1>12. TasksTyped'
  <2>1. ASSUME NEW u \in Tasks, u # t
        PROVE  /\ task'[u].pc = task[u].pc /\ task'[u].call = task[u].call
               /\ task'[u].rd = task[u].rd /\ task'[u].wr = task[u].wr
               /\ task'[u].pos = task[u].pos /\ task'[u].buf = task[u].buf
               /\ task'[u].dropped = task[u].dropped
    BY <1>1, <2>1 DEF Typed, TasksTyped, TaskType
  <2>2. task'[t] = begun
    BY <1>1
  <2>3. begun.pc \in Running \ {"mkdirs"} => IsRelative(c.to)
    BY <1>3, <1>5, <1>9, <1>11 DEF FirstStep, Movers, Kinds, Readers, Running
  <2>4. begun.pc \in {"open", "stat"} => c.kind # "put"
    BY <1>3, <1>9 DEF FirstStep
  <2>5. begun.pc \in {"mkdirs", "open", "stat", "unlink", "done"}
    BY <1>5, <1>9
  <2>6. begun.pc \in Running => IsRelative(c.key)
    BY <1>9, <1>11 DEF Running
  <2> HIDE DEF begun
  <2> QED BY <1>9, <1>10, <2>1, <2>2, <2>3, <2>4, <2>5, <2>6
          DEF Typed, TasksTyped, CallOK
<1> QED BY <1>12 DEF Typed, StoreTyped, Begin

LEMMA WithDirsTyped ==
    ASSUME tree \in [Paths -> Nodes], NEW dirs
    PROVE  WithDirs(dirs) \in [Paths -> Nodes]
  BY DEF WithDirs, Nodes

LEMMA MakeParentsTyped ==
    ASSUME Typed, NEW t \in Tasks, MakeParents(t)
    PROVE  Typed'
<1>1. task[t].pc \in Running /\ task[t].pc = "mkdirs"
  BY DEF MakeParents, At, Running
<1>2. ASSUME Resolve(task[t].call.to) # "ok", Finish(t, Resolve(task[t].call.to))
      PROVE  TasksTyped'
  BY <1>1, <1>2, FinishTyped, ResolveAnswers DEF Typed, Results
<1>3. ASSUME Resolve(task[t].call.to) = "ok",
             Goto(t, IF Kind(t) = "put" THEN "create" ELSE "open")
      PROVE  TasksTyped'
  <2>1. IsRelative(task[t].call.to)
    BY <1>3, ResolveAnswers
  <2> DEFINE next == IF Kind(t) = "put" THEN "create" ELSE "open"
  <2>2. /\ next \in {"open", "create"} /\ next \in Running
        /\ next = "open" <=> Kind(t) # "put"
    BY DEF Running
  <2>3. task' = [task EXCEPT ![t].pc = next]
    BY <1>3 DEF Goto
  <2> HIDE DEF next
  <2>4. task' \in [Tasks -> TaskType]
    BY <2>2, <2>3 DEF Typed, TasksTyped, TaskType
  <2> QED BY <1>1, <2>1, <2>2, <2>3, <2>4
          DEF Typed, TasksTyped, TaskType, CallOK, Running, Kind
<1>4. tree' \in [Paths -> Nodes]
  BY WithDirsTyped DEF MakeParents, Typed, StoreTyped
<1> QED BY <1>2, <1>3, <1>4 DEF MakeParents, Typed, StoreTyped

LEMMA MakeParentsFailsTyped ==
    ASSUME Typed, NEW t \in Tasks, MakeParentsFails(t)
    PROVE  Typed'
<1>1. TasksTyped'
  BY FinishTyped DEF MakeParentsFails, Typed, At, Running, Results
<1>2. tree' \in [Paths -> Nodes]
  BY WithDirsTyped DEF MakeParentsFails, Typed, StoreTyped
<1> QED BY <1>1, <1>2 DEF MakeParentsFails, Typed, StoreTyped

LEMMA OpenSourceTyped ==
    ASSUME Typed, NEW t \in Tasks, OpenSource(t)
    PROVE  Typed'
<1>1. task[t].pc \in Running /\ task[t].pc = "open" /\ task[t].call \in Calls
  BY DEF OpenSource, At, Running, Typed, TasksTyped
<1>2. /\ IsRelative(task[t].call.key) /\ IsRelative(task[t].call.to)
      /\ Kind(t) # "put"
  BY <1>1 DEF Typed, TasksTyped, CallOK, Running, Kind
<1>3. tree[Source(t)] \in Nodes
  BY <1>1, <1>2, PathOfKey DEF Source, Typed, StoreTyped
<1>4. ASSUME OpenForRead(Source(t)) # "ok", Finish(t, OpenForRead(Source(t)))
      PROVE  TasksTyped'
  BY <1>1, <1>4, FinishTyped, OpenAnswers DEF Typed, Results
<1>5. ASSUME OpenForRead(Source(t)) = "ok",
             task' = [task EXCEPT ![t].rd = tree[Source(t)],
                 ![t].pc = IF Kind(t) = "get" THEN "read" ELSE "create"]
      PROVE  TasksTyped'
  <2>1. tree[Source(t)] \in Inodes
    BY <1>3, <1>5 DEF OpenForRead, Nodes
  <2> DEFINE i == tree[Source(t)]
             next == IF Kind(t) = "get" THEN "read" ELSE "create"
  <2>2. /\ i \in Inodes /\ next \in {"read", "create"}
        /\ next \in Running
    BY <2>1 DEF Running
  <2>3. task' = [task EXCEPT ![t].rd = i, ![t].pc = next]
    BY <1>5
  <2> HIDE DEF i, next
  <2>4. task \in [Tasks -> TaskType]
    BY DEF Typed, TasksTyped
  <2>5. task' \in [Tasks -> TaskType]
    BY <2>2, <2>3, <2>4 DEF TaskType
  <2> QED BY <1>1, <1>2, <2>2, <2>3, <2>5
          DEF Typed, TasksTyped, TaskType, CallOK, Running
<1> QED BY <1>4, <1>5 DEF OpenSource, Typed, StoreTyped

LEMMA OpenedTyped ==
    ASSUME TasksTyped, NEW t \in Tasks, task[t].pc = "create", NEW i \in Inodes,
           task' = [task EXCEPT ![t].wr = i,
               ![t].pc = IF Kind(t) = "put" THEN "write" ELSE "copyread"]
    PROVE  TasksTyped'
<1>1. /\ task[t].call \in Calls /\ task[t].pos = 0
      /\ Kind(t) # "put" => task[t].rd \in Inodes
      /\ IsRelative(task[t].call.key) /\ IsRelative(task[t].call.to)
  BY DEF TasksTyped, CallOK, Kind, Running
<1>2. Len(task[t].call.data) \in Nat
  BY <1>1, LocalStorageAssumption, LenProperties DEF CallType
<1> DEFINE next == IF Kind(t) = "put" THEN "write" ELSE "copyread"
<1>3. /\ next \in {"write", "copyread"} /\ next \in Running
      /\ next = "write" <=> Kind(t) = "put"
  BY DEF Running
<1>4. task' = [task EXCEPT ![t].wr = i, ![t].pc = next]
  OBVIOUS
<1> HIDE DEF next
<1>5. task \in [Tasks -> TaskType]
  BY DEF TasksTyped
<1>6. task' \in [Tasks -> TaskType]
  BY <1>3, <1>4, <1>5 DEF TaskType
<1> QED BY <1>1, <1>2, <1>3, <1>4, <1>6
        DEF TasksTyped, TaskType, CallOK, Running, Kind

LEMMA TruncateTyped ==
    ASSUME Typed, NEW t \in Tasks, Truncate(t)
    PROVE  Typed'
<1> DEFINE i == tree[Target(t)]
<1>1. i \in Inodes /\ task[t].pc = "create" /\ task[t].pc \in Running
  BY DEF Truncate, At, Running
<1>2. TasksTyped'
  BY <1>1, OpenedTyped, FinishTyped DEF Truncate, Typed, Results
<1>3. content' \in [Inodes -> Data]
  BY EmptySeq DEF Truncate, Typed, StoreTyped, Data
<1> QED BY <1>2, <1>3 DEF Typed, StoreTyped, Truncate

LEMMA CreateTyped ==
    ASSUME Typed, NEW t \in Tasks, Create(t)
    PROVE  Typed'
<1> DEFINE i == CHOOSE j \in Free : TRUE
<1>1. i \in Inodes /\ task[t].pc = "create"
  BY DEF Create, At, Free
<1>2. /\ tree' = [tree EXCEPT ![Target(t)] = i]
      /\ content' = [content EXCEPT ![i] = <<>>]
      /\ task' = [task EXCEPT ![t].wr = i,
              ![t].pc = IF Kind(t) = "put" THEN "write" ELSE "copyread"]
  BY DEF Create
<1> HIDE DEF i
<1>3. TasksTyped'
  BY <1>1, <1>2, OpenedTyped DEF Typed
<1>4. content' \in [Inodes -> Data]
  BY <1>2, EmptySeq DEF Typed, StoreTyped, Data
<1>5. tree' \in [Paths -> Nodes]
  BY <1>1, <1>2 DEF Typed, StoreTyped, Nodes
<1> QED BY <1>3, <1>4, <1>5 DEF Typed, StoreTyped

LEMMA CreateFailsTyped ==
    ASSUME Typed, NEW t \in Tasks, CreateFails(t)
    PROVE  Typed'
<1>1. task[t].pc \in Running
  BY DEF CreateFails, At, Running
<1>2. TasksTyped'
  BY <1>1, FinishTyped, OpenAnswers DEF CreateFails, Typed, Results
<1>3. content' \in [Inodes -> Data]
  BY KeptTyped DEF CreateFails, Typed, StoreTyped
<1> QED BY <1>2, <1>3 DEF Typed, StoreTyped, CreateFails

LEMMA WriteTyped ==
    ASSUME Typed, NEW t \in Tasks, Write(t)
    PROVE  Typed'
<1> DEFINE pos == task[t].pos
           data == task[t].call.data
<1>1. task[t].pc = "write" /\ task[t].pc \in Running /\ ~task[t].dropped
  BY DEF Write, At, Running
<1>2. /\ task[t].call \in Calls /\ task[t].wr \in Inodes /\ pos \in Nat
      /\ task \in [Tasks -> TaskType]
  BY <1>1 DEF Typed, TasksTyped, CallOK, TaskType
<1>3. data \in Seq(Chunks) /\ Len(data) \in Nat
  BY <1>2, LocalStorageAssumption, LenProperties DEF CallType
<1>4. ASSUME pos < Len(data),
             content' = [content EXCEPT ![task[t].wr] =
                            WriteAt(@, pos, data[pos + 1])],
             task' = [task EXCEPT ![t].pos = pos + 1], tree' = tree
      PROVE  Typed'
  <2>1. data[pos + 1] \in Chunks \cup {Hole}
    BY <1>2, <1>3, <1>4, ElementOfSeq
  <2>2. content' \in [Inodes -> Data]
    <3> HIDE DEF pos, data
    <3> QED BY <1>2, <1>4, <2>1, WriteAtTyped DEF Typed, StoreTyped
  <2>3. task' \in [Tasks -> TaskType]
    <3>1. pos + 1 \in Nat
      BY <1>2
    <3> DEFINE next == pos + 1
    <3>2. next \in Nat /\ task' = [task EXCEPT ![t].pos = next]
      BY <1>4, <3>1
    <3> HIDE DEF pos, data, next
    <3> QED BY <1>2, <3>2 DEF TaskType
  <2>4. TasksTyped'
    BY <1>1, <1>2, <1>3, <1>4, <2>3 DEF Typed, TasksTyped, CallOK, TaskType
  <2> QED BY <1>4, <2>2, <2>4 DEF Typed, StoreTyped
<1>5. ASSUME Finish(t, "ok"), content' = Kept(tree, task'), tree' = tree
      PROVE  Typed'
  BY <1>1, <1>5, FinishTyped, KeptTyped DEF Typed, StoreTyped, Results
<1> QED BY <1>4, <1>5 DEF Write

LEMMA ReadTyped ==
    ASSUME Typed, NEW t \in Tasks, Read(t)
    PROVE  Typed'
<1> DEFINE buf == task[t].buf
           data == content[task[t].rd]
<1>1. task[t].pc = "read" /\ task[t].pc \in Running
  BY DEF Read, At, Running
<1>2. /\ task[t].rd \in Inodes /\ buf \in Data
      /\ task \in [Tasks -> TaskType]
  BY <1>1 DEF Typed, TasksTyped, CallOK, TaskType
<1>3. data \in Data /\ Len(data) \in Nat /\ Len(buf) \in Nat
  BY <1>2, LenProperties DEF Typed, StoreTyped, Data
<1>4. ASSUME Len(buf) < Len(data),
             task' = [task EXCEPT ![t].buf = Append(buf, data[Len(buf) + 1])],
             UNCHANGED <<tree, content>>
      PROVE  Typed'
  <2> DEFINE next == Append(buf, data[Len(buf) + 1])
  <2>1. data[Len(buf) + 1] \in Chunks \cup {Hole}
    BY <1>3, <1>4, ElementOfSeq DEF Data
  <2>2. next \in Data
    BY <1>2, <2>1 DEF Data
  <2>3. task' = [task EXCEPT ![t].buf = next]
    BY <1>4
  <2> HIDE DEF next, buf, data
  <2>4. task' \in [Tasks -> TaskType]
    BY <1>2, <2>2, <2>3 DEF TaskType
  <2>5. TasksTyped'
    BY <1>1, <2>3, <2>4 DEF Typed, TasksTyped, CallOK, TaskType
  <2> QED BY <1>4, <2>5 DEF Typed, StoreTyped
<1>5. ASSUME Finish(t, "ok"), content' = Kept(tree, task'), tree' = tree
      PROVE  Typed'
  BY <1>1, <1>5, FinishTyped, KeptTyped DEF Typed, StoreTyped, Results
<1> QED BY <1>4, <1>5 DEF Read

LEMMA CopyReadTyped ==
    ASSUME Typed, NEW t \in Tasks, CopyRead(t)
    PROVE  Typed'
<1> DEFINE pos == task[t].pos
           data == content[task[t].rd]
<1>1. task[t].pc = "copyread"
  BY DEF CopyRead, At
<1>2. /\ task[t].rd \in Inodes /\ task[t].wr \in Inodes /\ pos \in Nat
      /\ task \in [Tasks -> TaskType]
  BY <1>1 DEF Typed, TasksTyped, CallOK, TaskType
<1>3. data \in Data /\ Len(data) \in Nat
  BY <1>2, LenProperties DEF Typed, StoreTyped, Data
<1>4. ASSUME pos < Len(data),
             task' = [task EXCEPT ![t].buf = <<data[pos + 1]>>,
                                  ![t].pc = "copywrite"]
      PROVE  TasksTyped'
  <2> DEFINE next == <<data[pos + 1]>>
  <2>1. data[pos + 1] \in Chunks \cup {Hole}
    BY <1>2, <1>3, <1>4, ElementOfSeq DEF Data
  <2>2. next \in Data /\ next # <<>> /\ "copywrite" \in Running
    BY <2>1 DEF Data, Running
  <2>3. task' = [task EXCEPT ![t].buf = next, ![t].pc = "copywrite"]
    BY <1>4
  <2> HIDE DEF next, pos, data
  <2>4. task' \in [Tasks -> TaskType]
    <3> DEFINE k == task[t]
               new == [k EXCEPT !.buf = next, !.pc = "copywrite"]
    <3>1. k \in TaskType
      BY <1>2
    <3>2. new \in TaskType
      BY <3>1, <2>2 DEF TaskType
    <3>3. task' = [task EXCEPT ![t] = new]
      BY <2>3
    <3> HIDE DEF new
    <3> QED BY <1>2, <3>2, <3>3
  <2> QED BY <1>1, <1>2, <2>2, <2>3, <2>4
          DEF Typed, TasksTyped, CallOK, TaskType, Running
<1>5. ASSUME Goto(t, "stat")
      PROVE  TasksTyped'
  <2>1. task' \in [Tasks -> TaskType]
    BY <1>2, <1>5 DEF TaskType, Running, Goto
  <2> QED BY <1>1, <1>5, <2>1
          DEF Typed, TasksTyped, CallOK, TaskType, Running, Goto
<1> QED BY <1>4, <1>5 DEF CopyRead, Typed, StoreTyped

LEMMA CopyWriteTyped ==
    ASSUME Typed, NEW t \in Tasks, CopyWrite(t)
    PROVE  Typed'
<1> DEFINE pos == task[t].pos
           chunk == task[t].buf[1]
<1>1. task[t].pc = "copywrite"
  BY DEF CopyWrite, At
<1>2. /\ task[t].rd \in Inodes /\ task[t].wr \in Inodes /\ pos \in Nat
      /\ task[t].buf \in Data /\ task[t].buf # <<>>
      /\ task \in [Tasks -> TaskType]
  BY <1>1 DEF Typed, TasksTyped, CallOK, TaskType
<1>3. chunk \in Chunks \cup {Hole}
  BY <1>2, ElementOfSeq, EmptySeq DEF Data
<1>4. content' \in [Inodes -> Data]
  <2>1. content' = [content EXCEPT ![task[t].wr] = WriteAt(@, pos, chunk)]
    BY DEF CopyWrite
  <2> HIDE DEF pos, chunk
  <2> QED BY <1>2, <1>3, <2>1, WriteAtTyped DEF Typed, StoreTyped
<1> DEFINE next == pos + 1
<1>5. next \in Nat
  BY <1>2
<1>6. task' = [task EXCEPT ![t].pos = next, ![t].buf = <<>>,
                           ![t].pc = "copyread"]
  BY DEF CopyWrite
<1> HIDE DEF next, pos, chunk
<1>7. task' \in [Tasks -> TaskType]
  BY <1>2, <1>5, <1>6, EmptySeq DEF TaskType, Running, Data
<1>8. TasksTyped'
  BY <1>1, <1>2, <1>6, <1>7 DEF Typed, TasksTyped, CallOK, TaskType, Running
<1> QED BY <1>4, <1>8 DEF CopyWrite, Typed, StoreTyped

LEMMA StatTyped ==
    ASSUME Typed, NEW t \in Tasks, Stat(t)
    PROVE  Typed'
<1>1. task[t].pc = "stat" /\ task[t].pc \in Running
  BY DEF Stat, At, Running
<1>2. task \in [Tasks -> TaskType]
  BY DEF Typed, TasksTyped
<1>3. ASSUME NEW res \in Results, Finish(t, res) PROVE TasksTyped'
  BY <1>1, <1>3, FinishTyped DEF Typed
<1>4. ASSUME task' = [task EXCEPT ![t].pc = "unlink", ![t].rd = None,
                                  ![t].wr = None, ![t].pos = 0]
      PROVE  TasksTyped'
  <2>0. "unlink" \in Running /\ 0 \in Nat
    BY DEF Running
  <2>1. task' \in [Tasks -> TaskType]
    <3> DEFINE k == task[t]
               new == [k EXCEPT !.pc = "unlink", !.rd = None, !.wr = None, !.pos = 0]
    <3>1. k \in TaskType
      BY <1>2
    <3>2. new \in TaskType
      BY <3>1, <2>0 DEF TaskType
    <3>3. task' = [task EXCEPT ![t] = new]
      BY <1>4
    <3> HIDE DEF new
    <3> QED BY <1>2, <3>2, <3>3
  <2> QED BY <1>1, <1>4, <2>1 DEF Typed, TasksTyped, CallOK, TaskType, Running
<1>5. TasksTyped'
  <2>1. Resolve(task[t].call.to) \in Results
    BY ResolveAnswers DEF Results
  <2>2. {"ok", "notfound", "true", "false"} \subseteq Results
    BY DEF Results
  <2> QED BY <1>3, <1>4, <2>1, <2>2 DEF Stat
<1>6. content' \in [Inodes -> Data]
  BY KeptTyped DEF Stat, Typed, StoreTyped
<1> QED BY <1>5, <1>6 DEF Stat, Typed, StoreTyped

LEMMA UnlinkTyped ==
    ASSUME Typed, NEW t \in Tasks, Unlink(t)
    PROVE  Typed'
<1>1. task[t].pc \in Running
  BY DEF Unlink, At, Running
<1>2. TasksTyped'
  BY <1>1, FinishTyped, ResolveAnswers DEF Unlink, Typed, Results
<1>3. content' \in [Inodes -> Data]
  BY KeptTyped DEF Unlink, Typed, StoreTyped
<1>4. tree' \in [Paths -> Nodes]
  BY DEF Unlink, Typed, StoreTyped, Nodes
<1> QED BY <1>2, <1>3, <1>4 DEF Typed, StoreTyped

LEMMA FailTyped ==
    ASSUME Typed, NEW t \in Tasks, Fail(t)
    PROVE  Typed'
<1>1. TasksTyped'
  BY FinishTyped DEF Fail, Typed, Results
<1> QED BY <1>1, KeptTyped DEF Fail, Typed, StoreTyped

LEMMA IdleTyped == Idle \in TaskType /\ Idle.pc = "idle"
<1>1. <<>> \in Data /\ 0 \in Nat
  BY EmptySeq DEF Data
<1> QED BY <1>1 DEF Idle, TaskType, Results

(* The call is over: its record is the idle one.                           *)
LEMMA OverTyped ==
    ASSUME TasksTyped, NEW t \in Tasks, task' = [task EXCEPT ![t] = Idle]
    PROVE  TasksTyped'
  BY IdleTyped DEF TasksTyped, CallOK, Running

LEMMA ReturnTyped ==
    ASSUME Typed, NEW t \in Tasks, Return(t)
    PROVE  Typed'
  BY OverTyped DEF Return, Typed, StoreTyped

LEMMA CancelTyped ==
    ASSUME Typed, NEW t \in Tasks, Cancel(t)
    PROVE  Typed'
<1>1. ASSUME task' = [task EXCEPT ![t] = Idle], content' = Kept(tree, task')
      PROVE  TasksTyped' /\ content' \in [Inodes -> Data]
  BY <1>1, OverTyped, KeptTyped DEF Typed, StoreTyped
<1>2. ASSUME UnderWay(t), task' = [task EXCEPT ![t].dropped = TRUE]
      PROVE  TasksTyped'
  <2>1. task \in [Tasks -> TaskType]
    BY DEF Typed, TasksTyped
  <2>2. task' \in [Tasks -> TaskType]
    BY <1>2, <2>1 DEF TaskType
  <2>3. task[t].pc = "mkdirs" => IsRelative(task[t].call.to)
    BY <1>2, ResolveAnswers DEF UnderWay
  <2>4. task[t].pc = "write" => task[t].pos < Len(task[t].call.data)
    BY <1>2 DEF UnderWay
  <2> QED BY <1>2, <2>1, <2>2, <2>3, <2>4 DEF Typed, TasksTyped, CallOK, TaskType
<1> QED BY <1>1, <1>2 DEF Cancel, Typed, StoreTyped

LEMMA LateMakeParentsTyped ==
    ASSUME Typed, NEW t \in Tasks, LateMakeParents(t)
    PROVE  Typed'
  BY OverTyped, WithDirsTyped DEF LateMakeParents, Over, Typed, StoreTyped

LEMMA LateOpenTyped ==
    ASSUME Typed, NEW t \in Tasks, LateOpen(t)
    PROVE  Typed'
<1> DEFINE p == Target(t)
           i == IF tree[p] = Absent THEN CHOOSE j \in Free : TRUE ELSE tree[p]
<1>1. /\ task[t].pc = "create" /\ task[t].call \in Calls
      /\ IsRelative(task[t].call.to)
  BY DEF LateOpen, Over, Typed, TasksTyped, CallOK, Running
<1>2. p \in Paths
  BY <1>1, PathOfKey DEF Target
<1>3. tree[p] \in Inodes \cup {Absent}
  BY <1>2 DEF LateOpen, OpenForWrite, Typed, StoreTyped, Nodes
<1>4. tree[p] = Absent => Free # {}
  BY DEF LateOpen
<1>5. i \in Inodes
  BY <1>3, <1>4 DEF Free
<1>6. tree' = [tree EXCEPT ![p] = i]
      /\ content' = [Kept(tree', task') EXCEPT ![i] = <<>>]
  BY DEF LateOpen
<1> HIDE DEF i
<1>7. tree' \in [Paths -> Nodes]
  BY <1>5, <1>6 DEF Typed, StoreTyped, Nodes
<1>8. content' \in [Inodes -> Data]
  BY <1>6, KeptTyped, EmptySeq DEF Typed, StoreTyped, Data
<1>9. TasksTyped'
  BY OverTyped DEF LateOpen, Over, Typed
<1> QED BY <1>7, <1>8, <1>9 DEF Typed, StoreTyped

(* What a write that outlives its caller writes, and where.                *)
LateChunk(t) == IF Kind(t) = "put" THEN task[t].call.data[task[t].pos + 1]
                ELSE task[t].buf[1]

LEMMA LateWriteIs ==
    ASSUME Typed, NEW t \in Tasks, LateWrite(t)
    PROVE  /\ task[t].wr \in Inodes /\ task[t].pos \in Nat
           /\ LateChunk(t) \in Chunks \cup {Hole}
           /\ task[t].pc = "write" => task[t].pos < Len(task[t].call.data)
           /\ content' = [Kept(tree, task') EXCEPT ![task[t].wr] =
                 IF task[t].wr \in Used(tree, task')
                 THEN WriteAt(@, task[t].pos, LateChunk(t)) ELSE @]
<1> DEFINE pos == task[t].pos
           data == task[t].call.data
<1>1. task[t].pc \in {"write", "copywrite"} /\ task[t].dropped
  BY DEF LateWrite, Over
<1>2. /\ task[t].wr \in Inodes /\ pos \in Nat /\ task[t].buf \in Data
      /\ task[t].call \in Calls
      /\ task[t].pc = "write" => Kind(t) = "put" /\ pos < Len(data)
      /\ task[t].pc = "copywrite" => Kind(t) # "put" /\ task[t].buf # <<>>
  BY <1>1 DEF Typed, TasksTyped, CallOK, TaskType, Kind
<1>3. ASSUME task[t].pc = "write" PROVE LateChunk(t) \in Chunks \cup {Hole}
  <2>1. data \in Seq(Chunks) /\ Len(data) \in Nat
    BY <1>2, LocalStorageAssumption, LenProperties DEF CallType
  <2>2. data[pos + 1] \in Chunks
    BY <1>2, <1>3, <2>1, ElementOfSeq
  <2> QED BY <1>2, <1>3, <2>2 DEF LateChunk
<1>4. ASSUME task[t].pc = "copywrite" PROVE LateChunk(t) \in Chunks \cup {Hole}
  BY <1>2, <1>4, ElementOfSeq, EmptySeq DEF LateChunk, Data
<1>5. content' = [Kept(tree, task') EXCEPT ![task[t].wr] =
         IF task[t].wr \in Used(tree, task')
         THEN WriteAt(@, task[t].pos, LateChunk(t)) ELSE @]
  BY DEF LateWrite, LateChunk
<1> QED BY <1>1, <1>2, <1>3, <1>4, <1>5

LEMMA LateWriteTyped ==
    ASSUME Typed, NEW t \in Tasks, LateWrite(t)
    PROVE  Typed'
<1> DEFINE i == task[t].wr
           pos == task[t].pos
           chunk == LateChunk(t)
           kept == Kept(tree, task')
<1>1. /\ i \in Inodes /\ pos \in Nat /\ chunk \in Chunks \cup {Hole}
      /\ content' = [kept EXCEPT ![i] =
            IF i \in Used(tree, task') THEN WriteAt(@, pos, chunk) ELSE @]
  BY LateWriteIs
<1>2. kept \in [Inodes -> Data]
  BY KeptTyped DEF Typed, StoreTyped
<1>3. TasksTyped' /\ tree' = tree
  BY OverTyped DEF LateWrite, Over, Typed
<1>4. content' \in [Inodes -> Data]
  <2> HIDE DEF i, pos, chunk, kept
  <2>1. WriteAt(kept[i], pos, chunk) \in Data
    BY <1>1, <1>2, WriteAtTyped
  <2> QED BY <1>1, <1>2, <2>1
<1> QED BY <1>3, <1>4 DEF Typed, StoreTyped

LEMMA LateUnlinkTyped ==
    ASSUME Typed, NEW t \in Tasks, LateUnlink(t)
    PROVE  Typed'
<1>1. TasksTyped'
  BY OverTyped DEF LateUnlink, Over, Typed
<1>2. tree' \in [Paths -> Nodes] /\ content' \in [Inodes -> Data]
  BY KeptTyped DEF LateUnlink, Typed, StoreTyped, Nodes
<1> QED BY <1>1, <1>2 DEF Typed, StoreTyped

LEMMA LateNothingTyped ==
    ASSUME Typed, NEW t \in Tasks, LateNothing(t)
    PROVE  Typed'
  BY OverTyped, KeptTyped DEF LateNothing, Over, Typed, StoreTyped

LEMMA CrashTyped ==
    ASSUME Typed, Crash
    PROVE  Typed'
<1>1. task' = [t \in Tasks |-> Idle]
  BY DEF Crash
<1>2. TasksTyped'
  BY <1>1, IdleTyped DEF TasksTyped, CallOK, Running
<1> QED BY <1>2, KeptTyped DEF Crash, Typed, StoreTyped

LEMMA NextTyped == Typed /\ [Next]_vars => Typed'
<1> SUFFICES ASSUME Typed, [Next]_vars PROVE Typed'
  OBVIOUS
<1>1. CASE UNCHANGED vars
  BY <1>1 DEF vars, Typed, TasksTyped, StoreTyped, CallOK
<1>2. CASE Next
  BY <1>2, BeginTyped, MakeParentsTyped, MakeParentsFailsTyped, OpenSourceTyped,
     TruncateTyped, CreateTyped, CreateFailsTyped, WriteTyped, ReadTyped,
     CopyReadTyped, CopyWriteTyped, StatTyped, UnlinkTyped, FailTyped,
     ReturnTyped, CancelTyped, LateMakeParentsTyped, LateOpenTyped,
     LateWriteTyped, LateUnlinkTyped, LateNothingTyped, CrashTyped
     DEF Next, Step, Advance, Late
<1> QED BY <1>1, <1>2

LEMMA AlwaysTyped == Spec => []Typed
  BY InitTyped, NextTyped, PTL DEF Spec

(* Type correctness: whatever the tasks, calls and initial trees, the tree *)
(* holds nodes, files hold chunks or holes, and every call is in a state   *)
(* the code has.                                                           *)
THEOREM TypeCorrect == Spec => []TypeOK
<1>1. Typed => TypeOK
  BY DEF Typed, TasksTyped, StoreTyped, TypeOK
<1> QED BY <1>1, AlwaysTyped, PTL
=============================================================================
