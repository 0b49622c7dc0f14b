------------------------- MODULE LocalStorageProofs -------------------------
(***************************************************************************)
(* The directory tree of LocalStorage, for any tasks, calls and initial    *)
(* trees: it stays a tree, its steps are those of DirectoryTree, and a put *)
(* finds the parents it made.                                              *)
(***************************************************************************)
EXTENDS LocalStorageTyping

-----------------------------------------------------------------------------
(* What a step can do to the tree                                          *)

MakesDirs(t) ==
    /\ task[t].pc = "mkdirs"
    /\ IsRelative(task[t].call.to) /\ ~Blocked(Target(t))
    /\ \E q \in UpTo(Target(t)) : tree' = WithDirs(Ancestors(q))

NamesFile(t, i) ==
    /\ task[t].pc = "create"
    /\ OpenForWrite(Target(t)) = "ok" /\ tree[Target(t)] = Absent
    /\ i \in Free
    /\ tree' = [tree EXCEPT ![Target(t)] = i]

DropsName(t) ==
    /\ task[t].pc = "unlink"
    /\ tree[Source(t)] \in Inodes
    /\ tree' = [tree EXCEPT ![Source(t)] = Absent]

(* The path a call in progress works on is one of the tree's.              *)
LEMMA SourceInPaths ==
    ASSUME Typed, NEW t \in Tasks, task[t].pc \in Running
    PROVE  Source(t) \in Paths
<1>1. task[t].call \in Calls /\ IsRelative(task[t].call.key)
  BY DEF Typed, TasksTyped, CallOK, Running
<1> QED BY <1>1, PathOfKey DEF Source

LEMMA TargetInPaths ==
    ASSUME Typed, NEW t \in Tasks, task[t].pc # "idle",
           IsRelative(task[t].call.to)
    PROVE  Target(t) \in Paths
<1>1. task[t].call \in Calls
  BY DEF Typed, TasksTyped
<1> QED BY <1>1, PathOfKey DEF Target

LEMMA Distinct ==
    /\ Absent # Dir /\ Absent # Link /\ Dir # Link
    /\ Absent \notin Inodes /\ Dir \notin Inodes /\ Link \notin Inodes
    /\ None \notin Inodes /\ Shared \subseteq Inodes
  BY LocalStorageAssumption

(* Where resolve finds nothing to refuse, no file or link is on the way.   *)
LEMMA ResolvedUnblocked ==
    ASSUME Typed, NEW t \in Tasks, task[t].pc # "idle",
           Resolve(task[t].call.to) = "ok"
    PROVE  IsRelative(task[t].call.to) /\ ~Blocked(Target(t))
<1>1. IsRelative(task[t].call.to) /\ Target(t) \in Paths
  BY ResolveAnswers, TargetInPaths
<1>2. ASSUME NEW x \in Ancestors(Target(t)) PROVE tree[x] \in {Dir, Absent}
  <2>1. x \in UpTo(Target(t)) /\ x \in Paths
    BY <1>1, PathsClosed DEF UpTo
  <2>2. tree[x] # Link /\ tree[x] \notin Inodes
    BY <1>1, <2>1 DEF Resolve, Target
  <2> QED BY <2>1, <2>2 DEF Nodes, Typed, StoreTyped
<1> QED BY <1>1, <1>2 DEF Blocked

LEMMA LateMakesDirs ==
    ASSUME Typed, NEW t \in Tasks, LateMakeParents(t)
    PROVE  MakesDirs(t)
<1>1. task[t].pc = "mkdirs" /\ task[t].dropped
  BY DEF LateMakeParents, Over
<1>2. IsRelative(task[t].call.to)
  BY <1>1 DEF Typed, TasksTyped, CallOK
<1> QED BY <1>1, <1>2 DEF LateMakeParents, MakesDirs

(* What an open that outlives its caller does: it empties a file, or gives *)
(* the name to one that nothing refers to.                                 *)
LEMMA LateOpens ==
    ASSUME Typed, NEW t \in Tasks, LateOpen(t)
    PROVE  \E i \in Inodes :
              /\ content' = [Kept(tree', task') EXCEPT ![i] = <<>>]
              /\ \/ tree[Target(t)] = i /\ tree' = tree
                 \/ NamesFile(t, i)
<1> DEFINE p == Target(t)
           i == IF tree[p] = Absent THEN CHOOSE j \in Free : TRUE ELSE tree[p]
<1>1. task[t].pc = "create" /\ IsRelative(task[t].call.to) /\ task[t].pc # "idle"
  BY DEF LateOpen, Over, Typed, TasksTyped, CallOK, Running
<1>2. p \in Paths /\ tree \in [Paths -> Nodes]
  BY <1>1, TargetInPaths DEF Typed, StoreTyped
<1>3. /\ OpenForWrite(p) = "ok" /\ (tree[p] = Absent => Free # {})
      /\ tree' = [tree EXCEPT ![p] = i]
      /\ content' = [Kept(tree', task') EXCEPT ![i] = <<>>]
  BY DEF LateOpen
<1>4. tree[p] \in Inodes \cup {Absent}
  BY <1>2, <1>3 DEF OpenForWrite, Nodes
<1>5. CASE tree[p] = Absent
  <2>1. i \in Free
    BY <1>3, <1>5
  <2> HIDE DEF i
  <2> QED BY <1>1, <1>3, <1>5, <2>1 DEF NamesFile, Free
<1>6. CASE tree[p] # Absent
  <2>1. i = tree[p] /\ i \in Inodes
    BY <1>4, <1>6
  <2> HIDE DEF i
  <2>2. tree' = tree
    BY <1>2, <1>3, <2>1
  <2> QED BY <1>3, <2>1, <2>2
<1> QED BY <1>5, <1>6

LEMMA TreeSteps ==
    ASSUME Typed, [Next]_vars
    PROVE  \/ tree' = tree
           \/ \E t \in Tasks : \/ MakesDirs(t)
                               \/ \E i \in Free : NamesFile(t, i)
                               \/ DropsName(t)
<1>1. ASSUME NEW t \in Tasks, MakeParents(t) PROVE tree' = tree \/ MakesDirs(t)
  BY <1>1, ResolvedUnblocked DEF MakeParents, MakesDirs, At, UpTo
<1>2. ASSUME NEW t \in Tasks, MakeParentsFails(t) PROVE MakesDirs(t)
  BY <1>2, ResolvedUnblocked DEF MakeParentsFails, MakesDirs, At
<1>3. ASSUME NEW t \in Tasks, Create(t) PROVE \E i \in Free : NamesFile(t, i)
  BY <1>3 DEF Create, NamesFile, At
<1>4. ASSUME NEW t \in Tasks, Unlink(t) PROVE tree' = tree \/ DropsName(t)
  BY <1>4 DEF Unlink, DropsName, At
<1>5. ASSUME NEW t \in Tasks, Late(t)
      PROVE  tree' = tree \/ MakesDirs(t) \/ (\E i \in Free : NamesFile(t, i)) \/ DropsName(t)
  <2>1. CASE LateMakeParents(t)
    BY <2>1, LateMakesDirs
  <2>2. CASE LateOpen(t)
    BY <2>2, LateOpens DEF NamesFile
  <2>3. CASE LateUnlink(t)
    BY <2>3 DEF LateUnlink, DropsName, Over
  <2> QED BY <1>5, <2>1, <2>2, <2>3 DEF Late, LateWrite, LateNothing
<1>6. CASE UNCHANGED vars
  BY <1>6 DEF vars
<1>7. CASE Next
  BY <1>1, <1>2, <1>3, <1>4, <1>5, <1>7
     DEF Next, Step, Advance, Begin, OpenSource, Truncate, CreateFails, Write, Read,
         CopyRead, CopyWrite, Stat, Fail, Return, Cancel, Crash
<1> QED BY <1>6, <1>7

(* Directories and links stay what they are, and no step gives a name to a *)
(* file that has one outside the root.                                     *)
LEMMA DirsAndLinksStay ==
    ASSUME Typed, [Next]_vars, NEW q \in Paths
    PROVE  /\ tree[q] = Dir => tree'[q] = Dir
           /\ tree'[q] = Link => tree[q] = Link
           /\ tree'[q] \in Shared => tree[q] \in Shared
<1>1. tree \in [Paths -> Nodes]
  BY DEF Typed, StoreTyped
<1>2. ASSUME NEW t \in Tasks, MakesDirs(t)
      PROVE  /\ tree[q] = Dir => tree'[q] = Dir
             /\ tree'[q] = Link => tree[q] = Link
             /\ tree'[q] \in Shared => tree[q] \in Shared
  BY <1>2, Distinct DEF MakesDirs, WithDirs
<1>3. ASSUME NEW t \in Tasks, NEW i \in Free, NamesFile(t, i)
      PROVE  /\ tree[q] = Dir => tree'[q] = Dir
             /\ tree'[q] = Link => tree[q] = Link
             /\ tree'[q] \in Shared => tree[q] \in Shared
  BY <1>1, <1>3, Distinct DEF NamesFile, Free, Used
<1>4. ASSUME NEW t \in Tasks, DropsName(t)
      PROVE  /\ tree[q] = Dir => tree'[q] = Dir
             /\ tree'[q] = Link => tree[q] = Link
             /\ tree'[q] \in Shared => tree[q] \in Shared
  BY <1>1, <1>4, Distinct DEF DropsName
<1> QED BY <1>2, <1>3, <1>4, TreeSteps

-----------------------------------------------------------------------------
(* What a step can do to a call                                            *)

(* What a call that ends looks like, and that it is the only one changed.  *)
LEMMA Finished ==
    ASSUME task \in [Tasks -> TaskType], NEW t \in Tasks, NEW res, Finish(t, res)
    PROVE  /\ task'[t].pc = "done" /\ task'[t].res = res
           /\ task'[t].call = task[t].call
           /\ task'[t].rd = None /\ task'[t].wr = None /\ task'[t].pos = 0
           /\ task'[t].buf = IF res = "ok" THEN task[t].buf ELSE <<>>
           /\ \A u \in Tasks \ {t} : task'[u] = task[u]
  BY DEF Finish, TaskType

LEMMA Went ==
    ASSUME task \in [Tasks -> TaskType], NEW t \in Tasks, NEW pc, Goto(t, pc)
    PROVE  /\ task'[t].pc = pc /\ task'[t].call = task[t].call
           /\ task'[t].rd = task[t].rd /\ task'[t].wr = task[t].wr
           /\ task'[t].pos = task[t].pos /\ task'[t].buf = task[t].buf
           /\ \A u \in Tasks \ {t} : task'[u] = task[u]
  BY DEF Goto, TaskType

(* A step of one call leaves the other calls where they are.               *)
LEMMA OthersKeep ==
    ASSUME task \in [Tasks -> TaskType], NEW t \in Tasks, NEW u \in Tasks \ {t},
           Step(t) \/ MakeParentsFails(t) \/ Fail(t) \/ Return(t) \/ Cancel(t)
    PROVE  task'[u] = task[u]
<1>1. CASE MakeParents(t)
  BY <1>1, Finished, Went DEF MakeParents
<1>2. CASE OpenSource(t)
  BY <1>2, Finished DEF OpenSource
<1>3. CASE Truncate(t)
  BY <1>3, Finished DEF Truncate
<1>4. CASE Create(t)
  BY <1>4 DEF Create
<1>5. CASE CreateFails(t)
  BY <1>5, Finished DEF CreateFails
<1>6. CASE Write(t)
  BY <1>6, Finished DEF Write
<1>7. CASE Read(t)
  BY <1>7, Finished DEF Read
<1>8. CASE CopyRead(t)
  BY <1>8, Went DEF CopyRead
<1>9. CASE CopyWrite(t)
  BY <1>9 DEF CopyWrite
<1>10. CASE Stat(t)
  BY <1>10, Finished DEF Stat
<1>11. CASE Unlink(t)
  BY <1>11, Finished DEF Unlink
<1>12. CASE MakeParentsFails(t)
  BY <1>12, Finished DEF MakeParentsFails
<1>13. CASE Fail(t)
  BY <1>13, Finished DEF Fail
<1>14. CASE Return(t) \/ Cancel(t)
  BY <1>14 DEF Return, Cancel
<1>15. CASE Late(t)
  BY <1>15 DEF Late, Over, LateMakeParents, LateOpen, LateWrite, LateUnlink,
               LateNothing
<1> QED BY <1>1, <1>2, <1>3, <1>4, <1>5, <1>6, <1>7, <1>8, <1>9, <1>10, <1>11,
           <1>12, <1>13, <1>14, <1>15 DEF Step, Advance

(* A call that another one left where it was, or whose caller has gone     *)
(* with a system call under way.                                           *)
Untouched(t) ==
    /\ task'[t].pc = task[t].pc /\ task'[t].call = task[t].call
    /\ task'[t].rd = task[t].rd /\ task'[t].wr = task[t].wr
    /\ task'[t].pos = task[t].pos /\ task'[t].buf = task[t].buf
    /\ task'[t].res = task[t].res

Moves(t) == Advance(t) \/ MakeParentsFails(t) \/ Fail(t)

(* The system call of a dropped future is the last of the call.            *)
LEMMA LateEnds ==
    ASSUME task \in [Tasks -> TaskType], NEW t \in Tasks, Late(t)
    PROVE  task'[t] = Idle /\ task[t].pc \in Running /\ task[t].dropped
  BY DEF Late, Over, LateMakeParents, LateOpen, LateWrite, LateUnlink,
         LateNothing, Running

LEMMA Cancelled ==
    ASSUME task \in [Tasks -> TaskType], NEW t \in Tasks, Cancel(t)
    PROVE  \/ task'[t] = Idle
           \/ /\ Untouched(t) /\ task'[t].orig = task[t].orig
              /\ task'[t].alone = task[t].alone
<1>1. CASE task' = [task EXCEPT ![t].dropped = TRUE]
  BY <1>1 DEF Untouched, TaskType
<1> QED BY <1>1 DEF Cancel

(* A call is where it was, is over, has just begun, or has done a step of  *)
(* its own.                                                                *)
LEMMA Transitions ==
    ASSUME task \in [Tasks -> TaskType], [Next]_vars, NEW t \in Tasks
    PROVE  \/ Untouched(t)
           \/ task'[t] = Idle
           \/ \E c \in Calls : Begin(t, c)
           \/ Moves(t)
<1>1. CASE UNCHANGED vars
  BY <1>1 DEF vars, Untouched
<1>2. CASE Crash
  BY <1>2 DEF Crash
<1>3. ASSUME NEW u \in Tasks, NEW c \in Calls, Begin(u, c), u # t
      PROVE  Untouched(t)
  BY <1>3 DEF Begin, Untouched, TaskType
<1>4. ASSUME NEW u \in Tasks, u # t,
             Step(u) \/ MakeParentsFails(u) \/ Fail(u) \/ Return(u) \/ Cancel(u)
      PROVE  Untouched(t)
  BY <1>4, OthersKeep DEF Untouched
<1>5. CASE Return(t) \/ Cancel(t) \/ Late(t)
  BY <1>5, Cancelled, LateEnds DEF Return
<1> QED BY <1>1, <1>2, <1>3, <1>4, <1>5 DEF Next, Step, Moves

-----------------------------------------------------------------------------
(* The tree stays a tree                                                   *)

LEMMA DirsKeepTree ==
    ASSUME tree \in [Paths -> Nodes], Rooted(tree), NoAlias(tree),
           NEW p \in Paths, \A q \in Ancestors(p) : tree[q] \in {Dir, Absent}
    PROVE  Rooted(WithDirs(Ancestors(p))) /\ NoAlias(WithDirs(Ancestors(p)))
<1> DEFINE tr == WithDirs(Ancestors(p))
<1>1. \A x \in Paths : tr[x] = IF x \in Ancestors(p) /\ tree[x] = Absent
                               THEN Dir ELSE tree[x]
  BY DEF WithDirs
<1>2. \A x \in Paths : x \in Ancestors(p) => tr[x] = Dir
  BY <1>1
<1> HIDE DEF tr
<1>3. Rooted(tr)
  <2> SUFFICES ASSUME NEW x \in Paths, tr[x] # Absent, NEW y \in Ancestors(x)
               PROVE  tr[y] = Dir
    BY DEF Rooted
  <2>1. y \in Paths
    BY PathsClosed DEF UpTo
  <2>2. CASE x \in Ancestors(p)
    BY <1>2, <2>1, <2>2, AncestorsTransitive
  <2>3. CASE x \notin Ancestors(p)
    BY <1>1, <2>1, <2>3, Distinct DEF Rooted
  <2> QED BY <2>2, <2>3
<1>4. NoAlias(tr)
  BY <1>1, Distinct DEF NoAlias
<1> QED BY <1>3, <1>4 DEF tr

(* Where a call makes directories there are directories, or nothing.       *)
LEMMA DirsClear ==
    ASSUME Typed, NEW t \in Tasks, task[t].pc = "mkdirs",
           IsRelative(task[t].call.to), ~Blocked(Target(t)), NEW q \in UpTo(Target(t))
    PROVE  q \in Paths /\ \A x \in Ancestors(q) : tree[x] \in {Dir, Absent}
<1>1. Target(t) \in Paths
  BY TargetInPaths
<1>2. \A x \in Ancestors(Target(t)) : tree[x] \in {Dir, Absent}
  BY DEF Blocked
<1> QED BY <1>1, <1>2, PathsClosed, AncestorsTransitive DEF UpTo

LEMMA TreeOKStep ==
    ASSUME Typed, TreeOK, [Next]_vars
    PROVE  TreeOK'
<1>1. tree \in [Paths -> Nodes] /\ Rooted(tree) /\ NoAlias(tree)
  BY DEF Typed, StoreTyped, TreeOK
<1>2. CASE tree' = tree
  BY <1>1, <1>2 DEF TreeOK
<1>3. ASSUME NEW t \in Tasks, MakesDirs(t) PROVE TreeOK'
  <2>1. PICK q \in UpTo(Target(t)) : tree' = WithDirs(Ancestors(q))
    BY <1>3 DEF MakesDirs
  <2>2. q \in Paths /\ \A x \in Ancestors(q) : tree[x] \in {Dir, Absent}
    BY <1>3, <2>1, DirsClear DEF MakesDirs
  <2> QED BY <1>1, <2>1, <2>2, DirsKeepTree DEF TreeOK
<1>4. ASSUME NEW t \in Tasks, NEW i \in Free, NamesFile(t, i) PROVE TreeOK'
  <2> DEFINE p == Target(t)
  <2>1. IsRelative(task[t].call.to)
    BY <1>4 DEF NamesFile, Typed, TasksTyped, CallOK, Running
  <2>2. p \in Paths
    BY <1>4, <2>1, TargetInPaths DEF NamesFile
  <2>3. \A q \in Ancestors(p) : tree[q] = Dir
    BY <1>4 DEF NamesFile, OpenForWrite, Reachable
  <2>4. tree[p] = Absent /\ tree' = [tree EXCEPT ![p] = i]
    BY <1>4 DEF NamesFile
  <2>5. i \in Inodes /\ \A x \in Paths : tree[x] # i
    BY DEF Free, Used
  <2> HIDE DEF p
  <2>6. \A x \in Paths : tree'[x] = IF x = p THEN i ELSE tree[x]
    BY <1>1, <2>4
  <2>7. Rooted(tree')
    <3> SUFFICES ASSUME NEW x \in Paths, tree'[x] # Absent, NEW y \in Ancestors(x)
                 PROVE  tree'[y] = Dir
      BY DEF Rooted
    <3>1. y \in Paths
      BY PathsClosed DEF UpTo
    <3>2. tree[y] = Dir
      BY <1>1, <2>3, <2>6 DEF Rooted
    <3> QED BY <2>4, <2>6, <3>1, <3>2, Distinct
  <2>8. NoAlias(tree')
    BY <1>1, <2>5, <2>6 DEF NoAlias
  <2> QED BY <2>7, <2>8 DEF TreeOK
<1>5. ASSUME NEW t \in Tasks, DropsName(t) PROVE TreeOK'
  <2> DEFINE p == Source(t)
  <2>1. p \in Paths
    BY <1>5, SourceInPaths DEF DropsName, Running
  <2>2. tree[p] \in Inodes /\ tree' = [tree EXCEPT ![p] = Absent]
    BY <1>5 DEF DropsName
  <2> HIDE DEF p
  <2>3. \A x \in Paths : tree'[x] = IF x = p THEN Absent ELSE tree[x]
    BY <1>1, <2>2
  <2>4. Rooted(tree')
    <3> SUFFICES ASSUME NEW x \in Paths, tree'[x] # Absent, NEW y \in Ancestors(x)
                 PROVE  tree'[y] = Dir
      BY DEF Rooted
    <3>1. y \in Paths
      BY PathsClosed DEF UpTo
    <3>2. tree[y] = Dir
      BY <1>1, <2>3 DEF Rooted
    <3> QED BY <2>2, <2>3, <3>1, <3>2, Distinct
  <2>5. NoAlias(tree')
    BY <1>1, <2>3, Distinct DEF NoAlias
  <2> QED BY <2>4, <2>5 DEF TreeOK
<1> QED BY <1>2, <1>3, <1>4, <1>5, TreeSteps

(* However the steps of create_dir_all, open and unlink of any calls       *)
(* interleave, with errors, dropped futures and crashes between them, what *)
(* has a file or directory below it is a directory, and no file gets a     *)
(* second name under the root.                                             *)
THEOREM TreeStaysTree == Spec => []TreeOK
<1>1. Init => TreeOK
  BY LocalStorageAssumption DEF Init, TreeOK
<1>2. Typed /\ TreeOK /\ [Next]_vars => TreeOK'
  BY TreeOKStep
<1> QED BY <1>1, <1>2, AlwaysTyped, PTL DEF Spec

-----------------------------------------------------------------------------
(* Refinement of DirectoryTree                                             *)

LEMMA SameParts ==
    /\ \A p : Names!Ancestors(p) = Ancestors(p)
    /\ Names!Paths = Paths
<1>1. \A p : Names!Ancestors(p) = Ancestors(p)
  BY DEF Names!Ancestors, Ancestors
<1>2. \A p : Names!UpTo(p) = UpTo(p)
  BY <1>1 DEF Names!UpTo, UpTo
<1>3. Names!Paths = Paths
  BY <1>2 DEF Names!Paths, Paths
<1> QED BY <1>1, <1>3

LEMMA OutlineOf ==
    ASSUME tree \in [Paths -> Nodes], NEW p \in Paths
    PROVE  /\ Outline[p] = IF tree[p] \in Inodes THEN File ELSE tree[p]
           /\ tree[p] \in {Absent, Dir, Link} => Outline[p] = tree[p]
  BY Distinct DEF Outline

LEMMA OutlineInit ==
    ASSUME Init
    PROVE  Names!Init
<1>1. tree \in [Paths -> Nodes] /\ Rooted(tree)
  BY LocalStorageAssumption DEF Init
<1>2. Outline \in [Paths -> {Absent, Dir, Link, File}]
  BY <1>1 DEF Outline, Nodes
<1>3. Names!Rooted
  <2> SUFFICES ASSUME NEW p \in Paths, Outline[p] # Absent, NEW q \in Ancestors(p)
               PROVE  Outline[q] = Dir
    BY SameParts DEF Names!Rooted
  <2>1. q \in Paths
    BY PathsClosed DEF UpTo
  <2>2. tree[p] # Absent
    BY <1>1, OutlineOf
  <2>3. tree[q] = Dir
    BY <1>1, <2>2 DEF Rooted
  <2> QED BY <1>1, <2>1, <2>3, OutlineOf
<1> QED BY <1>2, <1>3, SameParts DEF Names!Init

LEMMA OutlineStep ==
    ASSUME Typed, Typed', [Next]_vars
    PROVE  [Names!Next]_Outline
<1>1. tree \in [Paths -> Nodes] /\ tree' \in [Paths -> Nodes]
  BY DEF Typed, StoreTyped
<1>2. \A p \in Paths :
         /\ Outline[p] = IF tree[p] \in Inodes THEN File ELSE tree[p]
         /\ Outline'[p] = IF tree'[p] \in Inodes THEN File ELSE tree'[p]
  BY DEF Outline
<1>3. CASE tree' = tree
  BY <1>3 DEF Outline
<1>4. ASSUME NEW t \in Tasks, MakesDirs(t) PROVE Names!Next
  <2>1. PICK q \in UpTo(Target(t)) : tree' = WithDirs(Ancestors(q))
    BY <1>4 DEF MakesDirs
  <2>2. q \in Paths /\ \A x \in Ancestors(q) : tree[x] \in {Dir, Absent}
    BY <1>4, <2>1, DirsClear DEF MakesDirs
  <2>3. \A x \in Ancestors(q) : x \in Paths
    BY <2>2, PathsClosed DEF UpTo
  <2>4. \A x \in Ancestors(q) : Outline[x] \in {Dir, Absent}
    BY <1>2, <2>2, <2>3, Distinct
  <2>5. \A x \in Paths : tree'[x] = IF x \in Ancestors(q) /\ tree[x] = Absent
                                    THEN Dir ELSE tree[x]
    BY <2>1 DEF WithDirs
  <2>6. \A x \in Paths : Outline'[x] = IF x \in Ancestors(q) THEN Dir ELSE Outline[x]
    BY <1>2, <2>2, <2>5, Distinct
  <2>7. Outline' = [x \in Paths |-> IF x \in Ancestors(q) THEN Dir ELSE Outline[x]]
    BY <2>6 DEF Outline
  <2>8. Names!MakeDirs(Names!Ancestors(q))
    BY <2>4, <2>7, SameParts DEF Names!MakeDirs
  <2> QED BY <2>2, <2>8, SameParts DEF Names!Next
<1>5. ASSUME NEW t \in Tasks, NEW i \in Free, NamesFile(t, i) PROVE Names!Next
  <2> DEFINE p == Target(t)
  <2>1. task[t].call \in Calls /\ IsRelative(task[t].call.to)
    BY <1>5 DEF NamesFile, Typed, TasksTyped, CallOK, Running
  <2>2. p \in Paths /\ p \in {FullPath(k) : k \in LegalKeys}
    BY <1>5, <2>1, TargetInPaths DEF NamesFile, Target, LegalKeys
  <2>3. \A q \in Ancestors(p) : q \in Paths /\ tree[q] = Dir
    BY <1>5, <2>2, PathsClosed DEF NamesFile, OpenForWrite, Reachable, UpTo
  <2>4. i \in Inodes /\ tree[p] = Absent /\ tree' = [tree EXCEPT ![p] = i]
    BY <1>5 DEF NamesFile, Free
  <2> HIDE DEF p
  <2>5. Outline[p] = Absent /\ \A q \in Ancestors(p) : Outline[q] = Dir
    BY <1>2, <2>2, <2>3, <2>4, Distinct
  <2>6. \A x \in Paths : Outline'[x] = IF x = p THEN File ELSE Outline[x]
    BY <1>1, <1>2, <2>2, <2>4
  <2>7. Outline' = [Outline EXCEPT ![p] = File]
    BY <2>6 DEF Outline
  <2>8. Names!AddFile(p)
    BY <2>5, <2>7, SameParts DEF Names!AddFile
  <2> QED BY <2>2, <2>8 DEF Names!Next
<1>6. ASSUME NEW t \in Tasks, DropsName(t) PROVE Names!Next
  <2> DEFINE p == Source(t)
  <2>1. task[t].call \in Calls /\ IsRelative(task[t].call.key)
    BY <1>6 DEF DropsName, Typed, TasksTyped, CallOK, Running
  <2>2. p \in Paths /\ p \in {FullPath(k) : k \in LegalKeys}
    BY <1>6, <2>1, PathOfKey DEF Source, LegalKeys
  <2>3. tree[p] \in Inodes /\ tree' = [tree EXCEPT ![p] = Absent]
    BY <1>6 DEF DropsName
  <2> HIDE DEF p
  <2>4. Outline[p] = File
    BY <1>2, <2>2, <2>3
  <2>5. \A x \in Paths : Outline'[x] = IF x = p THEN Absent ELSE Outline[x]
    BY <1>1, <1>2, <2>2, <2>3, Distinct
  <2>6. Outline' = [Outline EXCEPT ![p] = Absent]
    BY <2>5 DEF Outline
  <2>7. Names!RemoveFile(p)
    BY <2>4, <2>6 DEF Names!RemoveFile
  <2> QED BY <2>2, <2>7 DEF Names!Next
<1> QED BY <1>3, <1>4, <1>5, <1>6, TreeSteps

(* To the directory tree, any calls in any order are steps of              *)
(* DirectoryTree: what LocalListing assumes of the calls beside a listing. *)
THEOREM ImplementsDirectoryTree == Spec => KeepsDirectoryTree
<1>1. Init => Names!Init
  BY OutlineInit
<1>2. Typed /\ Typed' /\ [Next]_vars => [Names!Next]_Outline
  BY OutlineStep
<1> QED BY <1>1, <1>2, AlwaysTyped, PTL DEF Spec, KeepsDirectoryTree, Names!Spec

-----------------------------------------------------------------------------
(* A put finds its parents                                                 *)

LEMMA Begun ==
    ASSUME task \in [Tasks -> TaskType], NEW t \in Tasks, NEW c \in Calls, Begin(t, c)
    PROVE  /\ task'[t].call = c /\ c \in CallType
           /\ task'[t].pc \in {"mkdirs", "open", "stat", "unlink", "done"}
           /\ c.kind = "put" => task'[t].pc \in {"mkdirs", "done"}
           /\ task'[t].pc = "open" => c.kind = "get"
           /\ task'[t].pc # "done" => Admit(c) = "ok"
           /\ task'[t].pc = "done" => task'[t].res = Admit(c)
           /\ task'[t].rd = None /\ task'[t].wr = None
           /\ task'[t].buf = <<>>
           /\ UNCHANGED <<tree, content>>
<1> DEFINE ok == Admit(c) = "ok"
           begun == [Idle EXCEPT
               !.call = c,
               !.pc = IF ok THEN FirstStep(c) ELSE "done",
               !.res = IF ok THEN "none" ELSE Admit(c),
               !.alone = \A u \in Tasks :
                   task[u].pc \in Running => ~Disturbs(task[u].call, c),
               !.orig = IF IsRelative(c.key) THEN Object(FullPath(c.key))
                        ELSE None]
<1>1. task'[t] = begun /\ UNCHANGED <<tree, content>>
  BY DEF Begin
<1>2. /\ begun.call = c /\ begun.pc = IF ok THEN FirstStep(c) ELSE "done"
      /\ begun.res = IF ok THEN "none" ELSE Admit(c)
      /\ begun.rd = None /\ begun.wr = None /\ begun.buf = <<>>
  BY DEF Idle
<1> HIDE DEF begun
<1>3. c \in CallType
  BY LocalStorageAssumption
<1>4. /\ FirstStep(c) \in {"mkdirs", "open", "stat", "unlink"}
      /\ c.kind = "put" => FirstStep(c) = "mkdirs"
      /\ FirstStep(c) = "open" => c.kind = "get"
  BY <1>3 DEF FirstStep, CallType, Kinds, Readers, Movers
<1> QED BY <1>1, <1>2, <1>3, <1>4

LEMMA AdmitAnswers ==
    ASSUME NEW c \in Calls
    PROVE  /\ Admit(c) \in {"ok", "toolarge", "invalid", "io"}
           /\ Admit(c) = "ok" => Resolve(c.key) = "ok"
           /\ Admit(c) = "ok" /\ c.kind = "put" => ~(Len(c.data) > MaxFileSize)
  BY ResolveAnswers DEF Admit

(* put, copy and rename have made the parents when they open a file.       *)
Prepared(t) ==
    \/ task[t].pc = "create"
    \/ task[t].pc = "open" /\ task[t].call.kind # "get"

ParentsThere ==
    \A t \in Tasks : Prepared(t) => \A q \in Ancestors(Target(t)) : tree[q] = Dir

PutFinds ==
    \A t \in Tasks : task[t].pc = "done" /\ Kind(t) = "put"
                        => task[t].res # "notfound"

PutSafe == ParentsThere /\ PutFinds

LEMMA ParentsStay ==
    ASSUME Typed, [Next]_vars, NEW t \in Tasks, Prepared(t),
           \A q \in Ancestors(Target(t)) : tree[q] = Dir
    PROVE  \A q \in Ancestors(Target(t)) : tree'[q] = Dir
<1>1. IsRelative(task[t].call.to) /\ task[t].pc # "idle"
  BY DEF Prepared, Typed, TasksTyped, CallOK, Running
<1>2. \A q \in Ancestors(Target(t)) : q \in Paths
  BY <1>1, TargetInPaths, PathsClosed DEF UpTo
<1> QED BY <1>2, DirsAndLinksStay

LEMMA PutSafeStep ==
    ASSUME Typed, PutSafe, [Next]_vars
    PROVE  PutSafe'
<1> DEFINE there(t) == \A q \in Ancestors(Target(t)) : tree[q] = Dir
           safe(t) == /\ Prepared(t) => there(t)
                      /\ task[t].pc = "done" /\ task[t].call.kind = "put"
                            => task[t].res # "notfound"
<1>0. PutSafe <=> \A t \in Tasks : safe(t)
  BY DEF PutSafe, ParentsThere, PutFinds, Kind
<1>00. PutSafe' <=> \A t \in Tasks : safe(t)'
  BY DEF PutSafe, ParentsThere, PutFinds, Kind
<1> SUFFICES ASSUME NEW t \in Tasks PROVE safe(t)'
  BY <1>00
<1>a. safe(t)
  BY <1>0
<1>b. task \in [Tasks -> TaskType]
  BY DEF Typed, TasksTyped
<1>1. CASE Untouched(t)
  <2>1. CASE Prepared(t)
    <3>1. \A q \in Ancestors(Target(t)) : tree'[q] = Dir
      BY <1>a, <2>1, ParentsStay
    <3> QED BY <1>1, <1>a, <3>1 DEF Untouched, Target
  <2> QED BY <1>1, <1>a, <2>1 DEF Untouched, Prepared
<1>2. CASE task'[t] = Idle
  BY <1>2 DEF Idle, Prepared
<1>3. ASSUME NEW c \in Calls, Begin(t, c) PROVE safe(t)'
  BY <1>b, <1>3, Begun, AdmitAnswers DEF Prepared
<1>4. CASE MakeParents(t)
  <2>1. CASE Resolve(task[t].call.to) = "ok"
    <3>1. /\ tree' = WithDirs(Ancestors(Target(t)))
          /\ task'[t].call = task[t].call /\ task'[t].pc # "done"
      BY <1>4, <1>b, <2>1, Went DEF MakeParents
    <3>2. \A q \in Ancestors(Target(t)) : q \in Paths /\ tree[q] \in {Dir, Absent}
      BY <1>4, <2>1, ResolvedUnblocked, DirsClear, PathsClosed
         DEF MakeParents, At, UpTo
    <3>3. \A q \in Ancestors(Target(t)) : tree'[q] = Dir
      BY <3>1, <3>2 DEF WithDirs
    <3> QED BY <3>1, <3>3 DEF Target
  <2>2. CASE Resolve(task[t].call.to) # "ok"
    BY <1>4, <1>b, <2>2, Finished, ResolveAnswers
       DEF MakeParents, Prepared
  <2> QED BY <2>1, <2>2
<1>5. CASE OpenSource(t) \/ CopyRead(t) \/ CopyWrite(t)
  <2>1. task[t].pc \in {"open", "copyread", "copywrite"} /\ task[t].call.kind # "put"
    BY <1>5 DEF OpenSource, CopyRead, CopyWrite, At, Typed, TasksTyped, CallOK
  <2>2. CASE OpenSource(t)
    <3>1. CASE OpenForRead(Source(t)) # "ok"
      BY <1>b, <2>1, <2>2, <3>1, Finished DEF OpenSource, Prepared
    <3>2. CASE OpenForRead(Source(t)) = "ok"
      <4>1. /\ task'[t].call = task[t].call /\ task[t].pc = "open"
            /\ task'[t].pc = IF task[t].call.kind = "get" THEN "read" ELSE "create"
        BY <1>b, <2>2, <3>2 DEF OpenSource, At, Kind, TaskType
      <4>2. Prepared(t)' => Prepared(t)
        BY <4>1 DEF Prepared
      <4>3. Prepared(t) => \A q \in Ancestors(Target(t)) : tree'[q] = Dir
        BY <1>a, ParentsStay
      <4> QED BY <2>1, <4>1, <4>2, <4>3 DEF Target
    <3> QED BY <3>1, <3>2
  <2>3. CASE CopyRead(t)
    BY <1>b, <2>1, <2>3, Went DEF CopyRead, TaskType, Prepared
  <2>4. CASE CopyWrite(t)
    BY <1>b, <2>1, <2>4 DEF CopyWrite, TaskType, Prepared
  <2> QED BY <1>5, <2>2, <2>3, <2>4
<1>6. CASE Truncate(t) \/ Create(t)
  BY <1>6, <1>b, Finished DEF Truncate, Create, TaskType, Prepared
<1>7. CASE CreateFails(t)
  <2>1. Finish(t, OpenForWrite(Target(t))) /\ task[t].pc = "create"
    BY <1>7 DEF CreateFails, At
  <2>2. OpenForWrite(Target(t)) # "notfound"
    BY <1>a, <2>1 DEF OpenForWrite, Reachable, Prepared
  <2> QED BY <1>b, <2>1, <2>2, Finished DEF Prepared
<1>8. CASE Write(t)
  BY <1>8, <1>b, Finished DEF Write, At, TaskType, Prepared
<1>9. CASE Read(t)
  BY <1>9, <1>b, Finished DEF Read, At, TaskType, Prepared
<1>10. CASE Stat(t)
  <2>1. task[t].call.kind # "put"
    BY <1>10 DEF Stat, At, Typed, TasksTyped, CallOK
  <2>2. task'[t].call = task[t].call /\ task'[t].pc \in {"done", "unlink"}
    BY <1>10, <1>b, Finished DEF Stat, TaskType
  <2> QED BY <2>1, <2>2 DEF Prepared
<1>11. CASE Unlink(t)
  BY <1>11, <1>b, Finished, ResolveAnswers DEF Unlink, Prepared
<1>12. CASE MakeParentsFails(t) \/ Fail(t)
  BY <1>12, <1>b, Finished DEF MakeParentsFails, Fail, Prepared
<1> QED BY <1>b, <1>1, <1>2, <1>3, <1>4, <1>5, <1>6, <1>7, <1>8, <1>9, <1>10,
           <1>11, <1>12, Transitions DEF Moves, Advance

LEMMA PutSafeAlways == Spec => []PutSafe
<1>1. Init => PutSafe
  BY DEF Init, PutSafe, ParentsThere, Prepared, PutFinds, Idle
<1>2. Typed /\ PutSafe /\ [Next]_vars => PutSafe'
  BY PutSafeStep
<1> QED BY <1>1, <1>2, AlwaysTyped, PTL DEF Spec

(* No delete takes away the parents that a put has made before it opens    *)
(* its file: a put never answers NotFound.                                 *)
THEOREM PutFindsItsParents == Spec => []PutNeverNotFound
<1>1. PutSafe => PutNeverNotFound
  BY DEF PutSafe, PutFinds, PutNeverNotFound, At
<1> QED BY <1>1, PutSafeAlways, PTL
=============================================================================
