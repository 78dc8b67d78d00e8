---------------------------- MODULE RestoreProofs ----------------------------
(* Theorems about Restore, for any processes, branches, trees and bounds.     *)
EXTENDS Restore, TLAPS

\* The two halves of TypeOK.
RepositoryOK ==
    /\ refs \in [Branches -> Commits \cup {Absent}] /\ head \in Branches \cup Commits
    /\ config \in Configs
    /\ linked \subseteq Branches
    /\ index \in [Paths -> OnDisk] /\ work \in [Paths -> OnDisk]
    /\ Disjoint(index) /\ Disjoint(work)
    /\ pruned \subseteq Commits /\ head \notin pruned
    /\ log \in Seq(Snapshots) /\ log # <<>>

ProcessesOK ==
    /\ pc \in [Procs -> PCs] /\ outcome \in [Procs -> Outcomes]
    /\ target \in [Procs -> Snapshots] /\ current \in [Procs -> Snapshots]
    /\ \A p \in Procs :
        /\ pc[p] \in {"plan", "refs", "head", "reset", "metadata", "append"} =>
             checked[p].index \in [Paths -> OnDisk] /\ checked[p].work \in [Paths -> OnDisk]
        /\ pc[p] \in {"refs", "head", "reset", "metadata", "append"} =>
             plan[p].refs \in [Branches -> Commits \cup {Absent}]
    /\ quiet \in [Procs -> BOOLEAN]

CountersOK ==
    users \in 0 .. MaxUser /\ restores \in 0 .. MaxRestores /\ failures \in 0 .. MaxFailures

LEMMA TypeParts == TypeOK <=> RepositoryOK /\ ProcessesOK /\ CountersOK
BY DEF TypeOK, RepositoryOK, ProcessesOK, CountersOK

\* Every process has something checked and something planned.
RecordsOK == DOMAIN checked = Procs /\ DOMAIN plan = Procs

-----------------------------------------------------------------------------
(* Trees and files.                                                           *)

Trees == {tree \in [Paths -> Contents \cup {Absent}] : Disjoint(tree)}

LEMMA InTreeIsTree ==
    ASSUME refs \in [Branches -> Commits \cup {Absent}], NEW at \in Branches \cup Commits
    PROVE  InTree(at) \in Trees
<1>1. NoFiles \in Trees  BY DEF NoFiles, Trees, Disjoint
<1>2. \A commit \in Commits : Tree[commit] \in Trees  BY TreeAssumption DEF Trees
<1> QED  BY <1>1, <1>2 DEF InTree

LEMMA TreesAreOnDisk == Trees \subseteq [Paths -> OnDisk]
BY DEF Trees, OnDisk

LEMMA OverlappingFacts ==
    ASSUME NEW path \in Paths, NEW other \in Parents[path]
    PROVE  /\ other \in Paths /\ other # path
           /\ other \in Overlapping(path) /\ path \in Overlapping(other)
BY PathsAssumption DEF Overlapping

\* A file that is put somewhere displaces those it overlaps.
LEMMA HeldIsDisjoint ==
    ASSUME NEW held \in [Paths -> OnDisk], Disjoint(held),
           NEW path \in Paths, NEW contents \in OnDisk
    PROVE  Held(held, path, contents) \in [Paths -> OnDisk] /\ Disjoint(Held(held, path, contents))
<1> DEFINE new == Held(held, path, contents)
<1>1. \A other \in Paths : new[other] =
        IF other = path THEN contents
        ELSE IF contents # Absent /\ other \in Overlapping(path) THEN Absent ELSE held[other]
  BY DEF Held
<1>2. new \in [Paths -> OnDisk]  BY DEF Held, OnDisk
<1> HIDE DEF new
<1>3. ASSUME NEW a \in Paths, new[a] # Absent, NEW b \in Parents[a] PROVE new[b] = Absent
  <2>1. b \in Paths /\ b # a /\ b \in Overlapping(a) /\ a \in Overlapping(b)
    BY OverlappingFacts
  <2>2. held[a] # Absent => held[b] = Absent  BY DEF Disjoint
  <2> QED  BY <1>1, <1>3, <2>1, <2>2
<1>4. Disjoint(new)  BY <1>3 DEF Disjoint
<1> QED  BY <1>2, <1>4 DEF new

\* A tree that is put over files, and takes those that overlap it, or leaves
\* none that do, is disjoint from the rest.
LEMMA LaidOverIsDisjoint ==
    ASSUME NEW held \in [Paths -> OnDisk], Disjoint(held), NEW tree \in Trees,
           NEW taken \in SUBSET Paths,
           \A path \in taken : tree[path] # Absent =>
               \A other \in Overlapping(path) : other \in taken \/ held[other] = Absent,
           NEW new,
           new = [path \in Paths |-> IF path \in taken THEN tree[path] ELSE held[path]]
    PROVE  new \in [Paths -> OnDisk] /\ Disjoint(new)
<1>1. \A path \in Paths : new[path] = IF path \in taken THEN tree[path] ELSE held[path]  OBVIOUS
<1>2. new \in [Paths -> OnDisk]  BY TreesAreOnDisk
<1>3. ASSUME NEW a \in Paths, new[a] # Absent, NEW b \in Parents[a] PROVE new[b] = Absent
  <2>1. b \in Paths /\ b \in Overlapping(a) /\ a \in Overlapping(b)  BY OverlappingFacts
  <2>2. held[a] # Absent => held[b] = Absent  BY DEF Disjoint
  <2>3. tree[a] # Absent => tree[b] = Absent  BY DEF Trees, Disjoint
  <2> QED  BY <1>1, <1>3, <2>1, <2>2, <2>3
<1> QED  BY <1>2, <1>3 DEF Disjoint

-----------------------------------------------------------------------------
(* The types of the repository.                                               *)

LEMMA TipIsSnapshot ==
    ASSUME log \in Seq(Snapshots), log # <<>>
    PROVE  Tip \in Snapshots /\ Len(log) \in 1 .. Len(log)
BY DEF Tip

LEMMA AppendIsLog ==
    ASSUME log \in Seq(Snapshots), NEW snapshot \in Snapshots
    PROVE  Append(log, snapshot) \in Seq(Snapshots) /\ Append(log, snapshot) # <<>>
           /\ Append(log, snapshot)[Len(Append(log, snapshot))] = snapshot
OBVIOUS

LEMMA FilesStayDisjoint ==
    /\ Disjoint(index') \/ (index' = index /\ Disjoint(index)) => Disjoint(index)'
    /\ Disjoint(work') \/ (work' = work /\ Disjoint(work)) => Disjoint(work)'
BY DEF Disjoint

LEMMA TransactionTypes == RepositoryOK /\ Transaction => RepositoryOK'
<1> SUFFICES ASSUME RepositoryOK, Transaction PROVE RepositoryOK'  OBVIOUS
<1>1. PICK branch \in Branches, commit \in (Commits \cup {Absent}) \ pruned :
        /\ refs' = [refs EXCEPT ![branch] = commit]
        /\ Record([refs |-> refs', config |-> config])
  BY DEF Transaction
<1>2. refs' \in [Branches -> Commits \cup {Absent}]  BY <1>1 DEF RepositoryOK
<1>3. [refs |-> refs', config |-> config] \in Snapshots  BY <1>2 DEF RepositoryOK, Snapshots
<1>4. log' \in Seq(Snapshots) /\ log' # <<>>
  BY <1>1, <1>3, AppendIsLog DEF Record, RepositoryOK
<1> QED  BY <1>2, <1>4 DEF Transaction, RepositoryOK, Disjoint

LEMMA CheckoutTypes == RepositoryOK /\ Checkout => RepositoryOK'
<1> SUFFICES ASSUME RepositoryOK, Checkout PROVE RepositoryOK'  OBVIOUS
<1>1. PICK to \in (Branches \cup Commits) \ (pruned \cup CheckedOut \cup {head}) :
        LET before == InTree(head)
            after  == InTree(to)
            moved  == {path \in Paths : before[path] # after[path]}
        IN  /\ \A path \in moved : index[path] = before[path] /\ work[path] = before[path]
            /\ \A path \in moved : after[path] # Absent =>
                  \A other \in Overlapping(path) \ moved :
                      index[other] = Absent /\ work[other] = Absent
            /\ index' = [path \in Paths |-> IF path \in moved THEN after[path] ELSE index[path]]
            /\ work' = [path \in Paths |-> IF path \in moved THEN after[path] ELSE work[path]]
            /\ head' = to
  BY DEF Checkout
<1> DEFINE moved == {path \in Paths : InTree(head)[path] # InTree(to)[path]}
<1>2. InTree(to) \in Trees  BY <1>1, InTreeIsTree DEF RepositoryOK
<1>3. /\ \A path \in moved : InTree(to)[path] # Absent =>
             \A other \in Overlapping(path) \ moved : index[other] = Absent /\ work[other] = Absent
      /\ index' = [path \in Paths |-> IF path \in moved THEN InTree(to)[path] ELSE index[path]]
      /\ work' = [path \in Paths |-> IF path \in moved THEN InTree(to)[path] ELSE work[path]]
      /\ head' = to /\ moved \in SUBSET Paths
  BY <1>1
<1> HIDE DEF moved
<1>4. \A path \in moved : InTree(to)[path] # Absent => \A other \in Overlapping(path) :
         /\ other \in moved \/ index[other] = Absent
         /\ other \in moved \/ work[other] = Absent
  BY <1>3
<1>5. index' \in [Paths -> OnDisk] /\ Disjoint(index')
  <2>1. index \in [Paths -> OnDisk] /\ Disjoint(index)  BY DEF RepositoryOK
  <2> QED  BY <1>2, <1>3, <1>4, <2>1, LaidOverIsDisjoint
<1>6. work' \in [Paths -> OnDisk] /\ Disjoint(work')
  <2>1. work \in [Paths -> OnDisk] /\ Disjoint(work)  BY DEF RepositoryOK
  <2> QED  BY <1>2, <1>3, <1>4, <2>1, LaidOverIsDisjoint
<1> QED  BY <1>1, <1>3, <1>5, <1>6, FilesStayDisjoint DEF Checkout, RepositoryOK

LEMMA FilesTypes == RepositoryOK /\ (EditFile \/ Stage) => RepositoryOK'
<1> SUFFICES ASSUME RepositoryOK, EditFile \/ Stage PROVE RepositoryOK'  OBVIOUS
<1>1. CASE EditFile
  <2>1. PICK path \in Paths, contents \in {Mine, Absent} : work' = Held(work, path, contents)
    BY <1>1 DEF EditFile
  <2>2. contents \in OnDisk  BY DEF OnDisk
  <2>3. work' \in [Paths -> OnDisk] /\ Disjoint(work')
    BY <2>1, <2>2, HeldIsDisjoint DEF RepositoryOK
  <2> QED  BY <1>1, <2>3, FilesStayDisjoint DEF EditFile, RepositoryOK
<1>2. CASE Stage
  <2>1. PICK path \in Paths : index' = Held(index, path, work[path])  BY <1>2 DEF Stage
  <2>2. work[path] \in OnDisk  BY DEF RepositoryOK
  <2>3. index' \in [Paths -> OnDisk] /\ Disjoint(index')
    BY <2>1, <2>2, HeldIsDisjoint DEF RepositoryOK
  <2> QED  BY <1>2, <2>3, FilesStayDisjoint DEF Stage, RepositoryOK
<1> QED  BY <1>1, <1>2

LEMMA UsersTypes == RepositoryOK /\ Users => RepositoryOK'
<1> SUFFICES ASSUME RepositoryOK, Users PROVE RepositoryOK'  OBVIOUS
<1>1. CASE Worktree \/ EditConfig
  BY <1>1 DEF Worktree, EditConfig, RepositoryOK, Disjoint
<1>2. CASE Prune  BY <1>2 DEF Prune, RepositoryOK, Disjoint
<1> QED  BY <1>1, <1>2, TransactionTypes, CheckoutTypes, FilesTypes DEF Users

-----------------------------------------------------------------------------
(* The types of the processes and of what they write.                         *)

\* What the steps that write leave in the repository.
LEMMA StepsTypes ==
    ASSUME TypeOK, NEW p \in Procs, Step(p)
    PROVE  RepositoryOK'
<1>0. RepositoryOK /\ target[p] \in Snapshots
  BY TypeParts DEF ProcessesOK
<1>1. ASSUME UNCHANGED shared PROVE RepositoryOK'
  BY <1>0, <1>1, FilesStayDisjoint DEF shared, RepositoryOK
<1>2. CASE ApplyRefs(p)
  <2>1. refs' \in [Branches -> Commits \cup {Absent}]
    BY <1>0, <1>2 DEF ApplyRefs, RepositoryOK, Snapshots
  <2> QED  BY <1>0, <1>2, <2>1, FilesStayDisjoint DEF ApplyRefs, RepositoryOK
<1>3. CASE SetHead(p)
  <2>1. head' \in Branches \cup Commits /\ head' \notin pruned
    BY <1>0, <1>3, NamesAssumption DEF SetHead, RepositoryOK
  <2> QED  BY <1>0, <1>3, <2>1, FilesStayDisjoint DEF SetHead, RepositoryOK
<1>4. CASE ResetWorktree(p)
  <2>1. CASE UNCHANGED <<index, work>>
    BY <1>0, <1>4, <2>1, FilesStayDisjoint DEF ResetWorktree, RepositoryOK
  <2>2. CASE ~UNCHANGED <<index, work>>
    <3> DEFINE tree == InTree(head)
               taken == {path \in Paths : index[path] # Absent \/ InTheWay(path, tree)}
    <3>1. index' = tree /\ work' = [path \in Paths |-> IF path \in taken THEN tree[path] ELSE work[path]]
      BY <1>4, <2>2 DEF ResetWorktree
    <3>2. tree \in Trees  BY <1>0, InTreeIsTree DEF RepositoryOK
    <3>3. \A path \in taken : tree[path] # Absent =>
             \A other \in Overlapping(path) : other \in taken \/ work[other] = Absent
      <4> SUFFICES ASSUME NEW path \in Paths, tree[path] # Absent, NEW other \in Overlapping(path)
                   PROVE  other \in taken
        OBVIOUS
      <4>1. other \in Paths /\ path \in Overlapping(other)
        BY PathsAssumption DEF Overlapping
      <4> QED  BY <4>1 DEF InTheWay
    <3>4. taken \in SUBSET Paths  OBVIOUS
    <3> HIDE DEF tree, taken
    <3>5. index' \in [Paths -> OnDisk] /\ Disjoint(index')
      BY <3>1, <3>2, TreesAreOnDisk DEF Trees
    <3>6. work' \in [Paths -> OnDisk] /\ Disjoint(work')
      <4>1. work \in [Paths -> OnDisk] /\ Disjoint(work)  BY <1>0 DEF RepositoryOK
      <4> QED  BY <3>1, <3>2, <3>3, <3>4, <4>1, LaidOverIsDisjoint
    <3> QED  BY <1>0, <1>4, <3>5, <3>6, FilesStayDisjoint DEF ResetWorktree, RepositoryOK
  <2> QED  BY <2>1, <2>2
<1>5. CASE RestoreMetadata(p)
  <2>1. config' \in Configs  BY <1>0, <1>5 DEF RestoreMetadata, Snapshots
  <2> QED  BY <1>0, <1>5, <2>1, FilesStayDisjoint DEF RestoreMetadata, RepositoryOK
<1>6. CASE AppendOperation(p)
  <2>1. [refs |-> refs, config |-> config] \in Snapshots  BY <1>0 DEF RepositoryOK, Snapshots
  <2>2. log' \in Seq(Snapshots) /\ log' # <<>>
    BY <1>0, <1>6, <2>1, AppendIsLog DEF AppendOperation, RepositoryOK
  <2> QED  BY <1>0, <1>6, <2>2, FilesStayDisjoint DEF AppendOperation, RepositoryOK
<1> QED  BY <1>1, <1>2, <1>3, <1>4, <1>5, <1>6
         DEF Step, CaptureCurrent, VerifyObjects, RefuseRemoval, RefuseCollisions, PlanEdits, Reads

\* Where a step or an ending leads.
LEMMA PlacesTypes ==
    ASSUME pc \in [Procs -> PCs], outcome \in [Procs -> Outcomes], NEW p \in Procs
    PROVE  /\ \A step \in PCs : Goto(p, step) =>
                /\ pc' \in [Procs -> PCs] /\ outcome' \in [Procs -> Outcomes]
                /\ pc'[p] = step /\ \A q \in Procs \ {p} : pc'[q] = pc[q]
           /\ \A how \in Outcomes : Return(p, how) =>
                /\ pc' \in [Procs -> PCs] /\ outcome' \in [Procs -> Outcomes]
                /\ pc'[p] = "idle" /\ \A q \in Procs \ {p} : pc'[q] = pc[q]
                /\ outcome'[p] = how /\ \A q \in Procs \ {p} : outcome'[q] = outcome[q]
BY DEF Goto, Return, PCs

\* How a process gets from step to step, and what it then knows.
Known(p) ==
    /\ pc[p] \in {"plan", "refs", "head", "reset", "metadata", "append"} =>
         checked[p].index \in [Paths -> OnDisk] /\ checked[p].work \in [Paths -> OnDisk]
    /\ pc[p] \in {"refs", "head", "reset", "metadata", "append"} =>
         plan[p].refs \in [Branches -> Commits \cup {Absent}]

LEMMA StepsProcesses ==
    ASSUME TypeOK, RecordsOK, NEW p \in Procs, Begin(p) \/ Step(p) \/ Fail(p)
    PROVE  ProcessesOK' /\ RecordsOK'
<1>0. ProcessesOK /\ RepositoryOK  BY TypeParts
<1>1. quiet' \in [Procs -> BOOLEAN]
  BY <1>0 DEF ProcessesOK, Begin, Step, Fail, CaptureCurrent, VerifyObjects, RefuseRemoval,
     RefuseCollisions, PlanEdits, ApplyRefs, SetHead, ResetWorktree, RestoreMetadata,
     AppendOperation, Reads, Writes, Others
<1>2. target' \in [Procs -> Snapshots] /\ current' \in [Procs -> Snapshots]
  <2>1. CASE Begin(p)
    BY <1>0, <2>1 DEF Begin, ProcessesOK, RepositoryOK
  <2>2. CASE CaptureCurrent(p)
    BY <1>0, <2>2 DEF CaptureCurrent, ProcessesOK, RepositoryOK, Snapshots
  <2>3. CASE UNCHANGED <<target, current>>  BY <1>0, <2>3 DEF ProcessesOK
  <2> QED
    BY <2>1, <2>2, <2>3 DEF Step, Fail, VerifyObjects, RefuseRemoval, RefuseCollisions, PlanEdits,
       ApplyRefs, SetHead, ResetWorktree, RestoreMetadata, AppendOperation, locals
<1>3. RecordsOK'
  BY DEF RecordsOK, Begin, Step, Fail, CaptureCurrent, VerifyObjects, RefuseRemoval,
     RefuseCollisions, PlanEdits, ApplyRefs, SetHead, ResetWorktree, RestoreMetadata,
     AppendOperation, locals
<1>4. /\ pc' \in [Procs -> PCs] /\ outcome' \in [Procs -> Outcomes]
      /\ \A q \in Procs \ {p} : pc'[q] = pc[q]
  <2>1. \/ \E step \in PCs : Goto(p, step)
        \/ \E how \in Outcomes : Return(p, how)
    BY DEF Begin, Step, Fail, CaptureCurrent, VerifyObjects, RefuseRemoval,
       RefuseCollisions, PlanEdits, ApplyRefs, SetHead, ResetWorktree, RestoreMetadata,
       AppendOperation, PCs, Outcomes
  <2> QED  BY <1>0, <2>1, PlacesTypes DEF ProcessesOK
<1>5. \A q \in Procs \ {p} : checked'[q] = checked[q] /\ plan'[q] = plan[q]
  BY DEF RecordsOK, Begin, Step, Fail, CaptureCurrent, VerifyObjects, RefuseRemoval,
     RefuseCollisions, PlanEdits, ApplyRefs, SetHead, ResetWorktree, RestoreMetadata,
     AppendOperation, locals
<1>6. Known(p)'
  <2>0. Known(p)  BY <1>0 DEF ProcessesOK, Known
  <2>1. CASE Begin(p) \/ CaptureCurrent(p) \/ VerifyObjects(p) \/ RefuseRemoval(p) \/ Fail(p)
    BY <1>0, <2>1 DEF ProcessesOK, Known, Begin, CaptureCurrent, VerifyObjects, RefuseRemoval,
       Fail, Goto, Return
  <2>2. CASE RefuseCollisions(p)
    BY <1>0, <2>2 DEF ProcessesOK, RepositoryOK, RecordsOK, Known, RefuseCollisions, Goto, Return
  <2>3. CASE PlanEdits(p)
    BY <1>0, <2>0, <2>3 DEF ProcessesOK, RepositoryOK, RecordsOK, Known, PlanEdits, At, Goto
  <2>4. CASE ApplyRefs(p) \/ SetHead(p) \/ ResetWorktree(p) \/ RestoreMetadata(p) \/ AppendOperation(p)
    BY <1>0, <2>0, <2>4 DEF ProcessesOK, Known, ApplyRefs, SetHead, ResetWorktree, RestoreMetadata,
       AppendOperation, At, Goto, Return, locals
  <2> QED  BY <2>1, <2>2, <2>3, <2>4 DEF Step
<1>7. \A q \in Procs : Known(q)'
  <2> SUFFICES ASSUME NEW q \in Procs, q # p PROVE Known(q)'  BY <1>6
  <2> QED  BY <1>0, <1>4, <1>5 DEF ProcessesOK, Known
<1> QED  BY <1>1, <1>2, <1>3, <1>4, <1>7 DEF ProcessesOK, Known

LEMMA TypeInit == Init => TypeOK /\ RecordsOK
<1> SUFFICES ASSUME Init PROVE TypeOK /\ RecordsOK  OBVIOUS
<1>1. log \in Seq(Snapshots) /\ log # <<>>  BY LogAssumption DEF Init
<1>2. Tip \in Snapshots  BY <1>1, TipIsSnapshot
<1>3. refs \in [Branches -> Commits \cup {Absent}] /\ config \in Configs /\ head \in Branches \cup Commits
  BY <1>2, LogAssumption DEF Init, Snapshots
<1>4. index \in Trees  BY <1>3, InTreeIsTree DEF Init
<1>5. RepositoryOK  BY <1>1, <1>3, <1>4, TreesAreOnDisk DEF Init, RepositoryOK, Trees
<1>6. ProcessesOK /\ RecordsOK
  BY <1>2 DEF Init, ProcessesOK, RecordsOK, PCs, Outcomes
<1>7. CountersOK  BY BoundsAssumption DEF Init, CountersOK
<1> QED  BY <1>5, <1>6, <1>7, TypeParts

LEMMA TypeStep == TypeOK /\ RecordsOK /\ [Next]_vars => (TypeOK /\ RecordsOK)'
<1> SUFFICES ASSUME TypeOK, RecordsOK, [Next]_vars PROVE TypeOK' /\ RecordsOK'  OBVIOUS
<1>0. RepositoryOK /\ ProcessesOK /\ CountersOK  BY TypeParts
<1> SUFFICES RepositoryOK' /\ ProcessesOK' /\ CountersOK' /\ RecordsOK'
  BY TypeParts, PTL
<1>1. CASE Users
  <2>1. PICK kind : User(kind)
    BY <1>1 DEF Users, Transaction, Checkout, Worktree, EditFile, Stage, EditConfig, Prune
  <2>2. ProcessesOK' /\ RecordsOK'
    BY <1>0, <2>1 DEF User, ProcessesOK, RecordsOK, locals
  <2>3. CountersOK'  BY <1>0, <2>1, BoundsAssumption DEF User, CountersOK
  <2> QED  BY <1>0, <1>1, <2>2, <2>3, UsersTypes
<1>2. ASSUME NEW p \in Procs, Begin(p) \/ Step(p) \/ Fail(p)
      PROVE  RepositoryOK' /\ ProcessesOK' /\ CountersOK' /\ RecordsOK'
  <2>1. ProcessesOK' /\ RecordsOK'  BY <1>2, StepsProcesses
  <2>2. RepositoryOK'
    BY <1>0, <1>2, StepsTypes, FilesStayDisjoint DEF Begin, Fail, shared, RepositoryOK
  <2>3. CountersOK'
    BY <1>0, <1>2, BoundsAssumption DEF CountersOK, Begin, Step, Fail, CaptureCurrent,
       VerifyObjects, RefuseRemoval, RefuseCollisions, PlanEdits, ApplyRefs, SetHead,
       ResetWorktree, RestoreMetadata, AppendOperation, At
  <2> QED  BY <2>1, <2>2, <2>3
<1>3. CASE UNCHANGED vars
  <2>1. RepositoryOK'  BY <1>0, <1>3, FilesStayDisjoint DEF vars, shared, RepositoryOK
  <2>2. ProcessesOK' /\ CountersOK' /\ RecordsOK'
    BY <1>0, <1>3 DEF vars, locals, boundVars, ProcessesOK, CountersOK, RecordsOK
  <2> QED  BY <2>1, <2>2
<1> QED  BY <1>1, <1>2, <1>3 DEF Next, Rest

\* Type correctness; no path ever holds a file while one inside it does.
THEOREM TypeInvariant == Spec => []TypeOK
BY TypeInit, TypeStep, PTL DEF Spec

-----------------------------------------------------------------------------
(* What a process has checked still says something when it acts on it.        *)

\* The snapshot's commits existed when that was checked; what was pruned stays so.
Verified(p) ==
    pc[p] \in {"branches", "collisions", "plan", "refs"} =>
        /\ checked[p].pruned \subseteq pruned
        /\ checked[p].pruned = pruned => Targets(target[p]) \cap pruned = {}

\* The snapshot has every branch that was checked out then.
Guarded(p) ==
    pc[p] \in {"collisions", "plan", "refs"} =>
        \A branch \in checked[p].branches : target[p].refs[branch] # Absent

\* None of the trees predicted then is in the way of local work of that time.
Clear(p) ==
    pc[p] \in {"plan", "refs", "head", "reset"} =>
        \A tree \in checked[p].trees, path \in Paths :
            /\ checked[p].index[path] # Mine
            /\ checked[p].work[path] = Mine => checked[p].index[path] = Absent /\ ~InTheWay(path, tree)

SafetyInv == \A p \in Procs : Verified(p) /\ Guarded(p) /\ Clear(p)

\* A process changes nothing of another's, and none prunes.
LEMMA StepFrame ==
    ASSUME TypeOK, RecordsOK, NEW p \in Procs, Begin(p) \/ Step(p) \/ Fail(p), NEW q \in Procs, q # p
    PROVE  /\ pruned' = pruned
           /\ pc'[q] = pc[q] /\ outcome'[q] = outcome[q]
           /\ target'[q] = target[q] /\ checked'[q] = checked[q] /\ plan'[q] = plan[q]
BY DEF TypeOK, RecordsOK, Begin, Step, Fail, CaptureCurrent, VerifyObjects, RefuseRemoval,
   RefuseCollisions, PlanEdits, ApplyRefs, SetHead, ResetWorktree, RestoreMetadata, AppendOperation,
   Goto, Return, Reads, shared, locals

\* A collision is found wherever a tree is in the way of local work.
LEMMA CollisionsFindWork ==
    ASSUME TypeOK, NEW tree \in Trees, Collisions(tree) = {}, NEW path \in Paths
    PROVE  /\ index[path] # Mine
           /\ work[path] = Mine => index[path] = Absent /\ ~InTheWay(path, tree)
<1>1. InTree(head) \in Trees  BY InTreeIsTree DEF TypeOK
<1>2. tree[path] # Mine /\ InTree(head)[path] # Mine  BY <1>1, NamesAssumption DEF Trees
<1>3. index[path] # Mine
  <2> SUFFICES ASSUME index[path] = Mine PROVE path \in Collisions(tree)  OBVIOUS
  <2> QED  BY <1>2 DEF Collisions, Staged, Differing
<1>4. ASSUME work[path] = Mine PROVE index[path] = Absent /\ ~InTheWay(path, tree)
  <2>1. Mine # Absent  BY NamesAssumption
  <2>2. index[path] = Absent
    <3> SUFFICES ASSUME index[path] # Absent PROVE path \in Collisions(tree)  OBVIOUS
    <3> QED  BY <1>3, <1>4, <2>1 DEF Collisions, WorktreeModified
  <2>3. ~InTheWay(path, tree)
    <3> SUFFICES ASSUME InTheWay(path, tree) PROVE path \in Collisions(tree)  OBVIOUS
    <3> QED  BY <1>4, <2>1, <2>2 DEF Collisions, Overwritten, Untracked
  <2> QED  BY <2>2, <2>3
<1> QED  BY <1>3, <1>4

LEMMA PredictedAreTrees ==
    ASSUME TypeOK, NEW p \in Procs
    PROVE  Predicted(p) \subseteq Trees
<1>1. \A commit \in Commits : Tree[commit] \in Trees  BY TreeAssumption DEF Trees
<1>2. head \in Branches => target[p].refs[head] \in Commits \cup {Absent}
  BY DEF TypeOK, Snapshots
<1> QED  BY <1>1, <1>2 DEF Predicted, TypeOK

LEMMA SafetyStep == TypeOK /\ RecordsOK /\ SafetyInv /\ [Next]_vars => SafetyInv'
<1> SUFFICES ASSUME TypeOK, RecordsOK, SafetyInv, [Next]_vars PROVE SafetyInv'  OBVIOUS
<1>1. ASSUME NEW q \in Procs, pruned \subseteq pruned',
             pc'[q] = pc[q], target'[q] = target[q], checked'[q] = checked[q]
      PROVE  Verified(q)' /\ Guarded(q)' /\ Clear(q)'
  <2>1. Verified(q) /\ Guarded(q) /\ Clear(q)  BY DEF SafetyInv
  <2>2. Verified(q)'  BY <1>1, <2>1 DEF Verified, Targets
  <2>3. Guarded(q)'  BY <1>1, <2>1 DEF Guarded
  <2>4. Clear(q)'  BY <1>1, <2>1 DEF Clear, InTheWay, Overlapping
  <2> QED  BY <2>2, <2>3, <2>4
<1>2. CASE Users \/ UNCHANGED vars
  <2>1. UNCHANGED <<pc, target, checked>> /\ pruned \subseteq pruned'
    BY <1>2 DEF Users, User, Transaction, Checkout, Worktree, EditFile, Stage, EditConfig, Prune,
       locals, vars, shared
  <2> QED  BY <1>1, <2>1 DEF SafetyInv
<1>3. ASSUME NEW p \in Procs, Begin(p) \/ Step(p) \/ Fail(p)
      PROVE  SafetyInv'
  <2>1. Verified(p) /\ Guarded(p) /\ Clear(p)  BY DEF SafetyInv
  <2>2. Verified(p)' /\ Guarded(p)' /\ Clear(p)'
    <3>1. CASE Begin(p) \/ CaptureCurrent(p) \/ RestoreMetadata(p) \/ AppendOperation(p) \/ Fail(p)
      BY <1>3, <3>1 DEF TypeOK, Begin, CaptureCurrent, RestoreMetadata, AppendOperation, Fail, Goto,
         Return, Verified, Guarded, Clear
    <3>2. CASE VerifyObjects(p)
      BY <1>3, <3>2 DEF TypeOK, RecordsOK, VerifyObjects, Reads, shared, Goto, Return, Verified, Guarded,
         Clear, Targets
    <3>3. CASE RefuseRemoval(p)
      <4>1. Verified(p)'
        BY <2>1, <3>3 DEF TypeOK, RecordsOK, RefuseRemoval, At, Reads, shared, Goto, Return, Verified,
           Targets
      <4>2. Guarded(p)' /\ Clear(p)'
        BY <3>3 DEF TypeOK, RecordsOK, RefuseRemoval, CheckedOutRemoval, Goto, Return, Guarded, Clear
      <4> QED  BY <4>1, <4>2
    <3>4. CASE RefuseCollisions(p)
      <4>0. UNCHANGED <<index, work, pruned, target>> /\ pc[p] = "collisions"
        BY <3>4 DEF RefuseCollisions, Reads, shared, At
      <4>1. /\ checked'[p].pruned = checked[p].pruned /\ checked'[p].branches = checked[p].branches
            /\ checked'[p].trees = Predicted(p)
            /\ checked'[p].index = index /\ checked'[p].work = work
        BY <3>4 DEF RecordsOK, RefuseCollisions
      <4>2. pc'[p] \in {"idle", "plan"}
            /\ (pc'[p] = "plan" => \A tree \in Predicted(p) : Collisions(tree) = {})
        BY <3>4 DEF TypeOK, RefuseCollisions, Goto, Return
      <4>3. Verified(p)' /\ Guarded(p)'
        BY <2>1, <4>0, <4>1, <4>2 DEF Verified, Guarded, Targets
      <4>4. Clear(p)'
        <5> SUFFICES ASSUME pc'[p] = "plan", NEW tree \in Predicted(p), NEW path \in Paths
                     PROVE  /\ index[path] # Mine
                            /\ work[path] = Mine => index[path] = Absent /\ ~InTheWay(path, tree)
          BY <4>1, <4>2 DEF Clear, InTheWay, Overlapping
        <5> QED  BY <4>2, PredictedAreTrees, CollisionsFindWork
      <4> QED  BY <4>3, <4>4
    <3>5. CASE PlanEdits(p) \/ ApplyRefs(p) \/ SetHead(p)
      <4>1. UNCHANGED <<pruned, target, checked>>
        BY <3>5 DEF PlanEdits, ApplyRefs, SetHead, Reads, shared, locals
      <4>2. \/ pc[p] = "plan" /\ pc'[p] = "refs"
            \/ pc[p] = "refs" /\ pc'[p] = "head"
            \/ pc[p] = "head" /\ pc'[p] = "reset"
            \/ pc'[p] = "idle"
        BY <3>5 DEF TypeOK, PlanEdits, ApplyRefs, SetHead, At, Goto, Return
      <4>3. Verified(p)' /\ Guarded(p)'  BY <2>1, <4>1, <4>2 DEF Verified, Guarded, Targets
      <4>4. Clear(p)'  BY <2>1, <4>1, <4>2 DEF Clear, InTheWay, Overlapping
      <4> QED  BY <4>3, <4>4
    <3>6. CASE ResetWorktree(p)
      BY <3>6 DEF TypeOK, ResetWorktree, Goto, Return, Verified, Guarded, Clear
    <3> QED  BY <1>3, <3>1, <3>2, <3>3, <3>4, <3>5, <3>6 DEF Step
  <2>3. ASSUME NEW q \in Procs, q # p PROVE Verified(q)' /\ Guarded(q)' /\ Clear(q)'
    BY <1>1, <1>3, <2>3, StepFrame
  <2> QED  BY <2>2, <2>3 DEF SafetyInv
<1> QED  BY <1>2, <1>3 DEF Next, Rest

LEMMA SafetyInit == Init => SafetyInv
BY DEF Init, SafetyInv, Verified, Guarded, Clear

\* Which step it is that is seen from outside.
LEMMA StepsSeen ==
    ASSUME TypeOK, RecordsOK, [Next]_vars, NEW p \in Procs, AppliesRefs(p) \/ Resets(p)
    PROVE  (AppliesRefs(p) => ApplyRefs(p)) /\ (Resets(p) => ResetWorktree(p))
<1>1. pc'[p] # pc[p]  BY DEF AppliesRefs, Resets
<1>2. Begin(p) \/ Step(p) \/ Fail(p)
  <2>1. ~(Users \/ UNCHANGED vars)
    BY <1>1 DEF Users, User, Transaction, Checkout, Worktree, EditFile, Stage, EditConfig, Prune, vars
  <2>2. ASSUME NEW q \in Procs, q # p, Begin(q) \/ Step(q) \/ Fail(q) PROVE FALSE
    BY <1>1, <2>2, StepFrame
  <2> QED  BY <2>1, <2>2 DEF Next, Rest
<1> QED
  BY <1>2 DEF TypeOK, AppliesRefs, Resets, Begin, Step, Fail, CaptureCurrent, VerifyObjects,
     RefuseRemoval, RefuseCollisions, PlanEdits, ApplyRefs, SetHead, ResetWorktree, RestoreMetadata,
     AppendOperation, At, Goto, Return

\* The transaction overwrites nothing unread, deletes no branch that is checked
\* out, and leaves no ref on a pruned object.
THEOREM TransactionsAreSafe == Spec => SafeTransaction
<1> DEFINE Safe(p) ==
      /\ \A branch \in CheckedOut \cap checked[p].branches : refs'[branch] # Absent
      /\ \A branch \in Branches : refs'[branch] # refs[branch] =>
           /\ refs[branch] = plan[p].refs[branch]
           /\ pruned = checked[p].pruned => refs'[branch] \notin pruned
<1>1. ASSUME TypeOK, RecordsOK, SafetyInv, [Next]_vars, NEW p \in Procs, AppliesRefs(p)
      PROVE  Safe(p)
  <2>1. ApplyRefs(p)  BY <1>1, StepsSeen
  <2>2. /\ \A branch \in Edited(p) : refs[branch] = plan[p].refs[branch]
        /\ refs' = [branch \in Branches |->
                      IF branch \in Edited(p) THEN target[p].refs[branch] ELSE refs[branch]]
    BY <1>1, <2>1 DEF ApplyRefs, AppliesRefs, AsExpected, Return, TypeOK
  <2>3. pc[p] = "refs" /\ Verified(p) /\ Guarded(p)  BY <1>1 DEF AppliesRefs, SafetyInv
  <2>4. CheckedOut \subseteq Branches  BY <1>1 DEF TypeOK, CheckedOut
  <2>5. ASSUME NEW branch \in CheckedOut \cap checked[p].branches PROVE refs'[branch] # Absent
    <3>1. target[p].refs[branch] # Absent  BY <2>3, <2>5 DEF Guarded
    <3>2. branch \in Edited(p)  BY <2>4, <3>1 DEF Edited
    <3> QED  BY <2>2, <2>4, <3>1, <3>2
  <2>6. ASSUME NEW branch \in Branches, refs'[branch] # refs[branch], pruned = checked[p].pruned
        PROVE  refs'[branch] \notin pruned
    <3>1. refs'[branch] = target[p].refs[branch]  BY <2>2, <2>6
    <3>2. Absent \notin pruned  BY <1>1, NamesAssumption DEF TypeOK
    <3>3. Targets(target[p]) \cap pruned = {}  BY <2>3, <2>6 DEF Verified
    <3> QED  BY <3>1, <3>2, <3>3 DEF Targets
  <2> QED  BY <2>2, <2>5, <2>6
<1>2. TypeOK /\ RecordsOK /\ SafetyInv /\ [Next]_vars =>
        [\A p \in Procs : AppliesRefs(p) => Safe(p)]_vars
  BY <1>1
<1> QED  BY <1>2, TypeInit, TypeStep, SafetyInit, SafetyStep, PTL DEF Spec, SafeTransaction

\* The reset discards no local work that was there when it was looked for.
THEOREM LocalWorkIsKept == Spec => LocalWorkKept
<1> DEFINE Kept(p) ==
      \A path \in Paths :
        index[path] = checked[p].index[path] /\ work[path] = checked[p].work[path] =>
            /\ index[path] = Mine => index'[path] = Mine
            /\ work[path] = Mine => work'[path] = Mine
<1>1. ASSUME TypeOK, RecordsOK, SafetyInv, [Next]_vars,
             NEW p \in Procs, Resets(p), InTree(head) \in checked[p].trees
      PROVE  Kept(p)
  <2> SUFFICES ASSUME NEW path \in Paths,
                      index[path] = checked[p].index[path], work[path] = checked[p].work[path]
               PROVE  /\ index[path] = Mine => index'[path] = Mine
                      /\ work[path] = Mine => work'[path] = Mine
    OBVIOUS
  <2>1. ResetWorktree(p)  BY <1>1, StepsSeen
  <2>2. work'[path] = IF index[path] # Absent \/ InTheWay(path, InTree(head))
                      THEN InTree(head)[path] ELSE work[path]
    BY <1>1, <2>1 DEF ResetWorktree, Resets, Return, TypeOK
  <2>3. /\ index[path] # Mine
        /\ work[path] = Mine => index[path] = Absent /\ ~InTheWay(path, InTree(head))
    BY <1>1 DEF SafetyInv, Clear, Resets
  <2> QED  BY <2>2, <2>3
<1>2. TypeOK /\ RecordsOK /\ SafetyInv /\ [Next]_vars =>
        [\A p \in Procs : Resets(p) /\ InTree(head) \in checked[p].trees => Kept(p)]_vars
  BY <1>1
<1> QED  BY <1>2, TypeInit, TypeStep, SafetyInit, SafetyStep, PTL DEF Spec, LocalWorkKept

-----------------------------------------------------------------------------
(* A restore that nobody disturbs does what it reports.                       *)

OnTree == /\ index = InTree(head)
          /\ \A path \in Paths : InTree(head)[path] # Absent => work[path] = InTree(head)[path]

\* What each step has brought about, as long as nothing else has changed.
Progress(p) ==
    /\ pc[p] \in {"collisions", "plan", "refs", "head", "reset", "metadata", "append"} =>
         checked[p].head = head
    /\ pc[p] \in {"refs", "head"} => plan[p].head = head
    /\ pc[p] = "refs" => plan[p].refs = refs
    /\ pc[p] \in {"head", "reset", "metadata", "append"} => refs = target[p].refs
    /\ pc[p] \in {"metadata", "append"} => OnTree
    /\ pc[p] = "append" => config = target[p].config
    /\ pc[p] = "idle" /\ outcome[p] = "applied" =>
         /\ [refs |-> refs, config |-> config] = target[p] /\ Tip = target[p]
         /\ head = checked[p].head
         /\ OnTree

QuietInv == \A p \in Procs : quiet[p] => Progress(p)

LEMMA OnTreeFrame == OnTree /\ UNCHANGED <<index, work, head, refs>> => OnTree'
BY DEF OnTree, InTree

LEMMA ProgressFrame ==
    ASSUME NEW q \in Procs, Progress(q), UNCHANGED shared, pc'[q] = pc[q], outcome'[q] = outcome[q],
           target'[q] = target[q], checked'[q] = checked[q], plan'[q] = plan[q]
    PROVE  Progress(q)'
<1>1. OnTree => OnTree'  BY OnTreeFrame DEF shared
<1>2. Tip' = Tip  BY DEF Tip, shared
<1> QED  BY <1>1, <1>2 DEF Progress, shared

\* Whoever writes ends the quiet of the others.
LEMMA WritesEndQuiet ==
    ASSUME TypeOK, NEW p \in Procs, Begin(p) \/ Step(p) \/ Fail(p),
           NEW q \in Procs, q # p, quiet'[q]
    PROVE  quiet[q] /\ UNCHANGED shared
<1>1. CASE Begin(p) \/ Fail(p)  BY <1>1 DEF TypeOK, Begin, Fail
<1>2. CASE CaptureCurrent(p) \/ VerifyObjects(p) \/ RefuseRemoval(p) \/ RefuseCollisions(p) \/ PlanEdits(p)
  BY <1>2 DEF CaptureCurrent, VerifyObjects, RefuseRemoval, RefuseCollisions, PlanEdits, Reads
<1>3. CASE ApplyRefs(p)  BY <1>3 DEF ApplyRefs, Writes, Others, shared
<1>4. CASE SetHead(p) \/ RestoreMetadata(p) \/ AppendOperation(p)
  BY <1>4 DEF SetHead, RestoreMetadata, AppendOperation, Writes, Others
<1>5. CASE ResetWorktree(p)  BY <1>5 DEF ResetWorktree, Writes, Others, shared
<1> QED  BY <1>1, <1>2, <1>3, <1>4, <1>5 DEF Step

\* The transaction makes the refs those of the snapshot.
LEMMA AppliedRefs ==
    ASSUME TypeOK, NEW p \in Procs, AsExpected(p), plan[p].refs = refs,
           refs' = [branch \in Branches |->
                      IF branch \in Edited(p) THEN target[p].refs[branch] ELSE refs[branch]]
    PROVE  refs' = target[p].refs
<1>1. target[p].refs \in [Branches -> Commits \cup {Absent}]  BY DEF TypeOK, Snapshots
<1>2. ASSUME NEW branch \in Branches PROVE refs'[branch] = target[p].refs[branch]
  BY DEF Edited
<1> QED  BY <1>1, <1>2

LEMMA QuietOwnStep ==
    ASSUME TypeOK, RecordsOK, NEW p \in Procs, Begin(p) \/ Step(p) \/ Fail(p),
           quiet[p] => Progress(p), quiet'[p]
    PROVE  Progress(p)'
<1>1. CASE Begin(p)  BY <1>1 DEF TypeOK, Begin, Goto, Progress
<1>2. CASE Fail(p)  BY <1>2 DEF TypeOK, Fail, Return, Progress
<1>3. CASE CaptureCurrent(p)  BY <1>3 DEF TypeOK, CaptureCurrent, Goto, Progress
<1>4. CASE VerifyObjects(p)  BY <1>4 DEF TypeOK, VerifyObjects, Goto, Return, Progress
<1>5. CASE RefuseRemoval(p)
  BY <1>5 DEF TypeOK, RecordsOK, RefuseRemoval, Reads, shared, Goto, Return, Progress
<1>6. CASE RefuseCollisions(p)
  <2>1. quiet[p] /\ pc[p] = "collisions" /\ head' = head  BY <1>6 DEF RefuseCollisions, At, Reads, shared
  <2> QED  BY <1>6, <2>1 DEF TypeOK, RecordsOK, RefuseCollisions, Goto, Return, Progress
<1>7. CASE PlanEdits(p)
  <2>1. quiet[p] /\ pc[p] = "plan" /\ UNCHANGED <<head, refs, checked>>
    BY <1>7 DEF PlanEdits, At, Reads, shared
  <2> QED  BY <1>7, <2>1 DEF TypeOK, RecordsOK, PlanEdits, Goto, Progress
<1>8. CASE ApplyRefs(p)
  <2>1. quiet[p]  BY <1>8 DEF ApplyRefs, Writes, Others
  <2>2. pc[p] = "refs" /\ UNCHANGED <<head, checked, plan, target>>  BY <1>8 DEF ApplyRefs, At, locals
  <2>3. CASE Return(p, "ref_race")  BY <2>3 DEF TypeOK, Return, Progress
  <2>4. CASE AsExpected(p) /\ Goto(p, "head")
    <3>1. plan[p].refs = refs  BY <2>1, <2>2 DEF Progress
    <3>2. refs' = target[p].refs
      BY <1>8, <2>4, <3>1, AppliedRefs DEF ApplyRefs
    <3> QED  BY <2>1, <2>2, <2>4, <3>2 DEF TypeOK, Goto, Progress
  <2> QED  BY <1>8, <2>3, <2>4 DEF ApplyRefs
<1>9. CASE SetHead(p)
  <2>1. quiet[p] /\ pc[p] = "head" /\ UNCHANGED <<refs, checked, plan, target>>
    BY <1>9 DEF SetHead, At, locals, Writes, Others
  <2>2. head' = head  BY <1>9, <2>1 DEF SetHead, Progress
  <2> QED  BY <1>9, <2>1, <2>2 DEF TypeOK, SetHead, Goto, Progress
<1>10. CASE ResetWorktree(p)
  <2>1. quiet[p] /\ pc[p] = "reset" /\ UNCHANGED <<refs, head, checked, plan, target>>
    BY <1>10 DEF ResetWorktree, At, locals, Writes, Others
  <2>2. CASE Return(p, "failed")  BY <2>2 DEF TypeOK, Return, Progress
  <2>3. CASE ~Return(p, "failed")
    <3>1. /\ index' = InTree(head) /\ Goto(p, "metadata")
          /\ work' = [path \in Paths |-> IF index[path] # Absent \/ InTheWay(path, InTree(head))
                                         THEN InTree(head)[path] ELSE work[path]]
      BY <1>10, <2>3 DEF ResetWorktree
    <3>2. \A path \in Paths : InTree(head)[path] # Absent => work'[path] = InTree(head)[path]
      BY <3>1 DEF InTheWay
    <3>3. OnTree'  BY <2>1, <3>1, <3>2 DEF OnTree, InTree
    <3> QED  BY <2>1, <3>1, <3>3 DEF TypeOK, Goto, Progress
  <2> QED  BY <2>2, <2>3
<1>11. CASE RestoreMetadata(p)
  <2>1. /\ quiet[p] /\ pc[p] = "metadata" /\ UNCHANGED <<refs, head, index, work, checked, plan, target>>
        /\ config' = target[p].config
    BY <1>11 DEF RestoreMetadata, At, locals, Writes, Others
  <2>2. OnTree'  BY <2>1, OnTreeFrame DEF Progress
  <2> QED  BY <1>11, <2>1, <2>2 DEF TypeOK, RestoreMetadata, Goto, Progress
<1>12. CASE AppendOperation(p)
  <2>1. /\ quiet[p] /\ pc[p] = "append"
        /\ UNCHANGED <<refs, head, config, index, work, checked, plan, target>>
    BY <1>12 DEF AppendOperation, At, locals, Writes, Others
  <2>2. OnTree'  BY <2>1, OnTreeFrame DEF Progress
  <2>3. target[p] = [refs |-> refs, config |-> config]
    BY <2>1 DEF Progress, TypeOK, Snapshots
  <2>4. Tip' = target[p]
    BY <1>12, <2>3, AppendIsLog DEF AppendOperation, TypeOK, Tip
  <2>5. pc'[p] = "idle"  BY <1>12 DEF TypeOK, AppendOperation, Return
  <2> QED  BY <2>1, <2>2, <2>3, <2>4, <2>5 DEF Progress
<1> QED  BY <1>1, <1>2, <1>3, <1>4, <1>5, <1>6, <1>7, <1>8, <1>9, <1>10, <1>11, <1>12 DEF Step

LEMMA QuietStep == TypeOK /\ RecordsOK /\ QuietInv /\ [Next]_vars => QuietInv'
<1> SUFFICES ASSUME TypeOK, RecordsOK, QuietInv, [Next]_vars, NEW q \in Procs, quiet'[q]
             PROVE  Progress(q)'
  BY DEF QuietInv
<1>1. CASE Users
  BY <1>1 DEF Users, User, Transaction, Checkout, Worktree, EditFile, Stage, EditConfig, Prune
<1>2. CASE UNCHANGED vars
  BY <1>2, ProgressFrame DEF vars, locals, QuietInv
<1>3. ASSUME NEW p \in Procs, Begin(p) \/ Step(p) \/ Fail(p) PROVE Progress(q)'
  <2>1. CASE q = p  BY <1>3, <2>1, QuietOwnStep DEF QuietInv
  <2>2. CASE q # p
    <3>1. quiet[q] /\ UNCHANGED shared  BY <1>3, <2>2, WritesEndQuiet
    <3> QED  BY <1>3, <2>2, <3>1, StepFrame, ProgressFrame DEF QuietInv
  <2> QED  BY <2>1, <2>2
<1> QED  BY <1>1, <1>2, <1>3 DEF Next, Rest

LEMMA QuietInit == Init => QuietInv
BY DEF Init, QuietInv, Progress

\* An undisturbed restore ends in the state of its snapshot, and records it.
THEOREM AppliedMeansTarget == Spec => []AppliedIsTarget
<1>1. QuietInv => AppliedIsTarget  BY DEF QuietInv, Progress, OnTree, AppliedIsTarget
<1> QED  BY <1>1, TypeInit, TypeStep, QuietInit, QuietStep, PTL DEF Spec
=============================================================================
