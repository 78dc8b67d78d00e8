------------------------------ MODULE Restore -------------------------------
(* Applying a recorded state: what git op restore, undo and redo do once the  *)
(* snapshot to apply is chosen (apply_action_with_trailers).                  *)
(*                                                                            *)
(* Nothing is locked.  A process makes four checks, each on what it reads at  *)
(* that moment, then changes the refs in one transaction, HEAD, the index and *)
(* working tree, and the metadata files, and appends an operation.  Users, a  *)
(* prune and other git-op processes act between any two of these steps, and   *)
(* any step can be the last one.  How the append itself works is OpLog's      *)
(* matter, which snapshot undo and redo choose History's.                     *)
(*                                                                            *)
(* The files of a tree are alike to this code but for their paths, so a tree  *)
(* says what is at each path.  A path can be inside another: where one holds  *)
(* a file, the other cannot.                                                  *)
(*                                                                            *)
(* A definition marked "mutant" is a plausible bug in the definition after it *)
(* and is used nowhere: PROJECT.json swaps it in to see a property fail.      *)
EXTENDS Naturals, Sequences

CONSTANTS
    Procs,          \* git-op processes
    Branches,       \* captured refs; HEAD may be on any of them
    Commits,
    Paths,
    Parents,        \* path -> the paths it is inside of
    Contents,       \* what committed files contain
    Tree,           \* commit -> path -> what is there
    Absent,         \* no file at a path, no such branch
    Mine,           \* contents that no commit has
    Configs,        \* contents of the metadata files
    InitialHeads,   \* what HEAD may be at first: a branch, or detached
    InitialLog,     \* the snapshots taken so far; the last one is the present
    UserCommands,   \* which of AllUserCommands the users issue
    MaxUser,        \* bound: user commands
    MaxRestores,    \* bound: restores
    MaxFailures     \* bound: processes that die or fail

AllUserCommands == {"transaction", "checkout", "worktree", "edit", "stage", "config", "prune"}
OnDisk == Contents \cup {Mine, Absent}
Snapshots == [refs : [Branches -> Commits \cup {Absent}], config : Configs]

\* Where a path holds a file, the paths around and inside it hold none.
Overlapping(path) == Parents[path] \cup {other \in Paths : path \in Parents[other]}
Disjoint(held) ==
    \A path \in Paths : held[path] # Absent => \A other \in Parents[path] : held[other] = Absent

ASSUME PathsAssumption ==
    /\ Parents \in [Paths -> SUBSET Paths]
    /\ \A path \in Paths : path \notin Parents[path]
ASSUME TreeAssumption ==
    /\ Tree \in [Commits -> [Paths -> Contents \cup {Absent}]]
    /\ \A commit \in Commits : Disjoint(Tree[commit])
ASSUME LogAssumption ==
    /\ InitialLog \in Seq(Snapshots) /\ InitialLog # <<>>
    /\ InitialHeads \subseteq Branches \cup Commits
    /\ \A at \in InitialHeads \cap Branches : InitialLog[Len(InitialLog)].refs[at] # Absent
ASSUME NamesAssumption ==
    /\ Mine \notin Contents /\ Absent \notin Contents \cup Commits \cup {Mine}
    /\ Branches \cap Commits = {}
ASSUME BoundsAssumption ==
    /\ UserCommands \subseteq AllUserCommands
    /\ MaxUser \in Nat /\ MaxRestores \in Nat /\ MaxFailures \in Nat

VARIABLES
    refs,       \* branch -> commit
    head,       \* HEAD: a branch, or the commit it is detached at
    linked,     \* the branches that are checked out in other worktrees
    config,     \* the metadata files
    index,      \* path -> what is staged
    work,       \* path -> what is in the working tree
    pruned,     \* commits whose objects are gone
    log,        \* the recorded snapshots
    pc,         \* the step a process is at
    target,     \* the snapshot it applies
    current,    \* what it captured at the start
    checked,    \* what its checks have seen
    plan,       \* HEAD and the refs it has read for its edits
    outcome,    \* how its last restore ended
    quiet,      \* history: nobody else has changed anything since it began
    users, restores, failures       \* counters of the bounds

shared    == <<refs, head, linked, config, index, work, pruned, log>>
locals    == <<target, current, checked, plan>>
boundVars == <<users, restores, failures>>
vars      == <<shared, pc, locals, outcome, quiet, boundVars>>

Nothing == [seen |-> FALSE]
PCs == {"idle", "capture", "verify", "branches", "collisions", "plan", "refs", "head", "reset",
        "metadata", "append"}
Outcomes == {"none", "applied", "unchanged", "pruned", "checked_out", "collisions", "ref_race",
             "failed"}

Tip == log[Len(log)]
NoFiles == [path \in Paths |-> Absent]

\* The tree of what HEAD is; a branch may be unborn.
InTree(at) ==
    IF at \notin Branches THEN Tree[at]
    ELSE IF refs[at] = Absent THEN NoFiles ELSE Tree[refs[at]]

Init ==
    /\ log = InitialLog
    /\ refs = Tip.refs /\ config = Tip.config
    /\ head \in InitialHeads /\ linked = {}
    /\ index = InTree(head) /\ work = index
    /\ pruned = {}
    /\ pc = [p \in Procs |-> "idle"]
    /\ target = [p \in Procs |-> Tip] /\ current = target
    /\ checked = [p \in Procs |-> Nothing] /\ plan = checked
    /\ outcome = [p \in Procs |-> "none"]
    /\ quiet = [p \in Procs |-> TRUE]
    /\ users = 0 /\ restores = 0 /\ failures = 0

CheckedOut == linked \cup ({head} \cap Branches)

Others(p) == [q \in Procs |-> quiet[q] /\ q = p]

-----------------------------------------------------------------------------
(* Users and git.                                                             *)

User(command) ==
    /\ command \in UserCommands
    /\ users < MaxUser
    /\ users' = users + 1
    /\ quiet' = [p \in Procs |-> FALSE]
    /\ UNCHANGED <<pc, locals, outcome, restores, failures>>

\* The hook's snapshot of a transaction, taken on a branch and if it is new.
Record(now) ==
    log' = IF head \in Branches /\ now # Tip THEN Append(log, now) ELSE log

\* A reference transaction on one branch: a commit, a fetch, an update-ref.
Transaction ==
    /\ User("transaction")
    /\ \E branch \in Branches, commit \in (Commits \cup {Absent}) \ pruned :
        /\ commit # refs[branch]
        /\ branch \in CheckedOut => commit # Absent
        /\ refs' = [refs EXCEPT ![branch] = commit]
        /\ Record([refs |-> refs', config |-> config])
    /\ UNCHANGED <<head, linked, config, index, work, pruned>>

\* git checkout, which refuses where it would overwrite local work.
Checkout ==
    /\ User("checkout")
    /\ head \in Branches => refs[head] # Absent
    /\ \E to \in (Branches \cup Commits) \ (pruned \cup CheckedOut \cup {head}) :
        /\ to \in Branches => refs[to] # Absent
        /\ LET before == InTree(head)
               after  == InTree(to)
               moved  == {path \in Paths : before[path] # after[path]}
           IN  /\ \A path \in moved : index[path] = before[path] /\ work[path] = before[path]
               /\ \A path \in moved : after[path] # Absent =>
                     \A other \in Overlapping(path) \ moved :
                         index[other] = Absent /\ work[other] = Absent
               /\ index' = [path \in Paths |-> IF path \in moved THEN after[path] ELSE index[path]]
               /\ work' = [path \in Paths |-> IF path \in moved THEN after[path] ELSE work[path]]
        /\ head' = to
    /\ UNCHANGED <<refs, linked, config, pruned, log>>

\* git worktree add, of a branch that is checked out nowhere, and remove.
Worktree ==
    /\ User("worktree")
    /\ \/ \E branch \in Branches \ CheckedOut :
             refs[branch] # Absent /\ linked' = linked \cup {branch}
       \/ \E branch \in linked : linked' = linked \ {branch}
    /\ UNCHANGED <<refs, head, config, index, work, pruned, log>>

\* What is held where once a path holds contents: a file displaces others.
Held(held, path, contents) ==
    [other \in Paths |->
        IF other = path THEN contents
        ELSE IF contents # Absent /\ other \in Overlapping(path) THEN Absent ELSE held[other]]

EditFile ==
    /\ User("edit")
    /\ \E path \in Paths, contents \in {Mine, Absent} :
        /\ contents # work[path]
        /\ work' = Held(work, path, contents)
    /\ UNCHANGED <<refs, head, linked, config, index, pruned, log>>

\* git add, git rm
Stage ==
    /\ User("stage")
    /\ \E path \in Paths :
        /\ index[path] # work[path]
        /\ index' = Held(index, path, work[path])
    /\ UNCHANGED <<refs, head, linked, config, work, pruned, log>>

EditConfig ==
    /\ User("config")
    /\ \E new \in Configs \ {config} : config' = new
    /\ UNCHANGED <<refs, head, linked, index, work, pruned, log>>

\* git gc: snapshots do not keep the commits of their refs alive.
Prune ==
    /\ User("prune")
    /\ \E commit \in Commits \ (pruned \cup {head}) :
        /\ \A branch \in Branches : refs[branch] # commit
        /\ pruned' = pruned \cup {commit}
    /\ UNCHANGED <<refs, head, linked, config, index, work, log>>

-----------------------------------------------------------------------------
(* The steps of apply_action_with_trailers.                                   *)

At(p, step) == pc[p] = step /\ UNCHANGED <<restores, users, failures>>
Goto(p, step) == pc' = [pc EXCEPT ![p] = step] /\ UNCHANGED outcome
Return(p, how) ==
    /\ pc' = [pc EXCEPT ![p] = "idle"]
    /\ outcome' = [outcome EXCEPT ![p] = how]
Reads == UNCHANGED <<shared, quiet>>
Writes(p) == quiet' = Others(p)

\* resolve_operation, or the plan of undo and redo.
Begin(p) ==
    /\ pc[p] = "idle"
    /\ restores < MaxRestores
    /\ restores' = restores + 1
    /\ \E i \in 1 .. Len(log) : target' = [target EXCEPT ![p] = log[i]]
    /\ quiet' = [quiet EXCEPT ![p] = TRUE]
    /\ checked' = [checked EXCEPT ![p] = Nothing]
    /\ plan' = [plan EXCEPT ![p] = Nothing]
    /\ Goto(p, "capture")
    /\ UNCHANGED <<shared, current, users, failures>>

CaptureCurrent(p) ==
    /\ At(p, "capture")
    /\ current' = [current EXCEPT ![p] = [refs |-> refs, config |-> config]]
    /\ Goto(p, "verify")
    /\ Reads /\ UNCHANGED <<target, checked, plan>>

Targets(snapshot) == {snapshot.refs[branch] : branch \in Branches} \ {Absent}

\* verify_snapshot_objects, and the return when there is nothing to change.
VerifyObjects(p) ==
    /\ At(p, "verify")
    /\ IF Targets(target[p]) \cap pruned # {} THEN Return(p, "pruned")
       ELSE IF current[p] = target[p] THEN Return(p, "unchanged")
       ELSE Goto(p, "branches")
    /\ checked' = [checked EXCEPT ![p] = [pruned |-> pruned]]
    /\ Reads /\ UNCHANGED <<target, current, plan>>

\* refuse_checked_out_branch_removal, which asks git for every worktree.
OwnBranchRemoval(p) == head \in Branches /\ target[p].refs[head] = Absent  \* mutant
CheckedOutRemoval(p) == \E branch \in CheckedOut : target[p].refs[branch] = Absent

RefuseRemoval(p) ==
    /\ At(p, "branches")
    /\ IF CheckedOutRemoval(p) THEN Return(p, "checked_out") ELSE Goto(p, "collisions")
    /\ checked' = [checked EXCEPT ![p] = [pruned |-> checked[p].pruned, branches |-> CheckedOut,
                                               head |-> head]]
    /\ Reads /\ UNCHANGED <<target, current, plan>>

\* What git status and git diff --cached report.
Untracked == {path \in Paths : index[path] = Absent /\ work[path] # Absent}
Staged == {path \in Paths : index[path] # InTree(head)[path]}
WorktreeModified ==
    {path \in Paths : index[path] # Absent /\ work[path] \notin {index[path], Absent}}
Differing(tree) == {path \in Paths : index[path] # tree[path]}

\* A file is in the way of the tree's file of that name, of a file where its
\* directory is, or of a directory where it is.
InTheWay(path, tree) == \E other \in {path} \cup Overlapping(path) : tree[other] # Absent
SameName(tree) == {path \in Untracked : tree[path] # Absent}            \* mutant
Overwritten(tree) == {path \in Untracked : InTheWay(path, tree)}
Collisions(tree) ==
    Overwritten(tree) \cup (Staged \cap Differing(tree)) \cup WorktreeModified

\* snapshot_worktree_tree; a branch the snapshot lacks predicts nothing.
Predicted(p) ==
    IF head \notin Branches THEN {Tree[head]}
    ELSE {Tree[commit] : commit \in {target[p].refs[head]} \ {Absent}}

\* ensure_no_local_collisions: one action for its reads of the working tree.
RefuseCollisions(p) ==
    /\ At(p, "collisions")
    /\ IF \E tree \in Predicted(p) : Collisions(tree) # {} THEN Return(p, "collisions")
       ELSE Goto(p, "plan")
    /\ checked' = [checked EXCEPT ![p] =
                     [pruned |-> checked[p].pruned, branches |-> checked[p].branches,
                      head |-> checked[p].head, trees |-> Predicted(p), index |-> index, work |-> work]]
    /\ Reads /\ UNCHANGED <<target, current, plan>>

\* The reads of apply_state and apply_ref_updates: HEAD, then every ref.
PlanEdits(p) ==
    /\ At(p, "plan")
    /\ plan' = [plan EXCEPT ![p] = [head |-> head, refs |-> refs]]
    /\ Goto(p, "refs")
    /\ Reads /\ UNCHANGED <<target, current, checked>>

OnlyUpdated(p) ==                                                       \* mutant
    {branch \in Branches : target[p].refs[branch] # Absent}

\* The refs the transaction edits: deletions of captured refs that the snapshot
\* lacks, and an update of every ref that it has.
Edited(p) ==
    {branch \in Branches : target[p].refs[branch] # Absent \/ plan[p].refs[branch] # Absent}

\* PreviousValue::MustExistAndMatch and MustNotExist, of all edits together.
ExistAsExpected(p) ==                                                   \* mutant
    \A branch \in Edited(p) : refs[branch] = Absent <=> plan[p].refs[branch] = Absent
AsExpected(p) == \A branch \in Edited(p) : refs[branch] = plan[p].refs[branch]

ApplyRefs(p) ==
    /\ At(p, "refs")
    /\ \/ /\ AsExpected(p)
          /\ refs' = [branch \in Branches |->
                        IF branch \in Edited(p) THEN target[p].refs[branch] ELSE refs[branch]]
          /\ Writes(p)
          /\ Goto(p, "head")
       \/ /\ ~AsExpected(p)
          /\ Return(p, "ref_race")
          /\ UNCHANGED <<refs, quiet>>
    /\ UNCHANGED <<head, linked, config, index, work, pruned, log, locals>>

\* set_head: only a symbolic HEAD is written back, with PreviousValue::Any.
SetAnyHead(p) ==                                                        \* mutant
    /\ At(p, "head")
    /\ head' = plan[p].head
    /\ Writes(p)
    /\ Goto(p, "reset")
    /\ UNCHANGED <<refs, linked, config, index, work, pruned, log, locals>>
SetHead(p) ==
    /\ At(p, "head")
    /\ head' = IF plan[p].head \in Branches THEN plan[p].head ELSE head
    /\ Writes(p)
    /\ Goto(p, "reset")
    /\ UNCHANGED <<refs, linked, config, index, work, pruned, log, locals>>

\* reset_worktree: git read-tree --reset -u of the commit HEAD resolves to.
\* Only files that are neither in the index nor in the way of that tree stay.
ResetWorktree(p) ==
    /\ At(p, "reset")
    /\ IF head \in Branches /\ refs[head] \in {Absent} \cup pruned
       THEN Return(p, "failed") /\ UNCHANGED <<index, work, quiet>>
       ELSE LET tree == InTree(head)
            IN  /\ index' = tree
                /\ work' = [path \in Paths |-> IF index[path] # Absent \/ InTheWay(path, tree)
                                               THEN tree[path] ELSE work[path]]
                /\ Writes(p)
                /\ Goto(p, "metadata")
    /\ UNCHANGED <<refs, head, linked, config, pruned, log, locals>>

\* restore_metadata_file, for config and description.
RestoreMetadata(p) ==
    /\ At(p, "metadata")
    /\ config' = target[p].config
    /\ Writes(p)
    /\ Goto(p, "append")
    /\ UNCHANGED <<refs, head, linked, index, work, pruned, log, locals>>

\* append: it captures the repository again.
AppendOperation(p) ==
    /\ At(p, "append")
    /\ log' = Append(log, [refs |-> refs, config |-> config])
    /\ Writes(p)
    /\ Return(p, "applied")
    /\ UNCHANGED <<refs, head, linked, config, index, work, pruned, locals>>

\* The process is killed, or git or a write fails, between two steps.
Fail(p) ==
    /\ pc[p] # "idle"
    /\ failures < MaxFailures
    /\ failures' = failures + 1
    /\ Return(p, "failed")
    /\ UNCHANGED <<shared, locals, quiet, users, restores>>

Step(p) ==
    \/ CaptureCurrent(p) \/ VerifyObjects(p) \/ RefuseRemoval(p) \/ RefuseCollisions(p)
    \/ PlanEdits(p) \/ ApplyRefs(p) \/ SetHead(p) \/ ResetWorktree(p) \/ RestoreMetadata(p)
    \/ AppendOperation(p)

Users == Transaction \/ Checkout \/ Worktree \/ EditFile \/ Stage \/ EditConfig \/ Prune

Rest ==
    /\ \A p \in Procs : pc[p] = "idle"
    /\ UNCHANGED vars

Next == Users \/ Rest \/ \E p \in Procs : Begin(p) \/ Step(p) \/ Fail(p)

Spec == Init /\ [][Next]_vars

-----------------------------------------------------------------------------
(* Properties.                                                                *)

\* The types; a process has seen what its step relies on, and no path holds a
\* file while one inside it does.
TypeOK ==
    /\ refs \in [Branches -> Commits \cup {Absent}] /\ head \in Branches \cup Commits
    /\ config \in Configs
    /\ linked \subseteq Branches
    /\ index \in [Paths -> OnDisk] /\ work \in [Paths -> OnDisk]
    /\ Disjoint(index) /\ Disjoint(work)
    /\ pruned \subseteq Commits /\ head \notin pruned
    /\ log \in Seq(Snapshots) /\ log # <<>>
    /\ pc \in [Procs -> PCs] /\ outcome \in [Procs -> Outcomes]
    /\ target \in [Procs -> Snapshots] /\ current \in [Procs -> Snapshots]
    /\ \A p \in Procs :
        /\ pc[p] \in {"plan", "refs", "head", "reset", "metadata", "append"} =>
             checked[p].index \in [Paths -> OnDisk] /\ checked[p].work \in [Paths -> OnDisk]
        /\ pc[p] \in {"refs", "head", "reset", "metadata", "append"} =>
             plan[p].refs \in [Branches -> Commits \cup {Absent}]
    /\ quiet \in [Procs -> BOOLEAN]
    /\ users \in 0 .. MaxUser /\ restores \in 0 .. MaxRestores /\ failures \in 0 .. MaxFailures

\* What a step of p does, seen from outside.
AppliesRefs(p) == pc[p] = "refs" /\ pc'[p] = "head"
Resets(p) == pc[p] = "reset" /\ pc'[p] = "metadata"

\* The reset discards no local work, staged or not, that was there when the
\* collisions were looked for (ensure_no_local_collisions, "matching git
\* checkout's protection"), as long as HEAD still resolves to the tree that was
\* predicted then; local work made in between is what it may discard.
LocalWorkKept ==
    [][\A p \in Procs : Resets(p) /\ InTree(head) \in checked[p].trees =>
         \A path \in Paths :
            index[path] = checked[p].index[path] /\ work[path] = checked[p].work[path] =>
                /\ index[path] = Mine => index'[path] = Mine
                /\ work[path] = Mine => work'[path] = Mine]_vars

\* The ref transaction of a restore overwrites no value it has not read; it
\* leaves every branch, in whatever worktree it is checked out, that already was
\* when that was checked; and it puts no ref on an object that is gone, unless
\* objects were pruned since that was checked.
SafeTransaction ==
    [][\A p \in Procs : AppliesRefs(p) =>
         /\ \A branch \in CheckedOut \cap checked[p].branches : refs'[branch] # Absent
         /\ \A branch \in Branches : refs'[branch] # refs[branch] =>
              /\ refs[branch] = plan[p].refs[branch]
              /\ pruned = checked[p].pruned => refs'[branch] \notin pruned]_vars

\* A restore that reports success, with nobody else at work from its first read
\* on, has put refs, metadata, index and working tree in the state of the
\* snapshot, left HEAD on its branch and recorded exactly that state.
AppliedIsTarget ==
    \A p \in Procs : outcome[p] = "applied" /\ pc[p] = "idle" /\ quiet[p] =>
        /\ [refs |-> refs, config |-> config] = target[p] /\ Tip = target[p]
        /\ head = checked[p].head
        /\ index = InTree(head)
        /\ \A path \in Paths : InTree(head)[path] # Absent => work[path] = InTree(head)[path]

\* "Restore refs, repository config, description, working tree, and index from
\* an operation snapshot" (cli.rs): a restore that reports success leaves the
\* index and working tree of a repository nobody has edited on the restored
\* branch's tree, also when an earlier restore was interrupted.
RestoredMeansRestored ==
    \A p \in Procs :
        outcome[p] \in {"applied", "unchanged"} /\ pc[p] = "idle" /\ users = 0 =>
            index = InTree(head) /\ work = InTree(head)
=============================================================================
