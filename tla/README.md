# git-op in TLA+

`git-op` (`crates/git-op`) keeps an operation log for a Git repository: after
every reference transaction a hook records the refs and the metadata files as
a commit on `refs/op`, and `git op restore`, `undo` and `redo` apply a
recorded state again. The specifications here model that log and what its
snapshots are made of, the restore path, undo/redo, and the life of the hooks in
repositories and in Git's template directory, as the code in
`src/crates/git-op/src` implements them. TLC checks them on small instances;
TLAPS proves the theorems for every value of the constants.

All paths below are under `src/crates/git-op/src/`.

## 1. The system

| Component | State | Operations | Where |
| --- | --- | --- | --- |
| Operation log append | `refs/op`, its commits; per call: tip read, capture, commit, attempts | `append`, `append_with_options`, `snap`, `append_internal`, `capture` | `lib.rs` |
| Reference-transaction hook | none of its own; is it installed? | `reference_transaction`, `git op snap` | `lib.rs`, `exe.rs` |
| History navigation | the `Git-op` trailers of the commits | `restore_action`, `undo_action`, `redo_action`, `plan_undo`, `plan_redo` | `lib.rs` |
| Restore application | refs, HEAD, index, working tree, `config`, `description` | `apply_action_with_trailers`, `apply_state`, `reset_worktree` | `lib.rs` |
| Local collision detection | none (reads `git status`) | `ensure_no_local_collisions` and below | `lib.rs` |
| Hook lifecycle | two files of a hooks directory | `install_local`, `uninstall_local` | `config.rs` |
| Global install | the claimed template directory, `op-config`, the include in the global config | `install_global`, `uninstall_global` | `config.rs` |
| Ref tree codec and diff | none | `capture`, `validate_ref_paths`, `RefNode`, `snapshot::serialize` and `read`, `collect_ref_updates`, `diff_ref_trees` | `lib.rs`, `snapshot.rs` |
| Pre-push guard | none | refuses to push `refs/op` | `exe.rs` |
| Log view, show | none | rendering | `log.rs`, `exe.rs` |
| Invocation detection | none | reads the parent's command line | `invocation.rs` |
| Command line | none | arguments, dispatch | `cli.rs`, `main.rs` |

**How they interact.** Git runs the reference-transaction hook inside every
git command, in the phase `committed`; the hook calls `snap`, which calls
`append_internal`. The restore commands call `append` at their end, and their
own transaction goes through gix, which runs no hooks. Everything is shared
through the repository: refs by compare-and-swap, files by reading and writing.
There are **no locks** across any operation and no daemon: every process is a
short-lived command, and any number of them run at a time.

**What is hard.** (1) An append is a read of the tip, many reads of the
repository, and one compare-and-swap, with a bounded retry. (2) Undo and redo
have no cursor but what the trailers of the tip say. (3) A restore checks
first and changes afterwards, in four separate places, and can die between any
two of them. (4) Hook files, template directories and the global configuration
belong to their users as well, and a global install changes several of them one
after the other. (5) Refs are enumerated while they change, into a nested tree
that cannot hold every set of names.

**What makes each component correct.**

- Append: no recorded snapshot is lost or linked wrongly; what a hook has
  answered for stays recorded; a lost race means real contention; every
  transaction is recorded in the end.
- Undo/redo: the trailers implement a cursor that moves by exactly one entry.
- Restore: no local work is discarded after the checks have passed, no ref
  value overwritten that was not read, and success means that the snapshot is
  what the repository holds.
- Hooks: a user's lines survive every install and uninstall; one hook's
  conflict never withholds the other; uninstalling leaves nothing behind.
- Global install: wherever a command dies, the claim can be found and taken
  back; the include never dangles; an install takes effect where Git looks; a
  claimed directory has the stock templates; what a user put there stays.
- Ref trees: every recorded snapshot can be applied and reads back as what was
  captured; comparing two snapshots shows exactly what differs.

`PROJECT.json` lists the hazards one by one, each at its line, with the
properties that watch it.

## 2. The modules

| Module | Models | Composes |
| --- | --- | --- |
| `OpLogAbs` | what the log promises: append-only, of values that were held | |
| `OpLog` | `append_internal` and the hook, step by step | refines `OpLogAbs` |
| `OpLogProofs` | theorems about `OpLog` | extends `OpLog` |
| `UndoCursor` | what undo and redo promise: a cursor | |
| `History` | the plans of restore, undo, redo, and the trailers | refines `UndoCursor` |
| `HistoryProofs` | theorems about `History` | extends `History` |
| `Restore` | `apply_action_with_trailers`, step by step | |
| `RestoreProofs` | theorems about `Restore` | extends `Restore` |
| `Filter` | `Iterator::filter`: the entries of a sequence that are in a set | |
| `FilterTheorems` | what filtering keeps | extends `Filter` |
| `Snapshot` | enumeration, ref tree, metadata entries, comparison, list of changes | extends `Filter` |
| `SnapshotProofs` | theorems about `Snapshot` | extends `Snapshot`, `FilterTheorems` |
| `Hooks` | install and uninstall of both hooks in a directory, step by step | extends `Filter` |
| `HooksProofs` | lemmas about rewriting hooks; no step loses a user's line | extends `Hooks`, `FilterTheorems` |
| `GlobalInstall` | `git op install --global` and `uninstall --global` next to the local commands | extends `Hooks` |
| `GlobalInstallProofs` | theorems about `GlobalInstall`: types, the order of the claim, what is never lost | extends `GlobalInstall`, `HooksProofs` |
| `CommandProofs` | theorems about `GlobalInstall`: what a command has done when it is done | extends `GlobalInstallProofs` |
| `MCOpLog`, `MCHistory`, `MCRestore`, `MCSnapshot`, `MCGlobalInstall` | instances for TLC | extend the above |

### OpLog

| Code | Specification |
| --- | --- |
| target of `refs/op`, the commit objects | `tip`, `objects` |
| refs, `config`, `description` | `repo`, one value per piece |
| locals of `append_internal`: `parent`, capture, commit, attempt | `parent`, `snap`, `commit`, `attempts`, `pc` |
| `reference_transaction` (phase `committed`) | `Dispatch` |
| `snap`: placeholder and detached HEAD | `CheckHead` |
| `operation_target` | `ReadTip` |
| `capture` | `Capture`, one piece per step: refs in any order, then `config`, then `description` |
| no-op comparison, `git commit-tree` | `Decide` (`NothingToRecord`, `WriteCommit`) |
| the ref edit with `PreviousValue`, retry, `Error::LostRace` | `Publish` (`Expected`, `Retry`, `GiveUp`) |
| kill, or any error return | `Fail` |
| git commands, other tools | `RefTransaction`, `OtherTransaction`, `MoveHead`, `DeleteLog`, `EditFile`, `Install`, `Uninstall` |

`chain`, `held`, `owes`, `recorded`, `fresh`, `moves` and `since` are history
variables: actions write them, only properties read them. A transaction and the
start of its hook are one step, because git calls the hook synchronously and a
process killed between the two is a `Fail` at `hook`. The `prepared` and
`aborted` phases do nothing in the code and are left out.

### History

A commit is its position in the first-parent chain (`LogLinked` of `OpLog` is
why that is enough), with its recorded state and its trailers: `action` and
`target` are the first `Git-op` trailer, `restored` the target of the restore
trailer that undo and redo write next to theirs. `UndoTarget` is `plan_undo`,
`RedoTarget` is `plan_redo` with `NextRedoTarget` for the walk back of
`next_redo_target`, and `Apply` is the early return or the append of
`apply_action_with_trailers`. A command is one action.

### Restore

One action per step of `apply_action_with_trailers`: `CaptureCurrent`,
`VerifyObjects`, `RefuseRemoval`, `RefuseCollisions`, `PlanEdits`, `ApplyRefs`,
`SetHead`, `ResetWorktree`, `RestoreMetadata`, `AppendOperation`. `checked` and
`plan` hold what the process has read; the code acts on `plan`, the properties
compare with `checked`. `Transaction`, `Checkout`, `Worktree`, `EditFile`,
`Stage`, `EditConfig` and `Prune` are users and git, between any two steps. The
hook's snapshot of a transaction is atomic here, its own interleavings being
`OpLog`'s. `linked` holds the branches other worktrees have checked out, all that
`git worktree list` tells `refuse_checked_out_branch_removal`.

Paths can lie inside one another (`Parents`): a file at one leaves no room for
files inside it (`Disjoint`). `Overwritten` is what `ensure_no_local_collisions`
makes of names, of the ancestors of an untracked file and of those of the
target's files; `ResetWorktree` is what `git read-tree --reset -u` does to files
that are in the way.

### Snapshot

| Code | Specification |
| --- | --- |
| `repo.references().all()` | `List`, one ref per step while refs change; of a ref that is gone it may still give the packed value |
| `is_captured_ref` | `IsCaptured` |
| `validate_ref_paths`, `RefNode::insert`, `RefNode::write` | `Invalid`, `Collides` and `Insert`, `node` |
| `read_repository_file` | `ReadConfig`, `ReadDescription`, a step each |
| `snapshot::serialize`, `optional_blob` | `Entry`, `OptionalBlob`; `OptionEntry` is the layout of earlier versions |
| `SnapshotEntries` and its `diff`, the decision in `append_internal`, `snapshot_message` | `EntriesOf`, `FromState`, `Diff`, `Record` |
| `collect_ref_updates`, `parse_ref_contents` | `CollectRefUpdates`, `Applied` |
| `diff_ref_trees`, `ref_tree_entries`, `ref_tree_targets` | `DiffRefTrees` with `EntryChanges` for the match on an entry, `EntryAt`, `RefTreeTargets`, `Replaced` |

A ref name is the sequence of its components, and `Names` lists the names in the
byte order of the whole string, in which `main-x` lies between `main` and
`main/topic`. A node of the ref tree is the set of its directories and the blobs
at its leaves, an object id the value it stands for, so that equal subtrees are
equal ids. The module records with one process: races for `refs/op` are `OpLog`'s.

### Hooks

A hook is a sequence of lines and an executable bit. A line is a shebang, a
user's (`UserLines`), git-op's command in the current or in an older spelling, or
one that runs a user's command and git-op's (`MixedLines`), which
`any_segment_runs` makes git-op's as a whole (`OwnsLine`); `"legacy"`
stands for a whole body an old version wrote and `"binary"` for what is not
UTF-8. The actions are the reads and writes of the code: `Plan` and `AdoptHook`
(`HookPlan::of`), `WriteNewHook` (link), `MakeExecutable`, `Compare` and
`RenameHook` (`replace_hook`, `write_tmp_hook`), `Strip` and `RemoveHook`
(`uninstall_managed_hook`). `EditHook` is a user, or an older git-op. Users act
while no git-op process is at work.

### GlobalInstall

| Code | Specification |
| --- | --- |
| `git_config_global_template` | `Query`; `TemplateDir` is what Git makes of the user's setting, the include and `op-config` |
| `write_op_config` | `WriteOpConfig` |
| `ensure_include` | `CheckInclude`, and `AddInclude` for `git config include.path` |
| `seed_stock_templates` | `Seed`, which makes the directories |
| `copy_absent` | `CopyStock` for a file (`CopyAbsent`), `EndCopy`; `CopyFails` when an uninstall takes the directory away |
| `install_hooks`, `uninstall_hooks` | the steps of `Hooks`, in the template's directory; `then` is what follows them |
| `claimed_template` | `Claimed` |
| `template_is_unmodified`, the tests of `remove_unmodified_template` | `CheckTemplate` with `Unmodified`, `HooksGone` |
| `fs::remove_dir_all` | `ListTemplate`, `RemoveFile`; `ListHooks`, `RemoveListedHook` and `RemoveHooksDir` for the directory inside; `RemoveTemplate`; `BreakOff` when a directory is not empty in the end |
| `remove_global_claim` | `UnsetInclude`, `RemoveOpConfig` |

`include` says whether the global configuration includes `op-config`, `includes`
how many files of the user's own it includes. `AddInclude` does what `git config
<name> <value>` does: it adds a first value, replaces a single one and refuses
several. The user's `init.templateDir` stands before or after the include, since
the last one wins. A user's template directory may also be a repository's hooks
directory (`core.hooksPath`), where local and global commands meet, or the very
directory git-op claims (`UserTemplate = Default`).

`files` holds the files of the default directory, the hooks apart, one of them the
`"leftover"`: the temporary file of a process that was killed while it wrote a hook
(`GlobalFail`). `left` holds what a process has listed and not yet copied or
removed. An uninstall that looks at the directory while another one removes it may
find it gone where it has just listed it, and then takes it for modified:
`misled` remembers that this has happened, `brokenOff` that a removal has failed
half-way. `overlapped` tells whether an install and an uninstall ever overlapped,
`quiet` whether anything but commands of its own kind happened since a process's
command began. These four are history variables.

### What is taken as given

These definitions model code that is not in this repository, from how the
code uses it, and are marked external in the map: gix lists refs in an order
that may be any; a ref transaction is atomic and checks every expected value;
`git commit-tree` names a commit by its content (two racers of the same second
can write the same one); git runs the hook after its transaction has committed
and ignores its exit status; `git read-tree --reset -u` leaves only files alone
that are in neither the index nor the way of the tree; `git checkout` refuses to
overwrite local work; `git gc` may remove what only a snapshot names; `git
worktree list` names every branch that is checked out; `git config` treats one,
none and several values of a name as said above. `fs::remove_dir_all` lists a
directory, removes its entries one by one and then the directory itself, which fails
if it is not empty by then; an entry that has gone already is no error, and one that
appears meanwhile may be removed or not. A template directory without a file and
without its hooks directory counts as gone. A file that git ignores counts as no
local work, as it does for `git checkout`.

## 3. The runs

| Run | Question | Result |
| --- | --- | --- |
| `oplog` | every command, two processes, one dying | passes |
| `oplog_live` | is every changed ref recorded in the end? | passes |
| `oplog_stale` | does every hook leave the log current? | violated |
| `oplog_delete` | does a deleted log stay deleted? | violated |
| `history` | do the trailers implement a cursor? | passes |
| `history_redo` | does redo find what is still undone? | violated |
| `history_stuck` | does undo always move on? | violated |
| `restore` | are local work, refs and HEAD safe from a restore? | passes |
| `restore_interrupted` | does a repeated restore finish the work? | violated |
| `snapshot` | is what is recorded well formed, read back and compared exactly? | passes |
| `install` | do users' lines and files survive, are installs and uninstalls complete, is a claim made and taken back in the right order? | passes |
| `install_seeded` | does a template directory with git-op's hook always have the stock templates? | violated |

**`oplog`** checks five things. `LogLinked`: the commits published are exactly
the first-parent history of the tip. `RecordedIsCurrent`: once the hook of the
transaction that gave a ref its value has succeeded, the tip records that value
and keeps doing so, whatever overlapping appends publish. It is claimed of values
the ref never had before, because of what `oplog_stale` shows.
`LostRaceOnlyUnderContention`: an append gives up only after `refs/op` changed
`MAX_APPEND_ATTEMPTS` times under it. `AbstractSpec`: commits, captures and
retries implement `OpLogAbs`.

**`oplog_live`** checks `EventuallyRecorded` under `FairSpec`: weak fairness of
every process's `Step`. The code justifies it: a process that has begun a hook
waits for nothing but the operating system's scheduler, no step of it blocks on
another process, and no fairness is asked of users, of failures or of the
outcome of a race. `MaxAppendAttempts` is larger there than the number of changes
of `refs/op` the bounds allow, for the bounded retry of the code promises nothing
under unbounded contention.

**`history`** checks that any mix of work, explicit appends, restores, undos,
redos and one unrecorded change implements `UndoCursor`, and that an undo and a
redo are inverse to each other (`UndoRedoInverse`).

**`restore`** checks the protection of `ensure_no_local_collisions`
(`LocalWorkKept`: what the check saw of staged or unstaged work survives the
reset, as long as HEAD resolves to the tree that was predicted), the safety of the
ref transaction against refs, HEAD, worktrees or objects changing after the
checks (`SafeTransaction`), and what success means (`AppliedIsTarget`).

**`snapshot`** checks that a capture, however torn, is either refused or a
namespace of refs under exactly the trees they lie in (`SnapshotsApplicable`), and
refused only if refs changed while they were read (`ConflictOnlyIfTorn`); that no
snapshot is recorded that equals its parent, not even across the change of layout
(`NoSpuriousSnapshot`); that an undisturbed capture reads back as the repository
(`SnapshotReadsBack`); and that the changes shown for a snapshot are exactly the
difference to its parent, each ref once (`ChangesExact`).

**`install`** checks the two kinds of commands together, overlapping and dying
anywhere. For hooks: no line of a user's that runs none of git-op's commands is lost
(`YoursKept`), an install has tried both hooks (`InstallAttemptsAll`), and an
uninstall has cleaned both in every directory it set out for
(`UninstallRemovesAll`). For the claim: `NoDanglingInclude` and `ClaimOutlivesHooks`
for the order in which it is made and taken back; `InstallTakesEffect` and
`UninstallLeavesNothing` for what a command that ran to its end has brought about,
whatever died before it. For the template directory's files, copied and removed one
at a time: `ClaimSeeded` and `UserFilesKept`.

**Findings.** Each violated run is a disagreement of the code with its own
documentation, described in `PROJECT.json` with both places:

1. `oplog_stale`: a ref changed and changed back while a hook is appending; the
   second hook finds the old tip equal and records nothing, the first publishes
   the value in between. Both hooks succeed and the tip is stale.
2. `oplog_delete`: a hook that is appending when `refs/op` is deleted retries,
   finds no log, and creates it again.
3. `history_redo`: after undo, undo, redo, undo, redo and the like,
   `next_redo_target` looks for an undo where there is a redo and reports that
   there is nothing to redo.
4. `history_stuck`: an undo to an equal state returns before it appends, so every
   later undo plans the same step.
5. `restore_interrupted`: a restore that dies after its ref transaction and is run
   again finds the refs restored, reports success and leaves the index and
   working tree on the old commit.
6. `install_seeded`: while an uninstall removes the claimed directory entry by entry,
   an install (run again, if its copying failed over that) still finds the directory
   configured, copies nothing and writes its hook there. The removal fails because
   the directory is not empty, and the uninstall returns before it takes the claim
   back: a claimed directory with git-op's hook and without stock templates.

**Observations without a run**, made while modelling:

- `ref_changes_between` says that its results are "ordered by full ref name"
  (`lib.rs:1169`); the walk orders by component, so `main/topic` comes before
  `main-x`. `ChangesExact` says nothing about the order.
- `any_segment_runs` (`config.rs:632`) makes a whole line git-op's as soon as one of
  the commands on it is. An install replaces a line such as `lint && git-op
  reference-transaction "$@"` and an uninstall drops it, the user's command
  included, and the file with it when nothing else is there; `install_local` is
  documented to preserve "other commands" (`config.rs:127`), and a hook to go only
  when "nothing of yours remains" (`config.rs:308`). `YoursKept` is about lines that
  run none of git-op's commands, and `MixedLines` has the others in the run.
- `ensure_include` is documented to append ("Existing content is never rewritten",
  `config.rs:214`), but calls `git config include.path` without `--add`
  (`config.rs:229`): a configuration that includes one other file has that include
  replaced, and with two or more the install fails. `AddInclude` does just that.
- A template directory the user configured is to be deleted never, "even when its path
  matches the default one" (`tests/install.rs:80`). `uninstall_global` goes by
  `op-config` alone (`config.rs:326`): when a user configures the path an earlier
  install has claimed, the uninstall removes the directory. `UserTemplate = Default`
  is that case; the theorems cover it, with the exceptions their properties name.
- An install that died between the include and the end of the copying is never
  seeded later: the next one finds the directory configured and installs only hooks.
  `ClaimSeeded` excludes crashes for that reason, and removals that failed half-way
  for what `install_seeded` shows.
- An uninstall that looks at the template directory while another one removes it can
  take it for modified, report success and leave the directory where the other's
  removal then fails; `UninstallLeavesNothing` says so (`misled`).
- The temporary file of a killed process counts as content git-op did not put into the
  template directory, which then stays for good.
- `template_is_unmodified` goes by file names, so that a customised `description` in
  a claimed template goes with the directory; `UserFilesKept` excepts stock files.
- An install and an uninstall that overlap can leave a dangling include
  (`overlapped`). An uninstall removes a hook by name after deciding from an
  earlier read (`config.rs:821`, `:834`).
- `set_head` can put HEAD back on a branch that another worktree has checked out
  by then.
- `operation_metadata` reads a `Git-op:` line wherever it stands in a message, also
  in the text of an explicit append.

### Bounds

Every bound is a constant that ends in the guard of an action.

| Run | Instance | Why it is enough |
| --- | --- | --- |
| `oplog` | 2 processes, 1 ref, `config`, 2 values, 2 attempts, 4 commands, 1 failure | a race needs two appends; two lost races and the give-up fit into 4 commands; ref and file give two pieces for torn captures |
| `oplog_live` | the same, 4 attempts, 3 commands, no deletion, no failure | more attempts than there can be changes of `refs/op` |
| `history` | 3 states, logs of up to 7 entries, 1 drift | three undos and their redos over work in between; equal neighbours and non-neighbours |
| `history_redo` | 3 states, logs of up to 9 entries | the shortest mix that breaks the walk |
| `restore` | 2 processes, 2 branches, 2 commits, 3 paths, 2 user commands, 2 restores, 1 failure | a change between check and use needs one user or the other process, and a second one to undo its trace; the commits differ in a file that changes and in one that becomes a directory |
| `snapshot` | `main`, `main-x`, `main/topic` and a remote ref, 2 targets, 1 file content; 3 changes, 2 captures, 2 snapshots of an earlier version | the three names are the shortest that pass the check of neighbours and collide; renaming one into the other takes two changes, a third is between or after; equal and unequal subtrees, refs replaced by directories and back |
| `install` | 2 processes, 2 directories, 2 stock files and 1 other, 1 user line and 1 mixed line, up to 2 includes, 3 commands, 1 edit, 1 failure | two overlapping commands with a third before or after: an install that dies, is repeated and undone; with two stock files a copy or a removal can be half-way; the edit changes any one of setting, includes, files and hooks, where it puts anything `Written` lists, and Init has a setting or not |
| `install_seeded` | 2 processes, 3 commands, no edit, no failure | two installs and an uninstall that overlaps them |

Symmetry is used over processes, or over the states other than the initial one,
where a run has no liveness property.

Deadlock is checked in every run: `Rest` lets a system with idle processes
stay as it is, so that a deadlock means a process stuck at a step.

## 4. The proofs

### The operation log (`OpLogProofs`)

From `PartsAssumption`, `InitialAssumption`, `AttemptsAssumption` and
`BoundsAssumption` of `OpLog`, and from nothing else, for any sets of processes,
refs and values and any `MAX_APPEND_ATTEMPTS`:

- `TypeInvariant`: `Spec => []TypeOK`.
- `PhaseInvariant`: what a program counter says of its process's locals (a
  complete capture at `publish`, and a commit that holds it). Types alone are
  not inductive for anything below.
- `LogIsLinked`: `LogLinked`. It needs `PhaseInvariant`, because a publish links
  the commit under the parent that was read, and commits are never rewritten
  (`ObjectsGrow`).
- `LostRaceMeansContention`: strengthened by `attempts <= moves - since`, and by
  one more for a process whose read parent is no longer the tip.
- `HeldInvariant`: captures and commits consist of values the repository held,
  which is what torn captures leave true.
- `RecordedRefsAreCurrent`: `RecordedIsCurrent`. The strengthening speaks of
  fresh refs: a process that still owes one, or a commit on its way to
  publication, either holds the present value or is bound to lose its race,
  since the commit in `refs/op` it was based on is not the tip.
- `ImplementsAbstractLog`: `Spec => AbstractSpec`, from the invariants above;
  every step maps to `Record`, `Forget`, `Hold` or a stutter.

### Undo and redo (`HistoryProofs`)

From `StatesAssumption` and `BoundsAssumption` of `History`, for every set of
states and logs of any length:

- `CursorInvariant`: `TypeOK` and `CursorInv` together, since neither is inductive
  alone. `CursorInv` says what the chain of trailers looks like: every commit
  stands for a position that some new work is not before; an undo's target is the
  position its predecessor stands for, and it restores the one before; a redo's
  target is the position after the one its predecessor stands for; and a commit
  and the position it stands for have the same state.
- `TypeInvariant`, `UndoAndRedoAreInverse` (`UndoRedoInverse`) from it.
- `ImplementsUndoCursor`: `Spec => AbstractSpec`. The step that is not obvious is
  a redo after a redo: `next_redo_target` looks for the newest undo of what was
  redone, and takes the undo right before it. By `CursorInv` that one's target is
  exactly one position further on, so when the walk finds anything, it finds the
  right commit (`RedoPlan`). That it does not always find one is `history_redo`.

The maximum of a set of positions exists by well-foundedness of `<`
(`MaxOfPositions`, from `WellFoundedInduction`).

### Restore (`RestoreProofs`)

From the assumptions of `Restore`: trees hold no file inside a file, the log's
snapshots are snapshots, contents and names are distinct.

- `TypeInvariant`: `TypeOK`, which contains that `index` and `work` stay `Disjoint`.
- `TransactionsAreSafe` (`SafeTransaction`) and `LocalWorkIsKept` (`LocalWorkKept`)
  follow from `SafetyInv`: what a process has seen at each check still says what
  the check concluded (no target was pruned then, no checked-out branch is
  removed, no predicted tree overwrites what was untracked, staged or
  modified then). It is inductive because a process's `checked` is written by its
  own steps alone, and of the present state only `pruned` is mentioned, which grows.
- `AppliedMeansTarget` (`AppliedIsTarget`) follows from `QuietInv`: while a process
  is quiet, each of its steps finds the repository as the ones before left it.

### Filtering (`FilterTheorems`)

`Filter` defines a filter as a recursive function on the positions of a sequence.
The lemmas say what it keeps: every entry of the set, no other, in their order;
nothing of a sequence without one, all of a sequence of nothing else; filtering
a concatenation is filtering its parts. The induction they need is over sets in
place of predicates (`InductiveSeqs`: a set that contains the empty sequence and
is closed under appending contains every sequence), itself by a least
counterexample from `WellFoundedInduction`; that the recursive function exists at
all (`RecExists`) is proved by it too.

### Snapshots (`SnapshotProofs`)

From the assumptions of `Snapshot`, for any names, targets and contents:

- `TypeInvariant`; `SnapshotsAreApplicable`, for which the tree being built is
  well formed after every insertion, whatever was enumerated (`TreeInv`);
  `RefusalsAreTorn`, for which an enumeration that was not torn has only seen refs
  of the namespace it began with (`EnumerationInv`); `NothingSpuriousIsRecorded`.
- `QuietCapturesReadBack` (`SnapshotReadsBack`), from `QuietInv`: while nobody
  changes the repository, what was seen is the captured refs less those still to
  list, what was inserted is what was seen, and each file read is the file.
- `ChangesAreExact` (`ChangesExact`), for trees of any depth and any number of
  components. `DiffRefTrees` is recursive over directories, and is well defined by
  the depth that is left below one (`WalkExists`). By the same induction the list at
  a directory holds exactly the changes of refs below it (`WalkListed`): an entry's
  list holds those at or inside its path (`EntryListed`, where equal entries have
  none by `EqualEntries`, since a tree is its content), each once. Lists of different
  entries share no ref, because `Components` are distinct (`ComponentsSplit`), so
  the list of all of them holds each change once too (`FlattenFacts`).

### Hooks (`HooksProofs`)

From `DirsAssumption`, `LinesAssumption` and `BoundsAssumption` of `Hooks`, for any
processes, directories and user lines. First what the code's rewriting does to any
hook (`RewrittenFacts`, `StrippedFacts`, `ReplacementFacts`): a user's lines, those
that run none of git-op's commands, stay as they are and in order; git-op's command
is there once, or not at all. Then
`HooksInv`: `TypeOK` and `YoursKept` with what makes them inductive.

- `ShapeInv`: hooks of a user's or of git-op's making are of a shape the rewriting
  accepts, and what is about to be written has git-op's command once (install) or is
  clean (uninstall).
- `YoursInv`: between reading a hook and replacing it a process holds exactly the
  user's lines of what it read; when it renames, those of the file as it is.
  Nothing is locked there: what saves the lines is that git-op's processes never
  change a user's lines and that `Compare` refuses what has changed.

### The global claim (`GlobalInstallProofs`)

With `TemplatesAssumption` of `GlobalInstall` in addition:

- `IncludesNeverDangle` (`NoDanglingInclude`), for any number of processes. It
  needs `ControlInv`, which steps each command passes through, with the hooks in
  between and what follows them; and `ClaimInv`: an install past `write_op_config`
  has its file, an uninstall past `UnsetInclude` no include, and unless installs and
  uninstalls have overlapped all running commands are of one kind, so that none
  takes away what another relies on.
- `HookTypes` (`TypeOK`), `GlobalTypes` (`GlobalTypeOK`), `UserLinesAreKept`
  (`YoursKept`) and the action property `TemplateFilesAreKept` (`UserFilesKept`), from
  `KeptInv`: `HooksInv`, the above, and `TemplateInv`, by which a template directory
  on its way to removal, from the check to the last entry, holds no file of its
  user's own and no line of theirs, whatever git-op writes into it meanwhile.

### What a command has done (`CommandProofs`)

Here each theorem is about a command that ran to its end, while others ran and
some of them died. The argument follows one command while only commands of its
kind run beside it: `QuietInv` says that then all of them are quiet, and everything
said of such a command has to survive only what it would do itself.

- `InstallsAttemptAll` (`InstallAttemptsAll`), from `InstallInv`. Installs only
  let hooks grow: a hook stays, becomes git-op's, or becomes executable
  (`InstallsGrow`). So an install that has read a hook finds it as it was or with
  git-op's command in place, and what it has left behind it stays in place.
- `InstallsTakeEffect` (`InstallTakesEffect`), from `TakesInv`: from the step that
  makes the claim on, the directory the install works at is the one Git looks in,
  and no other install changes that.
- `UninstallsRemoveAll` and `UninstallsLeaveNothing`, from `UninstallInv`: each
  directory the uninstall set out for is clean or still ahead of it. `Ahead` is the
  reason it needs care: the recorded claim that would lead it to the claimed
  directory may be taken back by another uninstall, which has then cleaned it.
- `ClaimsAreSeeded` (`ClaimSeeded`), from `SeedInv`, also when installs and
  uninstalls overlap: where nothing has died or broken off, a stock file is missing
  under an include only while an install is at the copying with that file still to
  do, or an uninstall between the removal and unsetting the include.
- `ClaimsOutliveHooks` (`ClaimOutlivesHooks`), from `OutliveInv`: unless installs and
  uninstalls overlapped or the user has configured the directory, the claim is
  recorded as long as a hook in it is git-op's, or an install is on its way to make
  it so.

### Only model-checked

Every safety invariant and action property of the passing runs is a theorem.
Liveness (`EventuallyRecorded`) stays with TLC, since fairness and `ENABLED` are out
of the prover's reach. What a violated run shows is its counterexample.

## 5. What is not modelled

- **Two reads of the tip in `undo_action`**: one in `History`, whose commands are
  atomic. What an undo overtaken by an append should do is said nowhere.
- **Linked worktrees** beyond the branches they have checked out: a restore moves
  such a branch and does not touch that worktree's files.
- **Renames** in `git status`, and partial writes of a single file. `config` and
  `description` are one value in `Restore`.
- **An installation of Git without stock templates**, and the temporary files of
  killed processes outside the claimed directory, where nothing reads them.
- **Users at work while git-op is**: `EditHook`, `EditTemplate` and the like happen
  between commands. What an editor writes within the instant between the read of a
  hook or directory and its replacement or removal is lost, as `replace_hook`'s
  documentation says of hooks.
- **`ensure_clean`**, which refuses an install in a dirty working tree: `Hooks`
  covers every install it lets through.
- **Pre-push guard**: a stateless condition on each pushed ref; a model would be
  that condition again. **Log view, show, invocation detection, argument parsing**
  read and print: no state, no order. The changes the log view shows are
  `Snapshot`'s.
- **Text**: messages, the spelling of trailers and commands, quoting.

## 6. Plan

The order follows what the system lives by: the log first, then what is built on
it.

1. Done: `OpLogAbs`, `OpLog`, `OpLogProofs`; `UndoCursor`, `History`,
   `HistoryProofs`; `Restore`, `RestoreProofs`; `Filter`, `FilterTheorems`,
   `Snapshot`, `SnapshotProofs`; `Hooks`, `HooksProofs`; `GlobalInstall`,
   `GlobalInstallProofs`, `CommandProofs`.
2. What `OpLog` and `History` say of each other: that the chain whose trailers
   `History` reads is the log `OpLog` publishes, as a refinement of one by the other.
3. `History` with the two reads of `undo_action` apart and an append in between,
   once it is settled what such an undo should do.

## 7. Running

    tlc -config MCOpLog.cfg MCOpLog
    tlapm OpLogProofs.tla
    tlapm CommandProofs.tla

Any of the configurations runs with the module its name begins with. The proofs of a
module are checked with the theorems of those it extends taken from their own
modules, so each of the eight is checked by itself.
