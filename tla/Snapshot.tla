------------------------------ MODULE Snapshot ------------------------------
(* What a snapshot is made of: the enumeration of the refs, the nested tree   *)
(* they are written as, the comparison with the parent snapshot, and the      *)
(* list of changes that git op log shows (capture, RefNode, snapshot.rs,      *)
(* changes).                                                                  *)
(*                                                                            *)
(* One process records; that several may is OpLog's matter.  Refs and files   *)
(* change while it reads them, and an earlier git-op, whose snapshots have    *)
(* another layout, may have written, or write, to the same log.               *)
(*                                                                            *)
(* A ref name is the sequence of its components below refs/.  The refs of a   *)
(* repository are a namespace: none lies inside another, as main/topic would  *)
(* inside main.  What has been enumerated need not be one.                    *)
(*                                                                            *)
(* A definition marked "mutant" is a plausible bug in the definition after it *)
(* and is used nowhere: PROJECT.json swaps it in to see a property fail.      *)
EXTENDS Naturals, SequencesExt, Filter

CONSTANTS
    Names,          \* the ref names, in the byte order of refs/a/b/c
    Components,     \* their components, in byte order
    Targets,        \* what a ref may point to
    Contents,       \* what a metadata file may contain
    Absent,         \* no file
    InitialRefs,    \* the refs before the first snapshot
    MaxChanges,     \* bound: changes by users
    MaxSnapshots    \* bound: snapshots on the log, and attempts at one

RefNames == ToSet(Names)
Files == {"config", "description"}

\* The directories a name lies in, below refs/.
Directories(name) == {SubSeq(name, 1, i) : i \in 1 .. Len(name) - 1}
IsNamespace(names) == \A m, n \in names : m \notin Directories(n)

RefMaps == UNION {[names -> Targets] : names \in SUBSET RefNames}
FileMaps == [Files -> Contents \cup {Absent}]

ASSUME NamesAssumption ==
    /\ Names \in Seq(Seq(STRING) \ {<<>>})
    /\ \A i, j \in 1 .. Len(Names) : Names[i] = Names[j] => i = j
ASSUME ComponentsAssumption ==
    /\ Components \in Seq(STRING)
    /\ \A i, j \in 1 .. Len(Components) : Components[i] = Components[j] => i = j
    /\ \A name \in RefNames : ToSet(name) \subseteq ToSet(Components)
ASSUME InitialAssumption == InitialRefs \in RefMaps /\ IsNamespace(DOMAIN InitialRefs)
ASSUME AbsentAssumption == Absent \notin Contents
ASSUME BoundsAssumption == MaxChanges \in Nat /\ MaxSnapshots \in Nat

\* RefNode: the names that are trees, and the blob at each leaf.
EmptyNode == [dirs |-> {}, leaves |-> [name \in {} |-> Absent]]
Nodes == [dirs : SUBSET Seq(STRING), leaves : RefMaps]

\* An entry for a metadata file.  An earlier version wrote an Option, a tree
\* with the file as its entry "some" or with none.
Entries ==
    [mode : {"omitted"}, oid : {Absent}] \cup [mode : {"blob"}, oid : Contents]
        \cup [mode : {"tree"}, oid : {<<>>} \cup {<<contents>> : contents \in Contents}]

Messages == {{"initial"}, {"earlier"}} \cup SUBSET ({"refs"} \cup Files)
Commits == [refs : Nodes, files : [Files -> Entries], message : Messages]

VARIABLES
    refs,       \* the refs of the repository
    files,      \* its metadata files
    log,        \* the snapshots, oldest first
    pc,         \* the step the recording process is at
    begun,      \* the refs when it began to enumerate
    pending,    \* the names it has not come to
    seen,       \* ref_values: what it has enumerated
    todo,       \* the names it has not inserted
    node,       \* the tree it builds
    read,       \* the metadata files it has read
    outcome,    \* how its last attempt ended
    torn,       \* history: refs have changed while it enumerated them
    quiet,      \* history: nothing has changed since it began
    changes, attempts               \* counters of the bounds

repoVars  == <<refs, files>>
locals    == <<begun, pending, seen, todo, node, read>>
boundVars == <<changes, attempts>>
vars      == <<repoVars, log, pc, locals, outcome, torn, quiet, boundVars>>

PCs == {"idle", "list", "insert", "description", "record"}

Init ==
    /\ refs = InitialRefs
    /\ files = [file \in Files |-> Absent]
    /\ log = <<>>
    /\ pc = "idle"
    /\ begun = EmptyNode.leaves /\ pending = {} /\ seen = EmptyNode.leaves
    /\ todo = {} /\ node = EmptyNode /\ read = files
    /\ outcome = "none"
    /\ torn = FALSE /\ quiet = TRUE
    /\ changes = 0 /\ attempts = 0

Tip == log[Len(log)]

-----------------------------------------------------------------------------
(* Users, git, and an earlier git-op.                                         *)

User ==
    /\ changes < MaxChanges
    /\ changes' = changes + 1
    /\ quiet' = FALSE
    /\ UNCHANGED <<log, pc, locals, outcome, attempts>>

\* A reference transaction.  Git keeps the refs a namespace.
UpdateRef ==
    /\ User
    /\ \E name \in RefNames, target \in Targets :
        /\ IsNamespace(DOMAIN refs \cup {name})
        /\ name \in DOMAIN refs => refs[name] # target
        /\ refs' = [n \in DOMAIN refs \cup {name} |-> IF n = name THEN target ELSE refs[n]]
    /\ torn' = (torn \/ pc = "list")
    /\ UNCHANGED files

DeleteRef ==
    /\ User
    /\ \E name \in DOMAIN refs : refs' = [n \in DOMAIN refs \ {name} |-> refs[n]]
    /\ torn' = (torn \/ pc = "list")
    /\ UNCHANGED files

EditFile ==
    /\ User
    /\ \E file \in Files, contents \in Contents \cup {Absent} :
        /\ contents # files[file]
        /\ files' = [files EXCEPT ![file] = contents]
    /\ UNCHANGED <<refs, torn>>

-----------------------------------------------------------------------------
(* capture and write_ref_tree.                                                *)

\* is_captured_ref
IsCaptured(name) == name # <<"op">> /\ ~(Len(name) > 1 /\ name[1] = "remotes")

FirstOf(names) == CHOOSE name \in names : \A i, j \in 1 .. Len(Names) :
                      Names[i] = name /\ Names[j] \in names => i <= j

At(step) == pc = step /\ UNCHANGED <<repoVars, torn, quiet, boundVars>>
Goto(step) == pc' = step /\ UNCHANGED <<log, outcome>>
Return(how) ==
    /\ pc' = "idle" /\ outcome' = how
    /\ begun' = EmptyNode.leaves /\ pending' = {} /\ seen' = EmptyNode.leaves
    /\ todo' = {} /\ node' = EmptyNode /\ read' = [file \in Files |-> Absent]

Begin ==
    /\ pc = "idle"
    /\ attempts < MaxSnapshots /\ attempts' = attempts + 1
    /\ begun' = refs /\ pending' = RefNames /\ seen' = EmptyNode.leaves /\ todo' = {}
    /\ torn' = FALSE /\ quiet' = TRUE
    /\ Goto("list")
    /\ UNCHANGED <<repoVars, node, read, changes>>

\* One item of repo.references().all().  Of a ref that is gone it may still give
\* the value it had in the packed-refs file that was opened at the start.
See(name, target) ==
    seen' = IF IsCaptured(name)
            THEN [n \in DOMAIN seen \cup {name} |-> IF n = name THEN target ELSE seen[n]]
            ELSE seen

List ==
    /\ At("list")
    /\ \E name \in pending :
        /\ pending' = pending \ {name}
        /\ \/ name \in DOMAIN refs /\ See(name, refs[name])
           \/ name \in DOMAIN begun \ DOMAIN refs /\ See(name, begun[name])
           \/ name \notin DOMAIN refs /\ UNCHANGED seen
    /\ Goto("list")
    /\ UNCHANGED <<begun, todo, node, read>>

\* validate_ref_paths compares each name with the one before it in byte order.
\* main, main-x and main/topic pass: '-' sorts before '/'.
Invalid(names) ==
    \E i, j \in 1 .. Len(Names) :
        /\ i < j /\ Names[i] \in names /\ Names[j] \in names
        /\ \A k \in i + 1 .. j - 1 : Names[k] \notin names
        /\ Names[i] \in Directories(Names[j])

Validate ==
    /\ At("list")
    /\ pending = {}
    /\ IF Invalid(DOMAIN seen) THEN Return("conflict") /\ UNCHANGED log
       ELSE /\ todo' = DOMAIN seen
            /\ Goto("insert")
            /\ UNCHANGED <<begun, pending, seen, node, read>>

\* RefNode::insert: no component on the way down may be a leaf, and the last
\* one neither a leaf nor a tree.
OnlyTheLeaf(name) == name \in node.dirs                                 \* mutant
EachTreeOnce(name) ==                                                   \* mutant
    (Directories(name) \cup {name}) \cap (node.dirs \cup DOMAIN node.leaves) # {}
Collides(name) ==
    \/ Directories(name) \cap DOMAIN node.leaves # {}
    \/ name \in node.dirs \cup DOMAIN node.leaves

Insert(name) ==
    [dirs |-> node.dirs \cup Directories(name),
     leaves |-> [n \in DOMAIN node.leaves \cup {name} |->
                   IF n = name THEN seen[name] ELSE node.leaves[n]]]

InsertNext ==
    /\ At("insert")
    /\ todo # {}
    /\ LET name == FirstOf(todo)
       IN  IF Collides(name) THEN Return("conflict") /\ UNCHANGED log
           ELSE /\ todo' = todo \ {name} /\ node' = Insert(name)
                /\ Goto("insert")
                /\ UNCHANGED <<begun, pending, seen, read>>

\* read_repository_file, of the config and then of the description.
ReadFile(file, next) ==
    /\ read' = [read EXCEPT ![file] = files[file]]
    /\ Goto(next)
    /\ UNCHANGED <<begun, pending, seen, todo, node>>

ReadConfigAgain == At("description") /\ ReadFile("config", "record")     \* mutant
ReadConfig == At("insert") /\ todo = {} /\ ReadFile("config", "description")
ReadDescription == At("description") /\ ReadFile("description", "record")

-----------------------------------------------------------------------------
(* The snapshot's tree, and the comparison with the parent's.                 *)

\* snapshot::serialize: absent files are left out.
BlobEntry(contents) == [mode |-> "blob", oid |-> contents]              \* mutant
Entry(contents) ==
    IF contents = Absent THEN [mode |-> "omitted", oid |-> Absent]
    ELSE [mode |-> "blob", oid |-> contents]

\* An earlier version's entry, and the tree it wrote the refs as.
OptionEntry(contents) ==
    [mode |-> "tree", oid |-> IF contents = Absent THEN <<>> ELSE <<contents>>]
NodeOf(map) == [dirs |-> UNION {Directories(name) : name \in DOMAIN map}, leaves |-> map]

\* snapshot::optional_blob
ObjectId(entry) == entry.oid                                            \* mutant
OptionalBlob(entry) ==
    IF entry.mode # "tree" THEN entry.oid ELSE IF entry.oid = <<>> THEN Absent ELSE entry.oid[1]

\* SnapshotEntries::read and ::from_state
EntriesOf(commit) ==
    [refs |-> commit.refs, files |-> [file \in Files |-> OptionalBlob(commit.files[file])]]
FromState == [refs |-> node, files |-> read]

\* SnapshotEntries::diff
Diff(current, previous) ==
    (IF current.refs # previous.refs THEN {"refs"} ELSE {})
        \cup {file \in Files : current.files[file] # previous.files[file]}

AppendSnapshot(message) ==
    log' = Append(log, [refs |-> node, files |-> [file \in Files |-> Entry(read[file])],
                        message |-> message])

\* The part of append_internal that OpLog abstracts: what is recorded, if anything.
Record ==
    /\ At("record")
    /\ LET changed == Diff(FromState, EntriesOf(Tip))
       IN  IF log = <<>> THEN AppendSnapshot({"initial"}) /\ Return("appended")
           ELSE IF changed = {} THEN Return("current") /\ UNCHANGED log
           ELSE AppendSnapshot(changed) /\ Return("appended")

\* An earlier git-op records a snapshot.
RecordEarlier ==
    /\ At("idle")
    /\ Len(log) < MaxSnapshots
    /\ log' = Append(log,
         [refs |-> NodeOf([name \in {n \in DOMAIN refs : IsCaptured(n)} |-> refs[name]]),
          files |-> [file \in Files |-> OptionEntry(files[file])], message |-> {"earlier"}])
    /\ UNCHANGED <<pc, locals, outcome>>

Rest == pc = "idle" /\ UNCHANGED vars

Next ==
    \/ UpdateRef \/ DeleteRef \/ EditFile \/ RecordEarlier \/ Rest
    \/ Begin \/ List \/ Validate \/ InsertNext \/ ReadConfig \/ ReadDescription \/ Record

Spec == Init /\ [][Next]_vars

-----------------------------------------------------------------------------
(* Reading snapshots back: the state to restore, and the changes.             *)

\* collect_ref_updates, of a tree or of one entry of it: git sorts a tree's
\* entries so that it visits the refs in the byte order of their names.
RefTreeTargets(tree, path) ==
    Kept(Names, {name \in DOMAIN tree.leaves : IsPrefix(path, name)})
CollectRefUpdates(tree) == RefTreeTargets(tree, <<>>)

\* What apply_state makes of a snapshot's refs.
Applied(tree) == [name \in ToSet(CollectRefUpdates(tree)) |-> tree.leaves[name]]

\* An entry of a ref tree.  Equal subtrees have equal object ids.
EntryAt(tree, path) ==
    IF path \in DOMAIN tree.leaves THEN [kind |-> "blob", oid |-> tree.leaves[path]]
    ELSE IF path \in tree.dirs THEN [kind |-> "tree", oid |-> Applied(
            [tree EXCEPT !.leaves = Restrict(@, {n \in DOMAIN @ : IsPrefix(path, n)})])]
    ELSE [kind |-> "none", oid |-> Absent]

Change(tree, kind, names) ==
    [i \in 1 .. Len(names) |-> [name |-> names[i], kind |-> kind, target |-> tree.leaves[names[i]]]]

\* The arm of diff_ref_trees for a ref that is on one side only, or turned
\* into a directory of refs, or was one.
ReplacedBy(previous, current, path) ==                                  \* mutant
    IF EntryAt(current, path).kind = "none"
    THEN Change(previous, "deleted", RefTreeTargets(previous, path))
    ELSE Change(current, "created", RefTreeTargets(current, path))
Replaced(previous, current, path) ==
    Change(previous, "deleted", RefTreeTargets(previous, path))
        \o Change(current, "created", RefTreeTargets(current, path))

\* The match in diff_ref_trees on an entry of either tree: equal subtrees are not
\* entered, and below are the changes inside two that differ.
EntryChanges(previous, current, path, below) ==
    LET was == EntryAt(previous, path)
        now == EntryAt(current, path)
    IN  IF was = now THEN <<>>
        ELSE IF was.kind = "tree" /\ now.kind = "tree" THEN below
        ELSE IF was.kind = "blob" /\ now.kind = "blob" THEN Change(current, "updated", <<path>>)
        ELSE Replaced(previous, current, path)

\* diff_ref_trees: a walk over both trees at once, component by component.
DiffRefTrees(previous, current) ==
    LET diff[path \in {<<>>} \cup previous.dirs \cup current.dirs] ==
          FlattenSeq([i \in 1 .. Len(Components) |->
            EntryChanges(previous, current, Append(path, Components[i]),
                         diff[Append(path, Components[i])])])
    IN  diff[<<>>]

\* changes
RefChanges(i) == DiffRefTrees(log[i - 1].refs, log[i].refs)

-----------------------------------------------------------------------------
(* Properties.                                                                *)

\* The types; what has been enumerated are refs that were there.
TypeOK ==
    /\ refs \in RefMaps /\ IsNamespace(DOMAIN refs)
    /\ files \in FileMaps /\ read \in FileMaps
    /\ log \in Seq(Commits)
    /\ pc \in PCs /\ outcome \in {"none", "appended", "current", "conflict"}
    /\ begun \in RefMaps /\ seen \in RefMaps
    /\ pending \subseteq RefNames /\ todo \subseteq DOMAIN seen
    /\ node \in Nodes
    /\ torn \in BOOLEAN /\ quiet \in BOOLEAN
    /\ changes \in 0 .. MaxChanges /\ attempts \in 0 .. MaxSnapshots

\* Every snapshot on the log can be applied: its refs are a namespace and its
\* trees are those the refs lie in, even if the refs were renamed into one
\* another (main to main/topic) while they were enumerated.
WellFormed(tree) ==
    /\ IsNamespace(DOMAIN tree.leaves)
    /\ tree.dirs = UNION {Directories(name) : name \in DOMAIN tree.leaves}

SnapshotsApplicable == \A i \in 1 .. Len(log) : WellFormed(log[i].refs)

\* A capture is refused (Error::ConflictingRefs) only if the refs changed while
\* they were enumerated; names that are alike (main, main-x) never are a reason,
\* so that no repository is beyond recording.
ConflictOnlyIfTorn == pc = "idle" /\ outcome = "conflict" => torn

\* A snapshot of a repository that nobody changed meanwhile reads back as that
\* repository (snapshot::read after serialize): every captured ref, and each
\* file as it was, absent ones absent.
StateOf(commit) == [refs |-> Applied(commit.refs), files |-> EntriesOf(commit).files]
Present == [refs |-> Restrict(refs, {name \in DOMAIN refs : IsCaptured(name)}), files |-> files]

SnapshotReadsBack ==
    [][pc = "record" /\ pc' = "idle" /\ quiet => log' # <<>> /\ StateOf(log'[Len(log')]) = Present]_vars

\* A generated snapshot is one of a change, and its message names the parts that
\* changed, also next to snapshots in an earlier version's layout: an upgrade
\* alone records nothing.
Recorded(commit) ==
    [refs |-> commit.refs.leaves,
     files |-> [file \in Files |-> CHOOSE contents \in Contents \cup {Absent} :
                  commit.files[file] \in {Entry(contents), OptionEntry(contents)}]]

NoSpuriousSnapshot ==
    \A i \in 2 .. Len(log) :
        LET was == Recorded(log[i - 1])
            now == Recorded(log[i])
        IN  log[i].message # {"earlier"} =>
              /\ was # now
              /\ "refs" \in log[i].message <=> was.refs # now.refs
              /\ \A file \in Files : file \in log[i].message <=> was.files[file] # now.files[file]

\* The list of changed refs that the log shows for a snapshot is exactly the
\* difference to its parent: every ref that was created, deleted or moved, once
\* and with its target, refs that became directories of refs included.
Difference(was, now) ==
    {[name |-> name, kind |-> "deleted", target |-> was[name]] : name \in DOMAIN was \ DOMAIN now}
    \cup {[name |-> name, kind |-> "created", target |-> now[name]] : name \in DOMAIN now \ DOMAIN was}
    \cup {[name |-> name, kind |-> "updated", target |-> now[name]] :
            name \in {n \in DOMAIN was \cap DOMAIN now : was[n] # now[n]}}

ChangesExact ==
    \A i \in 2 .. Len(log) :
        LET difference == Difference(log[i - 1].refs.leaves, log[i].refs.leaves)
        IN  ToSet(RefChanges(i)) = difference /\ Len(RefChanges(i)) = Cardinality(difference)
=============================================================================
