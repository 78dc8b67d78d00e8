--------------------------- MODULE SnapshotProofs ---------------------------
(* Theorems about Snapshot, for every set of ref names and every bound.       *)
(*                                                                            *)
(* validate_ref_paths alone does not keep a tree from being both a ref and a  *)
(* directory of refs: TreeInv says that RefNode::insert does, whatever was    *)
(* enumerated, and that it refuses nothing that was a namespace.  QuietInv    *)
(* says what an undisturbed capture has read so far.  The walk over two trees *)
(* is followed by induction on the depth that is left below a directory.      *)
EXTENDS Snapshot, FilterTheorems, FiniteSetTheorems

TreeInv ==
    /\ pc \in {"idle", "list"} => node = EmptyNode
    /\ pc = "insert" => /\ DOMAIN node.leaves \cup todo \subseteq DOMAIN seen
                        /\ DOMAIN node.leaves \cap todo = {}
    /\ WellFormed(node)
    /\ SnapshotsApplicable

EnumerationInv ==
    /\ pc = "list" /\ ~torn => refs = begun /\ DOMAIN seen \subseteq DOMAIN refs
    /\ pc = "insert" /\ ~torn => IsNamespace(DOMAIN seen)
    /\ ConflictOnlyIfTorn

-----------------------------------------------------------------------------
(* Names, and maps from names to targets.                                     *)

LEMMA NamesAreSequences == RefNames \subseteq Seq(STRING) \ {<<>>}
BY NamesAssumption DEF RefNames, ToSet

\* The directories of a name are shorter than it is.
LEMMA DirectoriesAreShorter ==
    ASSUME NEW name \in Seq(STRING), NEW d \in Directories(name)
    PROVE  d \in Seq(STRING) /\ Len(d) < Len(name)
<1>1. PICK i \in 1 .. Len(name) - 1 : d = SubSeq(name, 1, i)  BY DEF Directories
<1>2. Len(name) \in Nat  OBVIOUS
<1>3. 1 \in 1 .. Len(name) + 1 /\ i \in 0 .. Len(name) /\ 1 <= i  BY <1>1, <1>2
<1>4. d \in Seq(STRING) /\ Len(d) = i - 1 + 1  BY <1>1, <1>3, SubSeqProperties
<1> QED  BY <1>1, <1>2, <1>4

LEMMA RefMapsAreFunctions ==
    ASSUME NEW names \in SUBSET RefNames, NEW map \in [names -> Targets]
    PROVE  map \in RefMaps
BY DEF RefMaps

LEMMA RefMapFacts ==
    ASSUME NEW map \in RefMaps
    PROVE  DOMAIN map \subseteq RefNames /\ map \in [DOMAIN map -> Targets]
BY DEF RefMaps

LEMMA EmptyNodeFacts ==
    /\ EmptyNode \in Nodes /\ EmptyNode.leaves \in RefMaps /\ DOMAIN EmptyNode.leaves = {}
    /\ WellFormed(EmptyNode)
<1>1. EmptyNode.leaves \in [{} -> Targets] /\ DOMAIN EmptyNode.leaves = {} /\ EmptyNode.dirs = {}
  BY DEF EmptyNode
<1>2. EmptyNode.leaves \in RefMaps  BY <1>1, RefMapsAreFunctions
<1>3. EmptyNode \in Nodes  BY <1>1, <1>2 DEF EmptyNode, Nodes
<1>4. WellFormed(EmptyNode)  BY <1>1 DEF WellFormed, IsNamespace
<1> QED  BY <1>1, <1>2, <1>3, <1>4

\* A subset of a namespace is one, and so is every set of refs git lets be.
LEMMA SubsetOfNamespace ==
    ASSUME NEW names, NEW subset \in SUBSET names, IsNamespace(names)
    PROVE  IsNamespace(subset)
BY DEF IsNamespace

\* What RefNode::insert adds keeps the tree well-formed: a name that collides
\* with nothing lies in no leaf and is no tree.
LEMMA InsertKeepsTree ==
    ASSUME WellFormed(node), NEW name \in Seq(STRING), ~Collides(name)
    PROVE  WellFormed(Insert(name))
<1> DEFINE Old == DOMAIN node.leaves
           New == Old \cup {name}
<1>1. Insert(name).dirs = node.dirs \cup Directories(name) /\ DOMAIN Insert(name).leaves = New
  BY DEF Insert
<1>2. node.dirs = UNION {Directories(n) : n \in Old} /\ IsNamespace(Old)  BY DEF WellFormed
<1>3. ASSUME NEW m \in New, NEW n \in New, m \in Directories(n) PROVE FALSE
  <2>1. CASE m \in Old /\ n \in Old  BY <1>2, <1>3, <2>1 DEF IsNamespace
  <2>2. CASE m \in Old /\ n = name  BY <1>3, <2>2 DEF Collides
  <2>3. CASE m = name /\ n \in Old
    <3>1. name \in node.dirs  BY <1>2, <1>3, <2>3
    <3> QED  BY <3>1 DEF Collides
  <2>4. CASE m = name /\ n = name
    <3>1. Len(name) < Len(name) /\ Len(name) \in Nat  BY <1>3, <2>4, DirectoriesAreShorter
    <3> QED  BY <3>1
  <2> QED  BY <2>1, <2>2, <2>3, <2>4
<1>4. IsNamespace(New)  BY <1>3 DEF IsNamespace
<1>5. node.dirs \cup Directories(name) = UNION {Directories(n) : n \in New}  BY <1>2
<1> QED  BY <1>1, <1>4, <1>5 DEF WellFormed

\* A name of a namespace collides with nothing that is built from its other
\* names.
LEMMA NamespaceNeverCollides ==
    ASSUME WellFormed(node), NEW names, IsNamespace(names), NEW name \in names,
           DOMAIN node.leaves \subseteq names, name \notin DOMAIN node.leaves
    PROVE  ~Collides(name)
<1>1. ASSUME NEW d \in Directories(name), d \in DOMAIN node.leaves PROVE FALSE
  BY <1>1 DEF IsNamespace
<1>2. ASSUME name \in node.dirs PROVE FALSE
  <2>1. PICK n \in DOMAIN node.leaves : name \in Directories(n)  BY <1>2 DEF WellFormed
  <2> QED  BY <2>1 DEF IsNamespace
<1> QED  BY <1>1, <1>2 DEF Collides

\* Neither does validate_ref_paths find anything in one.
LEMMA NamespaceIsValid ==
    ASSUME NEW names, IsNamespace(names)
    PROVE  ~Invalid(names)
BY DEF Invalid, IsNamespace

-----------------------------------------------------------------------------
(* Entries.                                                                   *)

LEMMA EntryFacts ==
    ASSUME NEW contents \in Contents \cup {Absent}
    PROVE  /\ Entry(contents) \in Entries /\ OptionEntry(contents) \in Entries
           /\ OptionalBlob(Entry(contents)) = contents
           /\ OptionalBlob(OptionEntry(contents)) = contents
<1>1. CASE contents = Absent
  BY <1>1 DEF Entry, OptionEntry, OptionalBlob, Entries
<1>2. CASE contents # Absent
  <2>1. Entry(contents) = [mode |-> "blob", oid |-> contents]  BY <1>2 DEF Entry
  <2>2. OptionEntry(contents) = [mode |-> "tree", oid |-> <<contents>>]  BY <1>2 DEF OptionEntry
  <2>3. contents \in Contents  BY <1>2
  <2>4. <<contents>> # <<>> /\ <<contents>>[1] = contents  OBVIOUS
  <2>5. Entry(contents) \in Entries /\ OptionEntry(contents) \in Entries
    BY <2>1, <2>2, <2>3 DEF Entries
  <2> QED  BY <2>1, <2>2, <2>4, <2>5 DEF OptionalBlob
<1> QED  BY <1>1, <1>2

\* Every entry is one of a file's, in one layout or the other.
LEMMA EntriesAreOfFiles ==
    ASSUME NEW entry \in Entries
    PROVE  \E contents \in Contents \cup {Absent} : entry \in {Entry(contents), OptionEntry(contents)}
<1>1. CASE entry \in [mode : {"omitted"}, oid : {Absent}]
  <2>1. entry = Entry(Absent)  BY <1>1 DEF Entry
  <2> QED  BY <2>1
<1>2. CASE entry \in [mode : {"blob"}, oid : Contents]
  <2>1. entry.oid \in Contents /\ entry = [mode |-> "blob", oid |-> entry.oid]  BY <1>2
  <2>2. entry = Entry(entry.oid)  BY <2>1, AbsentAssumption DEF Entry
  <2> QED  BY <2>1, <2>2
<1>3. CASE entry \in [mode : {"tree"}, oid : {<<>>} \cup {<<contents>> : contents \in Contents}]
  <2>1. entry = [mode |-> "tree", oid |-> entry.oid]  BY <1>3
  <2>2. CASE entry.oid = <<>>
    <3>1. entry = OptionEntry(Absent)  BY <2>1, <2>2 DEF OptionEntry
    <3> QED  BY <3>1
  <2>3. CASE entry.oid # <<>>
    <3>1. PICK contents \in Contents : entry.oid = <<contents>>  BY <1>3, <2>3
    <3>2. entry = OptionEntry(contents)  BY <2>1, <3>1, AbsentAssumption DEF OptionEntry
    <3> QED  BY <3>2
  <2> QED  BY <2>2, <2>3
<1> QED  BY <1>1, <1>2, <1>3 DEF Entries

LEMMA DiffNamesParts ==
    ASSUME NEW current, NEW previous
    PROVE  Diff(current, previous) \in SUBSET ({"refs"} \cup Files)
BY DEF Diff

-----------------------------------------------------------------------------
(* The type invariant.                                                        *)

LEMMA TypeInit == Init => TypeOK
<1> SUFFICES ASSUME Init PROVE TypeOK  OBVIOUS
<1>1. [file \in Files |-> Absent] \in FileMaps  BY DEF FileMaps
<1>2. files \in FileMaps /\ read \in FileMaps  BY <1>1 DEF Init
<1>3. begun \in RefMaps /\ seen \in RefMaps /\ node \in Nodes /\ todo \subseteq DOMAIN seen
  BY EmptyNodeFacts DEF Init
<1>4. refs \in RefMaps /\ IsNamespace(DOMAIN refs) /\ log \in Seq(Commits)
  BY InitialAssumption DEF Init
<1>5. changes \in 0 .. MaxChanges /\ attempts \in 0 .. MaxSnapshots
  BY BoundsAssumption DEF Init
<1>6. /\ pc \in PCs /\ outcome \in {"none", "appended", "current", "conflict"}
      /\ pending \subseteq RefNames /\ torn \in BOOLEAN /\ quiet \in BOOLEAN
  BY DEF Init, PCs
<1> QED  BY <1>2, <1>3, <1>4, <1>5, <1>6, Zenon DEF TypeOK

LEMMA RepositoryTypes ==
    ASSUME TypeOK, UpdateRef \/ DeleteRef \/ EditFile
    PROVE  TypeOK'
<1>a. User  BY DEF UpdateRef, DeleteRef, EditFile
<1>b. quiet' \in BOOLEAN /\ UNCHANGED <<log, pc, begun, pending, seen, todo, node, read, outcome, attempts>>
  BY <1>a DEF User, locals
<1>c. changes' \in 0 .. MaxChanges  BY <1>a, BoundsAssumption DEF TypeOK, User
<1>d. torn' = (torn \/ pc = "list") \/ torn' = torn  BY Zenon DEF UpdateRef, DeleteRef, EditFile
<1>e. torn' \in BOOLEAN  BY <1>d, Zenon DEF TypeOK
<1>1. files' \in FileMaps
  BY DEF TypeOK, UpdateRef, DeleteRef, EditFile, FileMaps
<1>2. refs' \in RefMaps /\ IsNamespace(DOMAIN refs')
  <2>1. CASE UpdateRef
    <3>1. PICK name \in RefNames, target \in Targets :
            /\ IsNamespace(DOMAIN refs \cup {name})
            /\ refs' = [n \in DOMAIN refs \cup {name} |-> IF n = name THEN target ELSE refs[n]]
      BY <2>1 DEF UpdateRef
    <3>2. DOMAIN refs \subseteq RefNames /\ refs \in [DOMAIN refs -> Targets]
      BY RefMapFacts DEF TypeOK
    <3>3. refs' \in [DOMAIN refs \cup {name} -> Targets]  BY <3>1, <3>2
    <3>4. refs' \in RefMaps  BY <3>2, <3>3, RefMapsAreFunctions
    <3> QED  BY <3>1, <3>4
  <2>2. CASE DeleteRef
    <3>1. PICK name \in DOMAIN refs : refs' = [n \in DOMAIN refs \ {name} |-> refs[n]]
      BY <2>2 DEF DeleteRef
    <3>2. DOMAIN refs \subseteq RefNames /\ refs \in [DOMAIN refs -> Targets]
      BY RefMapFacts DEF TypeOK
    <3>3. refs' \in [DOMAIN refs \ {name} -> Targets]  BY <3>1, <3>2
    <3>4. refs' \in RefMaps  BY <3>2, <3>3, RefMapsAreFunctions
    <3>5. IsNamespace(DOMAIN refs \ {name})  BY SubsetOfNamespace DEF TypeOK
    <3> QED  BY <3>1, <3>4, <3>5
  <2>3. CASE EditFile  BY <2>3 DEF EditFile, TypeOK
  <2> QED  BY <2>1, <2>2, <2>3
<1> QED  BY <1>b, <1>c, <1>e, <1>1, <1>2, Zenon DEF TypeOK

\* An attempt that returns leaves nothing behind.
LEMMA ReturnTypes ==
    ASSUME TypeOK, UNCHANGED <<repoVars, torn, quiet, boundVars>>, log' \in Seq(Commits),
           NEW how \in {"appended", "current", "conflict"}, Return(how)
    PROVE  TypeOK'
<1>1. [file \in Files |-> Absent] \in FileMaps  BY DEF FileMaps
<1>2. begun' \in RefMaps /\ seen' \in RefMaps /\ node' \in Nodes /\ todo' \subseteq DOMAIN seen'
      /\ pending' \subseteq RefNames
  BY EmptyNodeFacts DEF Return
<1>3. read' \in FileMaps  BY <1>1 DEF Return
<1> QED  BY <1>2, <1>3 DEF TypeOK, Return, PCs, repoVars, boundVars

LEMMA SeeTypes ==
    ASSUME seen \in RefMaps, NEW name \in RefNames, NEW target \in Targets, See(name, target)
    PROVE  /\ seen' \in RefMaps
           /\ DOMAIN seen \subseteq DOMAIN seen' /\ DOMAIN seen' \subseteq DOMAIN seen \cup {name}
<1>1. CASE IsCaptured(name)
  <2>1. seen' = [n \in DOMAIN seen \cup {name} |-> IF n = name THEN target ELSE seen[n]]
    BY <1>1 DEF See
  <2>2. DOMAIN seen \subseteq RefNames /\ seen \in [DOMAIN seen -> Targets]  BY RefMapFacts
  <2>3. seen' \in [DOMAIN seen \cup {name} -> Targets]  BY <2>1, <2>2
  <2>4. seen' \in RefMaps  BY <2>2, <2>3, RefMapsAreFunctions
  <2> QED  BY <2>1, <2>4
<1>2. CASE ~IsCaptured(name)  BY <1>2 DEF See
<1> QED  BY <1>1, <1>2

\* What an enumeration can have seen after one more item.
LEMMA ListSees ==
    ASSUME TypeOK, List
    PROVE  /\ seen' \in RefMaps /\ pending' \subseteq RefNames /\ DOMAIN seen \subseteq DOMAIN seen'
           /\ DOMAIN seen' \subseteq DOMAIN seen \cup DOMAIN refs \cup DOMAIN begun
<1>1. PICK name \in pending :
        /\ pending' = pending \ {name}
        /\ \/ name \in DOMAIN refs /\ See(name, refs[name])
           \/ name \in DOMAIN begun \ DOMAIN refs /\ See(name, begun[name])
           \/ name \notin DOMAIN refs /\ UNCHANGED seen
  BY DEF List
<1>2. name \in RefNames /\ pending' \subseteq RefNames  BY <1>1 DEF TypeOK
<1>3. CASE name \in DOMAIN refs /\ See(name, refs[name])
  <2>1. refs[name] \in Targets  BY <1>3, RefMapFacts DEF TypeOK
  <2> QED  BY <1>2, <1>3, <2>1, SeeTypes DEF TypeOK
<1>4. CASE name \in DOMAIN begun \ DOMAIN refs /\ See(name, begun[name])
  <2>1. begun[name] \in Targets  BY <1>4, RefMapFacts DEF TypeOK
  <2> QED  BY <1>2, <1>4, <2>1, SeeTypes DEF TypeOK
<1>5. CASE UNCHANGED seen  BY <1>2, <1>5 DEF TypeOK
<1> QED  BY <1>1, <1>3, <1>4, <1>5

\* The name that comes next is one of those that remain.
LEMMA FirstRemains ==
    ASSUME NEW names \in SUBSET RefNames, names # {}
    PROVE  FirstOf(names) \in names
<1> DEFINE Places == {i \in 1 .. Len(Names) : Names[i] \in names}
<1>1. Len(Names) \in Nat /\ Places \subseteq Nat  BY NamesAssumption
<1>2. \A name \in RefNames : \E i \in 1 .. Len(Names) : Names[i] = name
  BY NamesAssumption DEF RefNames, ToSet
<1>3. Places # {}  BY <1>2
<1>4. PICK least \in Places : \A i \in Places : ~ (<<i, least>> \in OpToRel(<, Nat))
  <2> HIDE DEF Places
  <2> QED  BY <1>1, <1>3, NatLessThanWellFounded, WFMin, Zenon
<1>5. \A i \in Places : least <= i
  <2> HIDE DEF Places
  <2>1. \A i \in Places : ~ (i < least)  BY <1>1, <1>4, Zenon DEF OpToRel
  <2> QED  BY <1>1, <2>1
<1>6. \A i, j \in 1 .. Len(Names) : Names[i] = Names[least] /\ Names[j] \in names => i <= j
  <2> SUFFICES ASSUME NEW i \in 1 .. Len(Names), NEW j \in 1 .. Len(Names),
                      Names[i] = Names[least], Names[j] \in names
               PROVE  i <= j
    OBVIOUS
  <2>1. i = least  BY <1>4, NamesAssumption
  <2>2. j \in Places  OBVIOUS
  <2> QED  BY <1>5, <2>1, <2>2
<1>7. Names[least] \in names  BY <1>4
<1> QED  BY <1>6, <1>7, Zenon DEF FirstOf

LEMMA InsertTypes ==
    ASSUME TypeOK, NEW name \in todo
    PROVE  Insert(name) \in Nodes
<1>1. DOMAIN seen \subseteq RefNames /\ seen \in [DOMAIN seen -> Targets] /\ name \in DOMAIN seen
  BY RefMapFacts DEF TypeOK
<1>2. node.dirs \in SUBSET Seq(STRING) /\ node.leaves \in RefMaps  BY DEF TypeOK, Nodes
<1>3. DOMAIN node.leaves \subseteq RefNames /\ node.leaves \in [DOMAIN node.leaves -> Targets]
  BY <1>2, RefMapFacts
<1>4. Insert(name).leaves \in [DOMAIN node.leaves \cup {name} -> Targets]  BY <1>1, <1>3 DEF Insert
<1>5. Insert(name).leaves \in RefMaps  BY <1>1, <1>3, <1>4, RefMapsAreFunctions
<1>6. name \in Seq(STRING)  BY <1>1, NamesAreSequences
<1>7. Directories(name) \subseteq Seq(STRING)  BY <1>6, DirectoriesAreShorter
<1>8. Insert(name).dirs \in SUBSET Seq(STRING)  BY <1>2, <1>7 DEF Insert
<1>9. Insert(name) = [dirs |-> Insert(name).dirs, leaves |-> Insert(name).leaves]  BY DEF Insert
<1> QED  BY <1>5, <1>8, <1>9 DEF Nodes

\* Every snapshot that is written is a commit of the model.
LEMMA AppendedIsCommit ==
    ASSUME TypeOK, NEW message \in Messages
    PROVE  [refs |-> node, files |-> [file \in Files |-> Entry(read[file])], message |-> message]
             \in Commits
<1>1. \A file \in Files : Entry(read[file]) \in Entries
  BY EntryFacts DEF TypeOK, FileMaps
<1> QED  BY <1>1 DEF TypeOK, Commits

LEMMA EarlierIsCommit ==
    ASSUME TypeOK
    PROVE  /\ [name \in {n \in DOMAIN refs : IsCaptured(n)} |-> refs[name]] \in RefMaps
           /\ [refs |-> NodeOf([name \in {n \in DOMAIN refs : IsCaptured(n)} |-> refs[name]]),
               files |-> [file \in Files |-> OptionEntry(files[file])], message |-> {"earlier"}]
                 \in Commits
<1> DEFINE captured == {n \in DOMAIN refs : IsCaptured(n)}
           map == [name \in captured |-> refs[name]]
<1>1. DOMAIN refs \subseteq RefNames /\ refs \in [DOMAIN refs -> Targets]
  BY RefMapFacts DEF TypeOK
<1>2. captured \in SUBSET RefNames /\ map \in [captured -> Targets]  BY <1>1
<1>3. map \in RefMaps  BY <1>2, RefMapsAreFunctions
<1>4. \A name \in captured : Directories(name) \subseteq Seq(STRING)
  BY <1>2, NamesAreSequences, DirectoriesAreShorter
<1>5. NodeOf(map) \in Nodes
  <2>1. UNION {Directories(name) : name \in DOMAIN map} \in SUBSET Seq(STRING)  BY <1>4
  <2> HIDE DEF map
  <2> QED  BY <1>3, <2>1 DEF NodeOf, Nodes
<1>6. [file \in Files |-> OptionEntry(files[file])] \in [Files -> Entries]
  <2>1. \A file \in Files : OptionEntry(files[file]) \in Entries
    BY EntryFacts DEF TypeOK, FileMaps
  <2> QED  BY <2>1
<1>7. {"earlier"} \in Messages  BY DEF Messages
<1> HIDE DEF map
<1>8. [refs |-> NodeOf(map), files |-> [file \in Files |-> OptionEntry(files[file])],
       message |-> {"earlier"}] \in Commits
  BY <1>5, <1>6, <1>7 DEF Commits
<1> QED  BY <1>3, <1>8 DEF map

\* What Record does to the log.
Recording(message) == message \in Messages /\ AppendSnapshot(message)

LEMMA RecordCases ==
    ASSUME TypeOK, Record
    PROVE  \/ log' = log /\ Return("current")
           \/ /\ Return("appended")
              /\ \/ log = <<>> /\ Recording({"initial"})
                 \/ /\ log # <<>> /\ Diff(FromState, EntriesOf(Tip)) # {}
                    /\ Recording(Diff(FromState, EntriesOf(Tip)))
<1>1. {"initial"} \in Messages /\ Diff(FromState, EntriesOf(Tip)) \in Messages
  BY DiffNamesParts DEF Messages
<1> QED  BY <1>1, Zenon DEF Record, Recording

LEMMA TypeStep == TypeOK /\ [Next]_vars => TypeOK'
<1> SUFFICES ASSUME TypeOK, [Next]_vars PROVE TypeOK'  OBVIOUS
<1>1. CASE UpdateRef \/ DeleteRef \/ EditFile  BY <1>1, RepositoryTypes
<1>2. CASE RecordEarlier
  <2>1. log' \in Seq(Commits)  BY <1>2, EarlierIsCommit DEF RecordEarlier, TypeOK
  <2> QED  BY <1>2, <2>1 DEF RecordEarlier, At, TypeOK, locals, repoVars, boundVars
<1>3. CASE Begin
  <2>1. seen' \in RefMaps /\ DOMAIN seen' = {}  BY <1>3, EmptyNodeFacts DEF Begin
  <2>2. attempts' \in 0 .. MaxSnapshots  BY <1>3, BoundsAssumption DEF Begin, TypeOK
  <2> QED  BY <1>3, <2>1, <2>2 DEF Begin, Goto, TypeOK, PCs, repoVars
<1>4. CASE List
  <2>1. seen' \in RefMaps /\ pending' \subseteq RefNames /\ DOMAIN seen \subseteq DOMAIN seen'
    BY <1>4, ListSees
  <2> QED  BY <1>4, <2>1 DEF List, At, Goto, TypeOK, repoVars, boundVars
<1>5. CASE Validate
  <2>1. UNCHANGED <<repoVars, torn, quiet, boundVars, log>>  BY <1>5 DEF Validate, At, Goto
  <2>2. CASE Return("conflict")
    <3>1. log' \in Seq(Commits)  BY <2>1 DEF TypeOK
    <3> QED  BY <2>1, <2>2, <3>1, ReturnTypes
  <2>3. CASE todo' = DOMAIN seen /\ Goto("insert") /\ UNCHANGED <<begun, pending, seen, node, read>>
    BY <2>1, <2>3 DEF Goto, TypeOK, PCs, repoVars, boundVars
  <2> QED  BY <1>5, <2>2, <2>3 DEF Validate
<1>6. CASE InsertNext
  <2>1. UNCHANGED <<repoVars, torn, quiet, boundVars, log>> /\ todo # {}
    BY <1>6 DEF InsertNext, At, Goto
  <2>2. FirstOf(todo) \in todo  BY <2>1, FirstRemains, RefMapFacts DEF TypeOK
  <2>3. CASE Return("conflict")
    <3>1. log' \in Seq(Commits)  BY <2>1 DEF TypeOK
    <3> QED  BY <2>1, <2>3, <3>1, ReturnTypes
  <2>4. CASE /\ todo' = todo \ {FirstOf(todo)} /\ node' = Insert(FirstOf(todo))
             /\ Goto("insert") /\ UNCHANGED <<begun, pending, seen, read>>
    <3>1. node' \in Nodes  BY <2>2, <2>4, InsertTypes
    <3> QED  BY <2>1, <2>4, <3>1 DEF Goto, TypeOK, PCs, repoVars, boundVars
  <2> QED  BY <1>6, <2>3, <2>4 DEF InsertNext
<1>7. CASE ReadConfig \/ ReadDescription
  <2>1. read' \in FileMaps
    BY <1>7 DEF ReadConfig, ReadDescription, ReadFile, TypeOK, FileMaps, Files
  <2> QED  BY <1>7, <2>1 DEF ReadConfig, ReadDescription, ReadFile, At, Goto, TypeOK, PCs, repoVars, boundVars
<1>8. CASE Record
  <2>1. UNCHANGED <<repoVars, torn, quiet, boundVars>>  BY <1>8 DEF Record, At
  <2>2. CASE log' = log /\ Return("current")
    <3>1. log' \in Seq(Commits)  BY <2>2 DEF TypeOK
    <3> QED  BY <2>1, <2>2, <3>1, ReturnTypes
  <2>3. ASSUME NEW message, Recording(message), Return("appended") PROVE TypeOK'
    <3>1. log' \in Seq(Commits)  BY <2>3, AppendedIsCommit DEF Recording, AppendSnapshot, TypeOK
    <3> QED  BY <2>1, <2>3, <3>1, ReturnTypes
  <2> QED  BY <1>8, <2>2, <2>3, RecordCases
<1>9. CASE Rest \/ UNCHANGED vars
  BY <1>9 DEF Rest, vars, TypeOK, locals, repoVars, boundVars
<1> QED  BY <1>1, <1>2, <1>3, <1>4, <1>5, <1>6, <1>7, <1>8, <1>9 DEF Next

\* Type correctness, for any set of ref names.
THEOREM TypeInvariant == Spec => []TypeOK
BY TypeInit, TypeStep, PTL DEF Spec

-----------------------------------------------------------------------------
(* Snapshots can be applied, and captures are not refused without reason.     *)

LEMMA ReturnKeepsTree ==
    ASSUME NEW how, Return(how), \A i \in 1 .. Len(log') : WellFormed(log'[i].refs)
    PROVE  TreeInv'
<1>1. node' = EmptyNode /\ pc' = "idle"  BY DEF Return
<1>2. WellFormed(node)'  BY <1>1, EmptyNodeFacts DEF WellFormed
<1> QED  BY <1>1, <1>2 DEF TreeInv, SnapshotsApplicable, WellFormed

\* A commit that is appended is the last; the others are as before.
LEMMA AppendFrame ==
    ASSUME log \in Seq(Commits), NEW new \in Commits, log' = Append(log, new)
    PROVE  /\ Len(log) \in Nat /\ Len(log') = Len(log) + 1 /\ log' \in Seq(Commits)
           /\ log'[Len(log) + 1] = new
           /\ \A i \in 1 .. Len(log) : log'[i] = log[i]
OBVIOUS

LEMMA AppendKeepsTrees ==
    ASSUME log \in Seq(Commits), NEW new \in Commits, log' = Append(log, new),
           SnapshotsApplicable, WellFormed(new.refs)
    PROVE  \A i \in 1 .. Len(log') : WellFormed(log'[i].refs)
BY AppendFrame DEF SnapshotsApplicable

\* The trees of an earlier version are those of a set of refs git let be.
LEMMA EarlierIsWellFormed ==
    ASSUME TypeOK
    PROVE  WellFormed(NodeOf([name \in {n \in DOMAIN refs : IsCaptured(n)} |-> refs[name]]))
<1> DEFINE captured == {n \in DOMAIN refs : IsCaptured(n)}
<1>1. IsNamespace(captured)  BY SubsetOfNamespace DEF TypeOK
<1> QED  BY <1>1 DEF NodeOf, WellFormed

LEMMA TreeStep == TypeOK /\ TreeInv /\ [Next]_vars => TreeInv'
<1> SUFFICES ASSUME TypeOK, TreeInv, [Next]_vars PROVE TreeInv'  OBVIOUS
<1>0. SnapshotsApplicable /\ \A i \in 1 .. Len(log) : WellFormed(log[i].refs)
  BY DEF TreeInv, SnapshotsApplicable
<1>1. ASSUME UNCHANGED <<log, node>>, pc' \in {"idle", "list"} => pc \in {"idle", "list"},
             pc' = "insert" => pc = "insert" /\ UNCHANGED <<seen, todo>>
      PROVE  TreeInv'
  BY <1>1 DEF TreeInv, SnapshotsApplicable, WellFormed
<1>2. CASE UpdateRef \/ DeleteRef \/ EditFile
  BY <1>1, <1>2 DEF UpdateRef, DeleteRef, EditFile, User, locals
<1>3. CASE Begin \/ List \/ ReadConfig \/ ReadDescription \/ Rest \/ UNCHANGED vars
  BY <1>1, <1>3 DEF Begin, List, ReadConfig, ReadDescription, ReadFile, At, Goto, Rest, vars, locals
<1>4. CASE RecordEarlier
  <2>1. log' \in Seq(Commits) /\ \A i \in 1 .. Len(log') : WellFormed(log'[i].refs)
    BY <1>0, <1>4, EarlierIsCommit, EarlierIsWellFormed, AppendKeepsTrees, AppendFrame
       DEF RecordEarlier, TypeOK
  <2>2. UNCHANGED <<node, pc, seen, todo>> /\ pc = "idle"  BY <1>4 DEF RecordEarlier, At, locals
  <2> QED  BY <2>1, <2>2 DEF TreeInv, SnapshotsApplicable, WellFormed
<1>5. CASE Validate
  <2>1. CASE Return("conflict")
    <3>1. log' = log  BY <1>5, <2>1 DEF Validate, Goto
    <3> QED  BY <1>0, <2>1, <3>1, ReturnKeepsTree
  <2>2. CASE todo' = DOMAIN seen /\ Goto("insert") /\ UNCHANGED <<begun, pending, seen, node, read>>
    <3>1. node = EmptyNode /\ DOMAIN node.leaves = {}
      BY <1>5, EmptyNodeFacts DEF Validate, At, TreeInv
    <3> QED  BY <2>2, <3>1 DEF Goto, TreeInv, SnapshotsApplicable, WellFormed
  <2> QED  BY <1>5, <2>1, <2>2 DEF Validate
<1>6. CASE InsertNext
  <2>1. CASE Return("conflict")
    <3>1. log' = log  BY <1>6, <2>1 DEF InsertNext, Goto
    <3> QED  BY <1>0, <2>1, <3>1, ReturnKeepsTree
  <2>2. CASE /\ ~Collides(FirstOf(todo))
             /\ todo' = todo \ {FirstOf(todo)} /\ node' = Insert(FirstOf(todo))
             /\ Goto("insert") /\ UNCHANGED <<begun, pending, seen, read>>
    <3> DEFINE name == FirstOf(todo)
    <3>1. name \in todo  BY <1>6, FirstRemains, RefMapFacts DEF InsertNext, TypeOK
    <3>2. name \in Seq(STRING)  BY <3>1, RefMapFacts, NamesAreSequences DEF TypeOK
    <3>3. WellFormed(Insert(name))  BY <2>2, <3>2, InsertKeepsTree DEF TreeInv
    <3>4. DOMAIN Insert(name).leaves = DOMAIN node.leaves \cup {name}  BY DEF Insert
    <3>5. pc = "insert"  BY <1>6 DEF InsertNext, At
    <3> HIDE DEF name
    <3>6. /\ node' = Insert(name) /\ todo' = todo \ {name} /\ seen' = seen /\ log' = log
          /\ pc' = "insert"
      BY <2>2 DEF name, Goto
    <3>7. WellFormed(node)'  BY <3>3, <3>6 DEF WellFormed
    <3>8. DOMAIN node'.leaves \cup todo' \subseteq DOMAIN seen' /\ DOMAIN node'.leaves \cap todo' = {}
      BY <3>1, <3>4, <3>5, <3>6 DEF TreeInv
    <3> QED  BY <1>0, <3>6, <3>7, <3>8 DEF TreeInv, SnapshotsApplicable, WellFormed
  <2> QED  BY <1>6, <2>1, <2>2 DEF InsertNext
<1>7. CASE Record
  <2>1. CASE log' = log /\ Return("current")  BY <1>0, <2>1, ReturnKeepsTree
  <2>2. ASSUME NEW message, Recording(message), Return("appended") PROVE TreeInv'
    <3>1. \A i \in 1 .. Len(log') : WellFormed(log'[i].refs)
      BY <1>0, <2>2, AppendedIsCommit, AppendKeepsTrees DEF Recording, AppendSnapshot, TypeOK, TreeInv
    <3> QED  BY <2>2, <3>1, ReturnKeepsTree
  <2> QED  BY <1>7, <2>1, <2>2, RecordCases
<1> QED  BY <1>2, <1>3, <1>4, <1>5, <1>6, <1>7 DEF Next

LEMMA TreeInit == Init => TreeInv
<1> SUFFICES ASSUME Init PROVE TreeInv  OBVIOUS
<1>1. node = EmptyNode /\ pc = "idle" /\ log = <<>>  BY DEF Init
<1> QED  BY <1>1, EmptyNodeFacts DEF TreeInv, SnapshotsApplicable

\* Whatever changes while refs are enumerated, only namespaces are recorded.
THEOREM SnapshotsAreApplicable == Spec => []SnapshotsApplicable
<1>1. TypeOK /\ TreeInv => SnapshotsApplicable  BY DEF TreeInv
<1> QED  BY <1>1, TypeInit, TypeStep, TreeInit, TreeStep, PTL DEF Spec

\* Refs that did not change while they were enumerated are a namespace, which
\* neither validate_ref_paths nor RefNode::insert refuses.
LEMMA EnumerationInit == Init => EnumerationInv
<1> SUFFICES ASSUME Init PROVE EnumerationInv  OBVIOUS
<1>1. pc = "idle" /\ outcome = "none"  BY DEF Init
<1> QED  BY <1>1 DEF EnumerationInv, ConflictOnlyIfTorn

LEMMA EnumerationStep == TypeOK /\ TreeInv /\ EnumerationInv /\ [Next]_vars => EnumerationInv'
<1> SUFFICES ASSUME TypeOK, TreeInv, EnumerationInv, [Next]_vars PROVE EnumerationInv'  OBVIOUS
<1>1. ASSUME NEW how \in {"appended", "current", "conflict"}, Return(how),
             how = "conflict" => torn, torn' = torn
      PROVE  EnumerationInv'
  BY <1>1 DEF Return, EnumerationInv, ConflictOnlyIfTorn
<1>2. CASE UpdateRef \/ DeleteRef
  <2>1. UNCHANGED <<pc, outcome, seen, begun>>  BY <1>2 DEF UpdateRef, DeleteRef, User, locals
  <2>2. torn' = (torn \/ pc = "list")  BY <1>2, Zenon DEF UpdateRef, DeleteRef
  <2>3. pc' = "list" => torn'  BY <2>1, <2>2
  <2>4. ~torn' => ~torn  BY <2>2
  <2> QED  BY <2>1, <2>3, <2>4 DEF EnumerationInv, ConflictOnlyIfTorn
<1>3. CASE EditFile \/ RecordEarlier \/ Rest \/ UNCHANGED vars
  <2>1. UNCHANGED <<pc, outcome, seen, begun, torn, refs>>
    BY <1>3 DEF EditFile, User, RecordEarlier, At, Rest, vars, locals, repoVars
  <2> QED  BY <2>1 DEF EnumerationInv, ConflictOnlyIfTorn
<1>4. CASE Begin
  <2>1. pc' = "list" /\ begun' = refs /\ refs' = refs /\ DOMAIN seen' = {}
    BY <1>4, EmptyNodeFacts DEF Begin, Goto, repoVars
  <2> QED  BY <2>1 DEF EnumerationInv, ConflictOnlyIfTorn
<1>5. CASE List
  <2>1. pc = "list" /\ pc' = "list" /\ UNCHANGED <<begun, refs, torn>>
    BY <1>5 DEF List, At, Goto, repoVars
  <2>2. DOMAIN seen' \subseteq DOMAIN seen \cup DOMAIN refs \cup DOMAIN begun  BY <1>5, ListSees
  <2> QED  BY <2>1, <2>2 DEF EnumerationInv, ConflictOnlyIfTorn
<1>6. CASE Validate
  <2>1. pc = "list" /\ torn' = torn  BY <1>6 DEF Validate, At
  <2>2. ~torn => IsNamespace(DOMAIN seen)
    BY <2>1, SubsetOfNamespace DEF EnumerationInv, TypeOK
  <2>3. CASE Invalid(DOMAIN seen) /\ Return("conflict")
    <3>1. torn  BY <2>2, <2>3, NamespaceIsValid
    <3> QED  BY <1>1, <2>1, <2>3, <3>1
  <2>4. CASE Goto("insert") /\ UNCHANGED seen
    BY <2>1, <2>2, <2>4 DEF Goto, EnumerationInv, ConflictOnlyIfTorn
  <2> QED  BY <1>6, <2>3, <2>4 DEF Validate
<1>7. CASE InsertNext
  <2>1. pc = "insert" /\ torn' = torn /\ todo # {}  BY <1>7 DEF InsertNext, At
  <2>2. ~torn => IsNamespace(DOMAIN seen)  BY <2>1 DEF EnumerationInv
  <2>3. CASE Collides(FirstOf(todo)) /\ Return("conflict")
    <3>1. FirstOf(todo) \in todo  BY <2>1, FirstRemains, RefMapFacts DEF TypeOK
    <3>2. /\ FirstOf(todo) \in DOMAIN seen /\ FirstOf(todo) \notin DOMAIN node.leaves
          /\ DOMAIN node.leaves \subseteq DOMAIN seen /\ WellFormed(node)
      BY <2>1, <3>1 DEF TreeInv
    <3>3. torn  BY <2>2, <2>3, <3>2, NamespaceNeverCollides
    <3> QED  BY <1>1, <2>1, <2>3, <3>3
  <2>4. CASE Goto("insert") /\ UNCHANGED seen
    BY <2>1, <2>2, <2>4 DEF Goto, EnumerationInv, ConflictOnlyIfTorn
  <2> QED  BY <1>7, <2>3, <2>4 DEF InsertNext
<1>8. CASE ReadConfig \/ ReadDescription
  BY <1>8 DEF ReadConfig, ReadDescription, ReadFile, Goto, At, EnumerationInv, ConflictOnlyIfTorn
<1>9. CASE Record
  <2>1. torn' = torn  BY <1>9 DEF Record, At
  <2>2. Return("current") \/ Return("appended")  BY <1>9, RecordCases
  <2> QED  BY <1>1, <2>1, <2>2
<1> QED  BY <1>2, <1>3, <1>4, <1>5, <1>6, <1>7, <1>8, <1>9 DEF Next

\* Only refs that change during the enumeration make a capture fail.
THEOREM RefusalsAreTorn == Spec => []ConflictOnlyIfTorn
<1>1. EnumerationInv => ConflictOnlyIfTorn  BY DEF EnumerationInv
<1> QED  BY <1>1, TypeInit, TypeStep, TreeInit, TreeStep, EnumerationInit, EnumerationStep, PTL
         DEF Spec

-----------------------------------------------------------------------------
(* No snapshot without a change, and none that names another change.          *)

Named(was, now, message) ==
    /\ was # now
    /\ "refs" \in message <=> was.refs # now.refs
    /\ \A file \in Files : file \in message <=> was.files[file] # now.files[file]

\* Both layouts read back as the files they were written from.
LEMMA EntriesReadBack ==
    ASSUME NEW commit \in Commits
    PROVE  EntriesOf(commit).files = Recorded(commit).files
<1>1. ASSUME NEW file \in Files
      PROVE  OptionalBlob(commit.files[file]) = Recorded(commit).files[file]
  <2> DEFINE Of(contents) == commit.files[file] \in {Entry(contents), OptionEntry(contents)}
             chosen == CHOOSE contents \in Contents \cup {Absent} : Of(contents)
  <2>1. \E contents \in Contents \cup {Absent} : Of(contents)
    BY EntriesAreOfFiles DEF Commits
  <2>2. chosen \in Contents \cup {Absent} /\ Of(chosen)
    <3> HIDE DEF Of
    <3> QED  BY <2>1
  <2>3. OptionalBlob(commit.files[file]) = chosen
    <3> HIDE DEF chosen
    <3> QED  BY <2>2, EntryFacts
  <2>4. Recorded(commit).files[file] = chosen  BY DEF Recorded
  <2> QED  BY <2>3, <2>4
<1>2. /\ EntriesOf(commit).files = [file \in Files |-> OptionalBlob(commit.files[file])]
      /\ Recorded(commit).files = [file \in Files |-> Recorded(commit).files[file]]
  BY DEF EntriesOf, Recorded
<1> QED  BY <1>1, <1>2

\* Trees of namespaces are equal if the refs in them are.
LEMMA TreesOfRefs ==
    ASSUME NEW m \in Nodes, NEW n \in Nodes, WellFormed(m), WellFormed(n)
    PROVE  m = n <=> m.leaves = n.leaves
<1>1. ASSUME m.leaves = n.leaves PROVE m = n
  <2>1. m.dirs = n.dirs  BY <1>1 DEF WellFormed
  <2> QED  BY <1>1, <2>1 DEF Nodes
<1> QED  BY <1>1

\* A generated snapshot is named after its difference to the tip.
LEMMA GeneratedIsNamed ==
    ASSUME TypeOK, TreeInv, log # <<>>, Diff(FromState, EntriesOf(Tip)) # {},
           NEW new, new = [refs |-> node, files |-> [file \in Files |-> Entry(read[file])],
                           message |-> Diff(FromState, EntriesOf(Tip))],
           new \in Commits
    PROVE  Named(Recorded(Tip), Recorded(new), new.message)
<1>1. Tip \in Commits /\ WellFormed(Tip.refs)
  <2>1. Len(log) \in 1 .. Len(log)  BY DEF TypeOK
  <2> QED  BY <2>1 DEF Tip, TypeOK, TreeInv, SnapshotsApplicable
<1>2. EntriesOf(Tip).files = Recorded(Tip).files /\ EntriesOf(new).files = Recorded(new).files
  BY <1>1, EntriesReadBack
<1>3. EntriesOf(new).files = read
  <2>1. \A file \in Files : OptionalBlob(Entry(read[file])) = read[file]
    BY EntryFacts DEF TypeOK, FileMaps
  <2>2. read = [file \in Files |-> read[file]]  BY DEF TypeOK, FileMaps
  <2> QED  BY <2>1, <2>2 DEF EntriesOf
<1>4. node # Tip.refs <=> Recorded(Tip).refs # Recorded(new).refs
  <2>1. node \in Nodes /\ Tip.refs \in Nodes /\ WellFormed(node)
    BY <1>1 DEF TypeOK, TreeInv, Commits
  <2> QED  BY <1>1, <2>1, TreesOfRefs DEF Recorded
<1>5. "refs" \in new.message <=> Recorded(Tip).refs # Recorded(new).refs
  BY <1>4 DEF Diff, FromState, EntriesOf, Files
<1>6. \A file \in Files : file \in new.message <=>
                            Recorded(Tip).files[file] # Recorded(new).files[file]
  BY <1>2, <1>3 DEF Diff, FromState, Files
<1>7. Recorded(Tip) # Recorded(new)
  <2>1. PICK part \in {"refs"} \cup Files : part \in new.message  BY DiffNamesParts
  <2> QED  BY <1>5, <1>6, <2>1
<1> QED  BY <1>5, <1>6, <1>7 DEF Named

LEMMA NoSpuriousStep == TypeOK /\ TreeInv /\ NoSpuriousSnapshot /\ [Next]_vars => NoSpuriousSnapshot'
<1> SUFFICES ASSUME TypeOK, TreeInv, NoSpuriousSnapshot, [Next]_vars PROVE NoSpuriousSnapshot'
  OBVIOUS
<1>0. \A i \in 2 .. Len(log) : log[i].message # {"earlier"} =>
        Named(Recorded(log[i - 1]), Recorded(log[i]), log[i].message)
  BY DEF NoSpuriousSnapshot, Named
<1>1. CASE log' = log  BY <1>1 DEF NoSpuriousSnapshot
<1>2. ASSUME NEW new \in Commits, log' = Append(log, new),
             log = <<>> \/ new.message = {"earlier"}
               \/ Named(Recorded(Tip), Recorded(new), new.message)
      PROVE  NoSpuriousSnapshot'
  <2>1. /\ Len(log) \in Nat /\ Len(log') = Len(log) + 1
        /\ log'[Len(log) + 1] = new /\ \A i \in 1 .. Len(log) : log'[i] = log[i]
    BY <1>2, AppendFrame DEF TypeOK
  <2> SUFFICES ASSUME NEW i \in 2 .. Len(log'), log'[i].message # {"earlier"}
               PROVE  Named(Recorded(log'[i - 1]), Recorded(log'[i]), log'[i].message)
    BY DEF NoSpuriousSnapshot, Named
  <2>2. CASE i \in 2 .. Len(log)
    <3>1. log'[i] = log[i] /\ log'[i - 1] = log[i - 1]  BY <2>1, <2>2
    <3> QED  BY <1>0, <2>2, <3>1
  <2>3. CASE i = Len(log) + 1
    <3>1. Len(log) # 0 /\ log # <<>>  BY <2>1, <2>3
    <3>2. log'[i] = new /\ log'[i - 1] = Tip  BY <2>1, <2>3, <3>1 DEF Tip
    <3> QED  BY <1>2, <3>1, <3>2
  <2> QED  BY <2>1, <2>2, <2>3
<1>3. CASE RecordEarlier  BY <1>2, <1>3, EarlierIsCommit DEF RecordEarlier
<1>4. CASE Record
  <2>1. CASE log = <<>> /\ Recording({"initial"})
    BY <1>2, <2>1, AppendedIsCommit DEF Recording, AppendSnapshot
  <2>2. CASE /\ log # <<>> /\ Diff(FromState, EntriesOf(Tip)) # {}
             /\ Recording(Diff(FromState, EntriesOf(Tip)))
    <3> DEFINE message == Diff(FromState, EntriesOf(Tip))
               new == [refs |-> node, files |-> [file \in Files |-> Entry(read[file])],
                       message |-> message]
    <3>1. log' = Append(log, new) /\ new \in Commits
      BY <2>2, AppendedIsCommit DEF Recording, AppendSnapshot
    <3>2. Named(Recorded(Tip), Recorded(new), new.message)  BY <2>2, <3>1, GeneratedIsNamed
    <3> HIDE DEF new
    <3> QED  BY <1>2, <3>1, <3>2
  <2> QED  BY <1>1, <1>4, <2>1, <2>2, RecordCases
<1>5. CASE Next /\ ~RecordEarlier /\ ~Record
  BY <1>1, <1>5 DEF Next, UpdateRef, DeleteRef, EditFile, User, Begin, List, Validate, InsertNext,
     ReadConfig, ReadDescription, ReadFile, Goto, Rest, vars
<1>6. CASE UNCHANGED vars  BY <1>1, <1>6 DEF vars
<1> QED  BY <1>3, <1>4, <1>5, <1>6

\* What git-op log calls a change is one, next to snapshots of either layout.
THEOREM NothingSpuriousIsRecorded == Spec => []NoSpuriousSnapshot
<1>1. Init => NoSpuriousSnapshot  BY DEF Init, NoSpuriousSnapshot
<1> QED  BY <1>1, TypeInit, TypeStep, TreeInit, TreeStep, NoSpuriousStep, PTL DEF Spec

-----------------------------------------------------------------------------
(* An undisturbed capture reads back as the repository.                       *)

\* While a process is quiet, what it has read is what the repository holds.
QuietInv ==
    /\ pc \in {"insert", "description", "record"} =>
         /\ DOMAIN node.leaves \cup todo = DOMAIN seen
         /\ \A name \in DOMAIN node.leaves : node.leaves[name] = seen[name]
    /\ pc \in {"description", "record"} => todo = {}
    /\ quiet /\ pc = "list" =>
         /\ refs = begun
         /\ DOMAIN seen = {name \in DOMAIN refs : IsCaptured(name)} \ pending
         /\ \A name \in DOMAIN seen : seen[name] = refs[name]
    /\ quiet /\ pc \in {"insert", "description", "record"} => seen = Present.refs
    /\ quiet /\ pc \in {"description", "record"} => read["config"] = files["config"]
    /\ quiet /\ pc = "record" => read["description"] = files["description"]

LEMMA PresentFacts ==
    ASSUME TypeOK
    PROVE  /\ DOMAIN Present.refs = {name \in DOMAIN refs : IsCaptured(name)}
           /\ \A name \in DOMAIN Present.refs : Present.refs[name] = refs[name]
           /\ \A map : /\ map = [name \in DOMAIN map |-> map[name]]
                       /\ DOMAIN map = DOMAIN Present.refs
                       /\ \A name \in DOMAIN map : map[name] = refs[name]
                       => map = Present.refs
<1>1. Present.refs = [name \in {n \in DOMAIN refs : IsCaptured(n)} |-> refs[name]]
  BY DEF Present, Restrict
<1> QED  BY <1>1

LEMMA PresentStays ==
    ASSUME UNCHANGED repoVars
    PROVE  Present' = Present
BY DEF repoVars, Present

\* What a tree is read back as are its leaves.
LEMMA AppliedIsLeaves ==
    ASSUME NEW tree \in Nodes
    PROVE  Applied(tree) = tree.leaves
<1> DEFINE keep == {name \in DOMAIN tree.leaves : IsPrefix(<<>>, name)}
           kept == Kept(Names, keep)
           S == Seq(STRING) \ {<<>>}
<1>1. DOMAIN tree.leaves \subseteq RefNames /\ tree.leaves \in [DOMAIN tree.leaves -> Targets]
  BY RefMapFacts DEF Nodes
<1>2. \A name \in S : IsPrefix(<<>>, name)
  BY DEF IsPrefix
<1>3. keep = DOMAIN tree.leaves  BY <1>1, <1>2, NamesAreSequences
<1>4. Names \in Seq(S)  BY NamesAssumption
<1>5. RefNames = {Names[i] : i \in 1 .. Len(Names)}  BY <1>4 DEF RefNames, ToSet
<1> HIDE DEF keep, S
<1>6. /\ kept \in Seq(S \cap keep)
      /\ \A i \in 1 .. Len(kept) : kept[i] \in keep
      /\ \A j \in 1 .. Len(Names) : Names[j] \in keep => \E i \in 1 .. Len(kept) : kept[i] = Names[j]
  BY <1>4, KeptSeq, KeptEntries
<1> HIDE DEF kept
<1>7. ToSet(kept) = {kept[i] : i \in 1 .. Len(kept)}  BY <1>6 DEF ToSet
<1>8. ToSet(kept) = DOMAIN tree.leaves  BY <1>1, <1>3, <1>5, <1>6, <1>7
<1>9. Applied(tree) = [name \in ToSet(kept) |-> tree.leaves[name]]
  BY DEF Applied, CollectRefUpdates, RefTreeTargets, kept, keep
<1> QED  BY <1>1, <1>8, <1>9

LEMMA QuietInit == Init => QuietInv
BY DEF Init, QuietInv

\* A step that changes neither what a process works with nor what it has read.
LEMMA QuietFrame ==
    ASSUME QuietInv, UNCHANGED <<pc, seen, pending, begun, todo, node, read>>,
           quiet' => quiet /\ UNCHANGED repoVars
    PROVE  QuietInv'
<1>1. CASE quiet' = FALSE \/ ~quiet'  BY <1>1 DEF QuietInv
<1>2. CASE quiet'
  <2>1. quiet /\ UNCHANGED <<refs, files>> /\ Present' = Present
    BY <1>2, PresentStays DEF repoVars
  <2> QED  BY <2>1 DEF QuietInv
<1> QED  BY <1>1, <1>2

LEMMA QuietReturn == ASSUME NEW how, Return(how) PROVE QuietInv'
BY DEF Return, QuietInv

LEMMA QuietBegin == ASSUME TypeOK, Begin PROVE QuietInv'
<1>1. /\ pc' = "list" /\ begun' = refs /\ refs' = refs /\ pending' = RefNames
      /\ seen' = EmptyNode.leaves
  BY DEF Begin, Goto, repoVars
<1>2. DOMAIN seen' = {}  BY <1>1, EmptyNodeFacts
<1>3. DOMAIN refs \subseteq RefNames  BY RefMapFacts DEF TypeOK
<1> QED  BY <1>1, <1>2, <1>3 DEF QuietInv

LEMMA QuietList == ASSUME TypeOK, QuietInv, List PROVE QuietInv'
<1>1. /\ pc = "list" /\ pc' = "list" /\ UNCHANGED <<begun, refs, quiet>>
      /\ \E name \in pending :
           /\ pending' = pending \ {name}
           /\ \/ name \in DOMAIN refs /\ See(name, refs[name])
              \/ name \in DOMAIN begun \ DOMAIN refs /\ See(name, begun[name])
              \/ name \notin DOMAIN refs /\ UNCHANGED seen
  BY DEF List, At, Goto, repoVars
<1> SUFFICES ASSUME quiet'
             PROVE  /\ refs' = begun'
                    /\ DOMAIN seen' = {name \in DOMAIN refs' : IsCaptured(name)} \ pending'
                    /\ \A name \in DOMAIN seen' : seen'[name] = refs'[name]
  BY <1>1 DEF QuietInv
<1>2. /\ quiet /\ refs = begun
      /\ DOMAIN seen = {name \in DOMAIN refs : IsCaptured(name)} \ pending
      /\ \A name \in DOMAIN seen : seen[name] = refs[name]
  BY <1>1 DEF QuietInv
<1>3. PICK name \in pending :
        /\ pending' = pending \ {name}
        /\ \/ name \in DOMAIN refs /\ See(name, refs[name])
           \/ name \notin DOMAIN refs /\ UNCHANGED seen
  BY <1>1, <1>2
<1>4. CASE name \in DOMAIN refs /\ See(name, refs[name])
  <2>1. CASE IsCaptured(name)
    <3>1. seen' = [n \in DOMAIN seen \cup {name} |-> IF n = name THEN refs[name] ELSE seen[n]]
      BY <1>4, <2>1 DEF See
    <3> QED  BY <1>1, <1>2, <1>3, <1>4, <2>1, <3>1
  <2>2. CASE ~IsCaptured(name)
    <3>1. seen' = seen  BY <1>4, <2>2 DEF See
    <3> QED  BY <1>1, <1>2, <1>3, <2>2, <3>1
  <2> QED  BY <2>1, <2>2
<1>5. CASE name \notin DOMAIN refs /\ UNCHANGED seen  BY <1>1, <1>2, <1>3, <1>5
<1> QED  BY <1>3, <1>4, <1>5

LEMMA QuietValidate == ASSUME TypeOK, TreeInv, QuietInv, Validate PROVE QuietInv'
<1>1. pc = "list" /\ pending = {} /\ UNCHANGED <<repoVars, quiet>>  BY DEF Validate, At
<1>2. CASE Return("conflict")  BY <1>2, QuietReturn
<1>3. CASE todo' = DOMAIN seen /\ Goto("insert") /\ UNCHANGED <<begun, pending, seen, node, read>>
  <2>1. DOMAIN node.leaves = {}  BY <1>1, EmptyNodeFacts DEF TreeInv
  <2>2. pc' = "insert" /\ todo' = DOMAIN seen' /\ DOMAIN node'.leaves = {} /\ seen' = seen
    BY <1>3, <2>1 DEF Goto
  <2>3. ASSUME quiet' PROVE seen' = Present'.refs
    <3>1. /\ DOMAIN seen = {name \in DOMAIN refs : IsCaptured(name)}
          /\ \A name \in DOMAIN seen : seen[name] = refs[name]
      BY <1>1, <2>3 DEF QuietInv
    <3>2. seen = [name \in DOMAIN seen |-> seen[name]]  BY RefMapFacts DEF TypeOK
    <3>3. seen = Present.refs  BY <3>1, <3>2, PresentFacts
    <3> QED  BY <1>1, <2>2, <3>3, PresentStays
  <2> QED  BY <2>2, <2>3 DEF QuietInv
<1> QED  BY <1>2, <1>3 DEF Validate

LEMMA QuietInsert == ASSUME TypeOK, QuietInv, InsertNext PROVE QuietInv'
<1>1. pc = "insert" /\ todo # {} /\ UNCHANGED <<repoVars, quiet>>  BY DEF InsertNext, At
<1>2. CASE Return("conflict")  BY <1>2, QuietReturn
<1>3. CASE /\ todo' = todo \ {FirstOf(todo)} /\ node' = Insert(FirstOf(todo))
           /\ Goto("insert") /\ UNCHANGED <<begun, pending, seen, read>>
  <2> DEFINE name == FirstOf(todo)
  <2>1. name \in todo  BY <1>1, FirstRemains, RefMapFacts DEF TypeOK
  <2>2. /\ DOMAIN Insert(name).leaves = DOMAIN node.leaves \cup {name}
        /\ \A n \in DOMAIN Insert(name).leaves :
             Insert(name).leaves[n] = IF n = name THEN seen[name] ELSE node.leaves[n]
    BY DEF Insert
  <2>3. /\ DOMAIN node.leaves \cup todo = DOMAIN seen
        /\ \A n \in DOMAIN node.leaves : node.leaves[n] = seen[n]
    BY <1>1 DEF QuietInv
  <2>4. /\ node' = Insert(name) /\ todo' = todo \ {name} /\ seen' = seen /\ pc' = "insert"
    BY <1>3 DEF Goto
  <2> HIDE DEF name
  <2>5. DOMAIN node'.leaves \cup todo' = DOMAIN seen'  BY <2>1, <2>2, <2>3, <2>4
  <2>6. \A n \in DOMAIN node'.leaves : node'.leaves[n] = seen'[n]  BY <2>2, <2>3, <2>4
  <2>7. quiet' => seen' = Present'.refs  BY <1>1, <2>4, PresentStays DEF QuietInv
  <2> QED  BY <2>4, <2>5, <2>6, <2>7 DEF QuietInv
<1> QED  BY <1>2, <1>3 DEF InsertNext

LEMMA QuietRead == ASSUME TypeOK, QuietInv, ReadConfig \/ ReadDescription PROVE QuietInv'
<1>1. UNCHANGED <<repoVars, quiet, seen, node, todo>> /\ Present' = Present /\ files' = files
  BY PresentStays DEF ReadConfig, ReadDescription, ReadFile, At, repoVars
<1>2. read \in [Files -> Contents \cup {Absent}]  BY DEF TypeOK, FileMaps
<1>3. CASE ReadConfig
  <2>1. /\ pc = "insert" /\ todo = {} /\ pc' = "description"
        /\ read' = [read EXCEPT !["config"] = files["config"]]
    BY <1>3 DEF ReadConfig, ReadFile, At, Goto
  <2>2. read'["config"] = files["config"]  BY <1>2, <2>1 DEF Files
  <2> QED  BY <1>1, <2>1, <2>2 DEF QuietInv
<1>4. CASE ReadDescription
  <2>1. /\ pc = "description" /\ pc' = "record"
        /\ read' = [read EXCEPT !["description"] = files["description"]]
    BY <1>4 DEF ReadDescription, ReadFile, At, Goto
  <2>2. read'["description"] = files["description"] /\ read'["config"] = read["config"]
    BY <1>2, <2>1 DEF Files
  <2> QED  BY <1>1, <2>1, <2>2 DEF QuietInv
<1> QED  BY <1>3, <1>4

LEMMA QuietStep == TypeOK /\ TreeInv /\ QuietInv /\ [Next]_vars => QuietInv'
<1> SUFFICES ASSUME TypeOK, TreeInv, QuietInv, [Next]_vars PROVE QuietInv'  OBVIOUS
<1>1. CASE UpdateRef \/ DeleteRef \/ EditFile
  <2>1. UNCHANGED <<pc, seen, pending, begun, todo, node, read>> /\ ~quiet'
    BY <1>1 DEF UpdateRef, DeleteRef, EditFile, User, locals
  <2> QED  BY <2>1, QuietFrame
<1>2. CASE RecordEarlier \/ Rest \/ UNCHANGED vars
  <2>1. UNCHANGED <<pc, seen, pending, begun, todo, node, read, quiet, repoVars>>
    BY <1>2 DEF RecordEarlier, At, Rest, vars, locals
  <2> QED  BY <2>1, QuietFrame
<1>3. CASE Record
  <2>1. Return("current") \/ Return("appended")  BY <1>3, RecordCases
  <2> QED  BY <2>1, QuietReturn
<1> QED  BY <1>1, <1>2, <1>3, QuietBegin, QuietList, QuietValidate, QuietInsert, QuietRead DEF Next

\* What the record step leaves as the tip has the tree and the files it has read.
LEMMA RecordedIsRead ==
    ASSUME TypeOK, Record
    PROVE  /\ log' # <<>> /\ log'[Len(log')] \in Commits
           /\ log'[Len(log')].refs = node /\ EntriesOf(log'[Len(log')]).files = read
<1>1. CASE log' = log /\ Return("current")
  <2>1. log # <<>> /\ Diff(FromState, EntriesOf(Tip)) = {}
    <3>1. "current" # "appended"  OBVIOUS
    <3> QED  BY <1>1, <3>1 DEF Record, Return
  <2>2. Len(log) \in 1 .. Len(log) /\ Tip \in Commits
    <3>1. Len(log) \in 1 .. Len(log)  BY <2>1 DEF TypeOK
    <3> QED  BY <3>1 DEF TypeOK, Tip
  <2>3. /\ FromState.refs = EntriesOf(Tip).refs
        /\ \A file \in Files : FromState.files[file] = EntriesOf(Tip).files[file]
    BY <2>1 DEF Diff
  <2>4. EntriesOf(Tip).files = read
    <3>1. read = [file \in Files |-> read[file]]  BY DEF TypeOK, FileMaps
    <3>2. EntriesOf(Tip).files = [file \in Files |-> OptionalBlob(Tip.files[file])]  BY DEF EntriesOf
    <3>3. FromState.files = read  BY DEF FromState
    <3> QED  BY <2>3, <3>1, <3>2, <3>3
  <2>5. Tip.refs = node  BY <2>3 DEF FromState, EntriesOf
  <2> QED  BY <1>1, <2>1, <2>2, <2>4, <2>5 DEF Tip
<1>2. ASSUME NEW message, Recording(message) PROVE
           /\ log' # <<>> /\ log'[Len(log')] \in Commits
           /\ log'[Len(log')].refs = node /\ EntriesOf(log'[Len(log')]).files = read
  <2> DEFINE new == [refs |-> node, files |-> [file \in Files |-> Entry(read[file])],
                     message |-> message]
  <2>1. new \in Commits /\ log' = Append(log, new)
    BY <1>2, AppendedIsCommit DEF Recording, AppendSnapshot
  <2>2. EntriesOf(new).files = read
    <3>1. \A file \in Files : OptionalBlob(Entry(read[file])) = read[file]
      BY EntryFacts DEF TypeOK, FileMaps
    <3>2. read = [file \in Files |-> read[file]]  BY DEF TypeOK, FileMaps
    <3> QED  BY <3>1, <3>2 DEF EntriesOf
  <2>3. new.refs = node  OBVIOUS
  <2> HIDE DEF new
  <2>4. log' # <<>> /\ log'[Len(log')] = new  BY <2>1, AppendFrame DEF TypeOK
  <2> QED  BY <2>1, <2>2, <2>3, <2>4
<1> QED  BY <1>1, <1>2, RecordCases

LEMMA ReadsBackStep ==
    ASSUME TypeOK, QuietInv, [Next]_vars, pc = "record", pc' = "idle", quiet
    PROVE  log' # <<>> /\ StateOf(log'[Len(log')]) = Present
<1>1. Record
  BY DEF Next, UpdateRef, DeleteRef, EditFile, User, RecordEarlier, Rest, vars, Begin, List,
         Validate, InsertNext, ReadConfig, ReadDescription, At
<1>2. node.leaves = Present.refs
  <2>1. node.leaves \in RefMaps  BY DEF TypeOK, Nodes
  <2>2. node.leaves = [name \in DOMAIN node.leaves |-> node.leaves[name]]  BY <2>1, RefMapFacts
  <2>3. seen = [name \in DOMAIN seen |-> seen[name]]  BY RefMapFacts DEF TypeOK
  <2>4. DOMAIN node.leaves = DOMAIN seen /\ \A name \in DOMAIN seen : node.leaves[name] = seen[name]
    BY DEF QuietInv
  <2>5. node.leaves = seen  BY <2>2, <2>3, <2>4
  <2> QED  BY <2>5 DEF QuietInv
<1>3. read = files
  <2>1. \A file \in Files : read[file] = files[file]  BY DEF QuietInv, Files
  <2>2. read = [file \in Files |-> read[file]] /\ files = [file \in Files |-> files[file]]
    BY DEF TypeOK, FileMaps
  <2> QED  BY <2>1, <2>2
<1>4. Applied(node) = node.leaves  BY AppliedIsLeaves DEF TypeOK
<1> DEFINE tip == log'[Len(log')]
<1>5. log' # <<>> /\ tip.refs = node /\ EntriesOf(tip).files = read  BY <1>1, RecordedIsRead
<1>6. Present.files = files /\ Present = [refs |-> Present.refs, files |-> Present.files]
  BY DEF Present
<1> HIDE DEF tip
<1>7. StateOf(tip) = Present  BY <1>2, <1>3, <1>4, <1>5, <1>6 DEF StateOf
<1> QED  BY <1>5, <1>7 DEF tip

\* A snapshot of a repository nobody changed meanwhile reads back as that
\* repository, appended or found to be the tip's.
THEOREM QuietCapturesReadBack == Spec => SnapshotReadsBack
<1>1. TypeOK /\ QuietInv /\ [Next]_vars
        => [pc = "record" /\ pc' = "idle" /\ quiet
              => log' # <<>> /\ StateOf(log'[Len(log')]) = Present]_vars
  BY ReadsBackStep
<1> QED  BY <1>1, TypeInit, TypeStep, TreeInit, TreeStep, QuietInit, QuietStep, PTL
         DEF Spec, SnapshotReadsBack

-----------------------------------------------------------------------------
(* Lists of distinct entries, and a list of lists put together.               *)

LEMMA ToSetOfSeq ==
    ASSUME NEW S, NEW s \in Seq(S)
    PROVE  ToSet(s) = {s[i] : i \in 1 .. Len(s)} /\ ToSet(s) \subseteq S
BY DEF ToSet

LEMMA AppendEntries ==
    ASSUME NEW S, NEW s \in Seq(S), NEW x \in S
    PROVE  /\ Append(s, x) \in Seq(S) /\ Len(s) \in Nat /\ Len(Append(s, x)) = Len(s) + 1
           /\ Append(s, x)[Len(s) + 1] = x /\ \A i \in 1 .. Len(s) : Append(s, x)[i] = s[i]
OBVIOUS

LEMMA ToSetAppend ==
    ASSUME NEW S, NEW s \in Seq(S), NEW x \in S
    PROVE  ToSet(Append(s, x)) = ToSet(s) \cup {x}
<1> DEFINE n == Len(s)
           t == Append(s, x)
<1>1. n \in Nat /\ Len(t) = n + 1 /\ t[n + 1] = x /\ \A i \in 1 .. n : t[i] = s[i]
  BY AppendEntries
<1>2. t \in Seq(S)  BY AppendEntries
<1> HIDE DEF t
<1>3. ToSet(s) = {s[i] : i \in 1 .. n} /\ ToSet(t) = {t[i] : i \in 1 .. n + 1}
  BY <1>1, <1>2, ToSetOfSeq
<1>4. 1 .. n + 1 = (1 .. n) \cup {n + 1}  BY <1>1
<1>5. ToSet(t) = ToSet(s) \cup {x}  BY <1>1, <1>3, <1>4
<1> QED  BY <1>5 DEF t

LEMMA ConcatFacts ==
    ASSUME NEW S, NEW s \in Seq(S), NEW t \in Seq(S)
    PROVE  /\ s \o t \in Seq(S)
           /\ ToSet(s \o t) = ToSet(s) \cup ToSet(t)
           /\ Distinct(s) /\ Distinct(t) /\ ToSet(s) \cap ToSet(t) = {} => Distinct(s \o t)
<1> DEFINE m == Len(s)
           n == Len(t)
           u == s \o t
<1>1. /\ m \in Nat /\ n \in Nat /\ Len(u) = m + n /\ u \in Seq(S)
      /\ \A i \in 1 .. m : u[i] = s[i]
      /\ \A i \in 1 .. n : u[i + m] = t[i]
  BY ConcatProperties, LenProperties
<1> HIDE DEF u
<1>2. /\ ToSet(s) = {s[i] : i \in 1 .. m} /\ ToSet(t) = {t[i] : i \in 1 .. n}
      /\ ToSet(u) = {u[i] : i \in 1 .. m + n}
  BY <1>1, ToSetOfSeq
<1> HIDE DEF m, n
<1>3. \A i \in 1 .. m + n : (i \in 1 .. m) \/ (i - m \in 1 .. n /\ i = i - m + m)  BY <1>1
<1>4. \A i \in 1 .. n : i + m \in 1 .. m + n  BY <1>1
<1>5. \A i \in 1 .. m : i \in 1 .. m + n  BY <1>1
<1>6. ToSet(u) = ToSet(s) \cup ToSet(t)
  <2>1. ASSUME NEW x \in ToSet(u) PROVE x \in ToSet(s) \cup ToSet(t)
    <3>1. PICK i \in 1 .. m + n : x = u[i]  BY <1>2
    <3>2. CASE i \in 1 .. m  BY <1>1, <1>2, <3>1, <3>2
    <3>3. CASE i - m \in 1 .. n /\ i = i - m + m
      <4>1. u[i] = t[i - m]  BY <1>1, <3>3
      <4> QED  BY <1>2, <3>1, <3>3, <4>1
    <3> QED  BY <1>3, <3>2, <3>3
  <2>2. ToSet(s) \subseteq ToSet(u)  BY <1>1, <1>2, <1>5
  <2>3. ToSet(t) \subseteq ToSet(u)
    <3> SUFFICES ASSUME NEW i \in 1 .. n PROVE t[i] \in ToSet(u)  BY <1>2
    <3>1. i + m \in 1 .. m + n /\ u[i + m] = t[i]  BY <1>1, <1>4
    <3> QED  BY <1>2, <3>1
  <2> QED  BY <2>1, <2>2, <2>3
<1>7. ASSUME Distinct(s), Distinct(t), ToSet(s) \cap ToSet(t) = {} PROVE Distinct(u)
  <2> SUFFICES ASSUME NEW i \in 1 .. m + n, NEW j \in 1 .. m + n, u[i] = u[j] PROVE i = j
    BY <1>1 DEF Distinct
  <2>1. \A k \in 1 .. m + n : \/ k \in 1 .. m /\ u[k] = s[k]
                              \/ k - m \in 1 .. n /\ u[k] = t[k - m]
    <3> SUFFICES ASSUME NEW k \in 1 .. m + n, k - m \in 1 .. n, k = k - m + m PROVE u[k] = t[k - m]
      BY <1>1, <1>3
    <3> QED  BY <1>1
  <2>2. \A k, l \in 1 .. m : s[k] = s[l] => k = l  BY <1>7 DEF Distinct, m
  <2>3. \A k, l \in 1 .. n : t[k] = t[l] => k = l  BY <1>7 DEF Distinct, n
  <2>4. \A k \in 1 .. m, l \in 1 .. n : s[k] # t[l]  BY <1>2, <1>7
  <2>5. CASE i \in 1 .. m /\ u[i] = s[i]
    <3>1. CASE j \in 1 .. m /\ u[j] = s[j]  BY <2>2, <2>5, <3>1
    <3>2. CASE j - m \in 1 .. n /\ u[j] = t[j - m]  BY <2>4, <2>5, <3>2
    <3> QED  BY <2>1, <3>1, <3>2
  <2>6. CASE i - m \in 1 .. n /\ u[i] = t[i - m]
    <3>1. CASE j \in 1 .. m /\ u[j] = s[j]  BY <2>4, <2>6, <3>1
    <3>2. CASE j - m \in 1 .. n /\ u[j] = t[j - m]
      <4>1. i - m = j - m  BY <2>3, <2>6, <3>2
      <4> QED  BY <1>1, <4>1
    <3> QED  BY <2>1, <3>1, <3>2
  <2> QED  BY <2>1, <2>5, <2>6
<1> QED  BY <1>1, <1>6, <1>7 DEF u

\* The length of a list of distinct entries is their number.
LEMMA DistinctCounts ==
    ASSUME NEW S
    PROVE  \A s \in Seq(S) : Distinct(s) => Len(s) = Cardinality(ToSet(s))
<1> DEFINE T == {s \in Seq(S) : Distinct(s) => IsFiniteSet(ToSet(s)) /\ Len(s) = Cardinality(ToSet(s))}
<1>1. <<>> \in T
  <2>1. ToSet(<<>>) = {}  BY DEF ToSet
  <2> QED  BY <2>1, EmptySeq, FS_EmptySet
<1>2. ASSUME NEW s \in T, NEW x \in S PROVE Append(s, x) \in T
  <2> DEFINE t == Append(s, x)
  <2>1. s \in Seq(S) /\ t \in Seq(S) /\ Len(t) = Len(s) + 1  BY AppendProperties
  <2>2. ToSet(t) = ToSet(s) \cup {x}  BY <2>1, ToSetAppend
  <2>3. Distinct(t) => Distinct(s) /\ x \notin ToSet(s)
    BY <2>1, AppendDistinct, ToSetOfSeq
  <2> HIDE DEF t
  <2>4. ASSUME Distinct(t) PROVE IsFiniteSet(ToSet(t)) /\ Len(t) = Cardinality(ToSet(t))
    <3>1. IsFiniteSet(ToSet(s)) /\ Len(s) = Cardinality(ToSet(s)) /\ x \notin ToSet(s)
      BY <2>3, <2>4
    <3>2. IsFiniteSet(ToSet(s) \cup {x}) /\ Cardinality(ToSet(s) \cup {x}) = Cardinality(ToSet(s)) + 1
      BY <3>1, FS_AddElement
    <3> QED  BY <2>1, <2>2, <3>1, <3>2
  <2>5. t \in T  BY <2>1, <2>4
  <2> QED  BY <2>5 DEF t
<1>3. T \subseteq Seq(S)  OBVIOUS
<1> HIDE DEF T
<1>4. T = Seq(S)  BY <1>1, <1>2, <1>3, InductiveSeqs
<1> QED  BY <1>4 DEF T

\* The equation of FlattenSeq's recursive function, which has a solution.
Joined(f, s) == [i \in 1 .. Len(s) |-> IF i = 1 THEN s[i] ELSE f[i - 1] \o s[i]]

LEMMA JoinedExists == ASSUME NEW S PROVE \A s \in Seq(S) : \E f : f = Joined(f, s)
<1> DEFINE T == {s \in Seq(S) : \E f : f = Joined(f, s)}
<1>1. <<>> \in T
  <2> DEFINE f == [i \in 1 .. 0 |-> <<>>]
  <2>1. f = Joined(f, <<>>)  BY DEF Joined
  <2> HIDE DEF f
  <2> QED  BY <2>1
<1>2. ASSUME NEW s \in T, NEW x \in S PROVE Append(s, x) \in T
  <2>1. PICK f : f = Joined(f, s)  OBVIOUS
  <2> DEFINE n == Len(s)
             t == Append(s, x)
             g == [i \in 1 .. n + 1 |-> IF i <= n THEN f[i] ELSE IF i = 1 THEN x ELSE f[i - 1] \o x]
  <2>2. n \in Nat /\ Len(t) = n + 1 /\ t[n + 1] = x /\ \A i \in 1 .. n : t[i] = s[i]
    BY AppendProperties, LenProperties
  <2>3. \A i \in 1 .. n : f[i] = IF i = 1 THEN s[i] ELSE f[i - 1] \o s[i]
    BY <2>1 DEF Joined
  <2> HIDE DEF t
  <2>4. ASSUME NEW i \in 1 .. n + 1
        PROVE  g[i] = IF i = 1 THEN t[i] ELSE g[i - 1] \o t[i]
    <3>1. CASE i <= n
      <4>1. i \in 1 .. n /\ g[i] = f[i] /\ t[i] = s[i]  BY <2>2, <3>1
      <4>2. i # 1 => g[i - 1] = f[i - 1]  BY <2>2, <3>1
      <4> HIDE DEF g
      <4> QED  BY <2>3, <4>1, <4>2
    <3>2. CASE i = n + 1
      <4>1. g[i] = (IF i = 1 THEN x ELSE f[i - 1] \o x) /\ t[i] = x  BY <2>2, <3>2
      <4>2. i # 1 => g[i - 1] = f[i - 1]  BY <2>2, <3>2
      <4> HIDE DEF g
      <4> QED  BY <4>1, <4>2
    <3> QED  BY <2>2, <3>1, <3>2
  <2>5. g = [i \in 1 .. n + 1 |-> IF i = 1 THEN t[i] ELSE g[i - 1] \o t[i]]  BY <2>4
  <2>6. g = Joined(g, t)
    <3> HIDE DEF g
    <3> QED  BY <2>2, <2>5 DEF Joined
  <2>7. \E h : h = Joined(h, t)
    <3> HIDE DEF g
    <3> QED  BY <2>6
  <2> QED  BY <2>7, AppendProperties DEF t
<1>3. T \subseteq Seq(S)  OBVIOUS
<1> HIDE DEF T
<1>4. T = Seq(S)  BY <1>1, <1>2, <1>3, InductiveSeqs
<1> QED  BY <1>4 DEF T

\* What has been put together up to a place.
LEMMA JoinedFacts ==
    ASSUME NEW S, NEW s \in Seq(Seq(S)), NEW f, f = Joined(f, s), NEW k \in 1 .. Len(s)
    PROVE  /\ f[k] \in Seq(S)
           /\ ToSet(f[k]) = UNION {ToSet(s[i]) : i \in 1 .. k}
           /\ /\ \A i \in 1 .. Len(s) : Distinct(s[i])
              /\ \A i, j \in 1 .. Len(s) : i # j => ToSet(s[i]) \cap ToSet(s[j]) = {}
              => Distinct(f[k])
<1> DEFINE n == Len(s)
<1>a. n \in Nat /\ \A i \in 1 .. n : s[i] \in Seq(S)  BY LenProperties, ElementOfSeq
<1>b. \A i \in 1 .. n : f[i] = IF i = 1 THEN s[i] ELSE f[i - 1] \o s[i]  BY DEF Joined
<1>c. SUFFICES ASSUME n \in Nat, \A i \in 1 .. n : s[i] \in Seq(S),
                      \A i \in 1 .. n : f[i] = IF i = 1 THEN s[i] ELSE f[i - 1] \o s[i]
               PROVE  \A m \in 1 .. n :
                        /\ f[m] \in Seq(S)
                        /\ ToSet(f[m]) = UNION {ToSet(s[i]) : i \in 1 .. m}
                        /\ /\ \A i \in 1 .. n : Distinct(s[i])
                           /\ \A i, j \in 1 .. n : i # j => ToSet(s[i]) \cap ToSet(s[j]) = {}
                           => Distinct(f[m])
  BY <1>a, <1>b
<1> HIDE DEF n
<1> USE <1>c
<1> DEFINE Apart == /\ \A i \in 1 .. n : Distinct(s[i])
                    /\ \A i, j \in 1 .. n : i # j => ToSet(s[i]) \cap ToSet(s[j]) = {}
           Good(m) == /\ f[m] \in Seq(S)
                      /\ ToSet(f[m]) = UNION {ToSet(s[i]) : i \in 1 .. m}
                      /\ Apart => Distinct(f[m])
           N == {m \in Nat : m \in 1 .. n => Good(m)}
<1>1. 1 \in 1 .. n => Good(1)
  <2> SUFFICES ASSUME 1 \in 1 .. n PROVE Good(1)  OBVIOUS
  <2>1. f[1] = s[1] /\ f[1] \in Seq(S)  OBVIOUS
  <2>2. {ToSet(s[i]) : i \in 1 .. 1} = {ToSet(s[1])}  OBVIOUS
  <2>3. ToSet(f[1]) = UNION {ToSet(s[i]) : i \in 1 .. 1}  BY <2>1, <2>2
  <2>4. Apart => Distinct(f[1])  BY <2>1
  <2> QED  BY <2>1, <2>3, <2>4
<1>2. ASSUME NEW m \in 1 .. n, m + 1 \in 1 .. n, Good(m) PROVE Good(m + 1)
  <2>1. f[m + 1] = f[m] \o s[m + 1]
    <3>1. m + 1 # 1 /\ m + 1 - 1 = m /\ m + 1 \in 1 .. n  BY <1>2
    <3>2. \A i \in 1 .. n : i # 1 => f[i] = f[i - 1] \o s[i]  OBVIOUS
    <3> DEFINE next == m + 1
    <3>3. next \in 1 .. n /\ next # 1 /\ next - 1 = m  BY <3>1
    <3> HIDE DEF next
    <3>4. f[next] = f[next - 1] \o s[next]  BY <3>2, <3>3
    <3> QED  BY <3>3, <3>4 DEF next
  <2>2. s[m + 1] \in Seq(S) /\ f[m] \in Seq(S)  BY <1>2
  <2>3. /\ f[m + 1] \in Seq(S)
        /\ ToSet(f[m + 1]) = ToSet(f[m]) \cup ToSet(s[m + 1])
        /\ Distinct(f[m]) /\ Distinct(s[m + 1]) /\ ToSet(f[m]) \cap ToSet(s[m + 1]) = {}
             => Distinct(f[m + 1])
    BY <2>1, <2>2, ConcatFacts
  <2>4. ToSet(f[m]) = UNION {ToSet(s[i]) : i \in 1 .. m}  BY <1>2
  <2>5. 1 .. m + 1 = (1 .. m) \cup {m + 1}  OBVIOUS
  <2>6. ToSet(f[m + 1]) = UNION {ToSet(s[i]) : i \in 1 .. m + 1}  BY <2>3, <2>4, <2>5
  <2>7. ASSUME Apart PROVE Distinct(f[m + 1])
    <3>1. \A i \in 1 .. m : ToSet(s[i]) \cap ToSet(s[m + 1]) = {}
      <4> SUFFICES ASSUME NEW i \in 1 .. m PROVE ToSet(s[i]) \cap ToSet(s[m + 1]) = {}  OBVIOUS
      <4>1. i \in 1 .. n /\ i # m + 1  OBVIOUS
      <4> QED  BY <1>2, <2>7, <4>1
    <3>2. ToSet(f[m]) \cap ToSet(s[m + 1]) = {}  BY <2>4, <3>1
    <3>3. Distinct(f[m]) /\ Distinct(s[m + 1])  BY <1>2, <2>7
    <3> QED  BY <2>3, <3>2, <3>3
  <2> QED  BY <2>3, <2>6, <2>7
<1> HIDE DEF Good
<1>3. 0 \in N  OBVIOUS
<1>4. ASSUME NEW m \in N PROVE m + 1 \in N
  <2>1. CASE m = 0  BY <1>1, <2>1
  <2>2. CASE m # 0
    <3>1. m + 1 \in 1 .. n => m \in 1 .. n  BY <2>2
    <3>2. m \in 1 .. n => Good(m)  OBVIOUS
    <3> QED  BY <1>2, <3>1, <3>2
  <2> QED  BY <2>1, <2>2
<1>5. N \subseteq Nat  OBVIOUS
<1>6. N = Nat
  <2> HIDE DEF N
  <2> QED  BY <1>3, <1>4, <1>5, InductiveSet
<1>7. \A m \in 1 .. n : Good(m)
  <2> SUFFICES ASSUME NEW m \in 1 .. n PROVE Good(m)  OBVIOUS
  <2>1. m \in N
    <3> HIDE DEF N
    <3> QED  BY <1>6
  <2> QED  BY <2>1
<1> QED  BY <1>7 DEF Good

\* Lists put together have the entries of each, distinct if no two lists share
\* one.
LEMMA FlattenFacts ==
    ASSUME NEW S, NEW s \in Seq(Seq(S))
    PROVE  /\ FlattenSeq(s) \in Seq(S)
           /\ ToSet(FlattenSeq(s)) = UNION {ToSet(s[i]) : i \in 1 .. Len(s)}
           /\ /\ \A i \in 1 .. Len(s) : Distinct(s[i])
              /\ \A i, j \in 1 .. Len(s) : i # j => ToSet(s[i]) \cap ToSet(s[j]) = {}
              => Distinct(FlattenSeq(s))
<1> DEFINE n == Len(s)
           flat == FlattenSeq(s)
<1>0. n \in Nat /\ \A i \in 1 .. n : s[i] \in Seq(S)  BY LenProperties, ElementOfSeq
<1>1. CASE n = 0
  <2>1. s = <<>> /\ flat = s  BY <1>1, EmptySeq DEF FlattenSeq
  <2>2. ToSet(<<>>) = {} /\ Distinct(<<>>) /\ <<>> \in Seq(S)  BY EmptySeq DEF ToSet, Distinct
  <2>3. flat \in Seq(S) /\ ToSet(flat) = {} /\ Distinct(flat)  BY <2>1, <2>2
  <2>4. UNION {ToSet(s[i]) : i \in 1 .. n} = {}  BY <1>1
  <2> HIDE DEF flat, n
  <2> QED  BY <2>3, <2>4 DEF flat, n
<1>2. CASE n # 0
  <2> DEFINE f == CHOOSE f : f = Joined(f, s)
  <2>1. f = Joined(f, s)  BY JoinedExists
  <2>2. flat = f[n]  BY <1>2 DEF FlattenSeq, Joined
  <2> HIDE DEF f
  <2>4. n \in 1 .. n  BY <1>0, <1>2
  <2>5. /\ f[n] \in Seq(S)
        /\ ToSet(f[n]) = UNION {ToSet(s[i]) : i \in 1 .. n}
        /\ /\ \A i \in 1 .. n : Distinct(s[i])
           /\ \A i, j \in 1 .. n : i # j => ToSet(s[i]) \cap ToSet(s[j]) = {}
           => Distinct(f[n])
    BY <2>1, <2>4, JoinedFacts
  <2> HIDE DEF flat
  <2> QED  BY <2>2, <2>5 DEF flat
<1> QED  BY <1>1, <1>2

-----------------------------------------------------------------------------
(* The refs under a path of a tree.                                           *)

LEMMA PrefixFacts ==
    ASSUME NEW s \in Seq(STRING), NEW t \in Seq(STRING)
    PROVE  IsPrefix(s, t) <=> Len(s) <= Len(t) /\ \A i \in 1 .. Len(s) : s[i] = t[i]
<1>1. Len(s) \in Nat /\ Len(t) \in Nat  BY LenProperties
<1>2. SubSeq(s, 1, Len(s)) = s  OBVIOUS
<1>3. CASE Len(s) <= Len(t)
  <2> DEFINE u == SubSeq(t, 1, Len(s))
  <2>1. u \in Seq(STRING) /\ Len(u) = Len(s) /\ \A i \in 1 .. Len(s) : u[i] = t[i]
    BY <1>1, <1>3
  <2> HIDE DEF u
  <2>2. s = u <=> \A i \in 1 .. Len(s) : s[i] = u[i]  BY <2>1, SeqEqual
  <2>3. s = u <=> \A i \in 1 .. Len(s) : s[i] = t[i]  BY <2>1, <2>2
  <2> QED  BY <1>2, <1>3, <2>3 DEF IsPrefix, u
<1> QED  BY <1>3 DEF IsPrefix

\* A name inside a path: the path is one of its directories, or refs/ itself.
Inside(path, name) == IsPrefix(path, name) /\ path # name

LEMMA InsideFacts ==
    ASSUME NEW path \in Seq(STRING), NEW name \in Seq(STRING)
    PROVE  /\ Inside(path, name) <=> Len(path) < Len(name) /\ \A i \in 1 .. Len(path) : path[i] = name[i]
           /\ path # <<>> => (Inside(path, name) <=> path \in Directories(name))
<1>1. Len(path) \in Nat /\ Len(name) \in Nat  BY LenProperties
<1>2. IsPrefix(path, name) <=> Len(path) <= Len(name) /\ \A i \in 1 .. Len(path) : path[i] = name[i]
  BY PrefixFacts
<1>3. Len(path) = Len(name) /\ (\A i \in 1 .. Len(path) : path[i] = name[i]) => path = name
  BY SeqEqual
<1>4. Inside(path, name) <=> Len(path) < Len(name) /\ \A i \in 1 .. Len(path) : path[i] = name[i]
  BY <1>1, <1>2, <1>3 DEF Inside
<1>5. ASSUME path # <<>>, Inside(path, name) PROVE path \in Directories(name)
  <2>1. Len(path) \in 1 .. Len(name) - 1
    <3>1. Len(path) # 0  BY <1>5, EmptySeq
    <3> QED  BY <1>1, <1>4, <1>5, <3>1
  <2>2. SubSeq(path, 1, Len(path)) = path  OBVIOUS
  <2>3. path = SubSeq(name, 1, Len(path))  BY <1>5, <2>2 DEF Inside, IsPrefix
  <2> QED  BY <2>1, <2>3, Zenon DEF Directories
<1>6. ASSUME path # <<>>, path \in Directories(name) PROVE Inside(path, name)
  <2>1. PICK i \in 1 .. Len(name) - 1 : path = SubSeq(name, 1, i)  BY <1>6 DEF Directories
  <2>2. Len(path) = i /\ i < Len(name) /\ \A j \in 1 .. i : path[j] = name[j]  BY <1>1, <2>1
  <2> QED  BY <1>4, <2>2
<1> QED  BY <1>4, <1>5, <1>6

\* The leaves of a tree that are at a path or inside it.
Under(tree, path) == {name \in DOMAIN tree.leaves : IsPrefix(path, name)}

LEMMA LeavesFacts ==
    ASSUME NEW tree \in Nodes
    PROVE  /\ DOMAIN tree.leaves \subseteq RefNames /\ tree.leaves \in [DOMAIN tree.leaves -> Targets]
           /\ DOMAIN tree.leaves \subseteq Seq(STRING) \ {<<>>}
BY RefMapFacts, NamesAreSequences DEF Nodes

LEMMA TargetsFacts ==
    ASSUME NEW tree \in Nodes, NEW path
    PROVE  /\ RefTreeTargets(tree, path) \in Seq(DOMAIN tree.leaves)
           /\ Distinct(RefTreeTargets(tree, path))
           /\ ToSet(RefTreeTargets(tree, path)) = Under(tree, path)
<1> DEFINE kept == Kept(Names, Under(tree, path))
           S == Seq(STRING) \ {<<>>}
<1>1. Under(tree, path) \subseteq RefNames /\ Under(tree, path) \subseteq DOMAIN tree.leaves
  BY LeavesFacts DEF Under
<1>2. Names \in Seq(S) /\ Distinct(Names)  BY NamesAssumption DEF Distinct
<1>3. RefNames = {Names[i] : i \in 1 .. Len(Names)}  BY <1>2 DEF RefNames, ToSet
<1> HIDE DEF S
<1>4. kept \in Seq(S \cap Under(tree, path)) /\ Distinct(kept)  BY <1>2, KeptSeq, KeptDistinct
<1>5. /\ \A i \in 1 .. Len(kept) : kept[i] \in Under(tree, path)
      /\ \A j \in 1 .. Len(Names) : Names[j] \in Under(tree, path) =>
           \E i \in 1 .. Len(kept) : kept[i] = Names[j]
  BY <1>2, KeptEntries
<1>6. RefTreeTargets(tree, path) = kept  BY DEF RefTreeTargets, Under
<1> HIDE DEF kept
<1>7. kept \in Seq(DOMAIN tree.leaves)
  <2>1. S \cap Under(tree, path) \subseteq DOMAIN tree.leaves  BY <1>1
  <2> QED  BY <1>4, <2>1, SeqMonotonic
<1>8. ToSet(kept) = {kept[i] : i \in 1 .. Len(kept)}  BY <1>4, ToSetOfSeq
<1>9. ToSet(kept) = Under(tree, path)  BY <1>1, <1>3, <1>5, <1>8
<1> QED  BY <1>4, <1>6, <1>7, <1>9

\* Where a tree has a leaf there is nothing inside, and there is a directory where
\* something is inside.
LEMMA UnderFacts ==
    ASSUME NEW tree \in Nodes, WellFormed(tree), NEW path \in Seq(STRING), path # <<>>
    PROVE  /\ path \in DOMAIN tree.leaves => Under(tree, path) = {path} /\ path \notin tree.dirs
           /\ path \in tree.dirs <=> \E name \in Under(tree, path) : name # path
           /\ path \notin DOMAIN tree.leaves \cup tree.dirs => Under(tree, path) = {}
<1>1. DOMAIN tree.leaves \subseteq Seq(STRING)  BY LeavesFacts
<1>2. path \in tree.dirs <=> \E name \in DOMAIN tree.leaves : path \in Directories(name)
  BY DEF WellFormed
<1>3. path \in tree.dirs <=> \E name \in DOMAIN tree.leaves : Inside(path, name)
  BY <1>1, <1>2, InsideFacts
<1>4. path \in tree.dirs <=> \E name \in Under(tree, path) : name # path
  BY <1>3 DEF Inside, Under
<1>5. IsPrefix(path, path)  BY PrefixFacts, LenProperties
<1>6. path \in DOMAIN tree.leaves => path \notin tree.dirs
  BY <1>2 DEF WellFormed, IsNamespace
<1>7. path \in DOMAIN tree.leaves => path \in Under(tree, path)  BY <1>5 DEF Under
<1>8. path \in Under(tree, path) => path \in DOMAIN tree.leaves  BY DEF Under
<1> QED  BY <1>4, <1>6, <1>7, <1>8

\* The kinds of entries, and what equal ones say.
LEMMA EntryKinds ==
    ASSUME NEW tree \in Nodes, WellFormed(tree), NEW path \in Seq(STRING), path # <<>>
    PROVE  /\ EntryAt(tree, path).kind = "blob" <=> path \in DOMAIN tree.leaves
           /\ EntryAt(tree, path).kind = "tree" <=> path \in tree.dirs
           /\ EntryAt(tree, path).kind = "blob" => EntryAt(tree, path).oid = tree.leaves[path]
           /\ EntryAt(tree, path).kind = "tree" =>
                EntryAt(tree, path).oid = [name \in Under(tree, path) |-> tree.leaves[name]]
<1>1. path \in DOMAIN tree.leaves => path \notin tree.dirs  BY UnderFacts
<1> DEFINE part == [tree EXCEPT !.leaves = Restrict(@, {n \in DOMAIN @ : IsPrefix(path, n)})]
<1>2. Applied(part) = [name \in Under(tree, path) |-> tree.leaves[name]]
  <2> DEFINE map == [name \in Under(tree, path) |-> tree.leaves[name]]
  <2>1. part.leaves = map /\ part = [dirs |-> tree.dirs, leaves |-> map]
    BY DEF Restrict, Under, Nodes
  <2>2. map \in RefMaps
    <3>1. Under(tree, path) \in SUBSET RefNames /\ map \in [Under(tree, path) -> Targets]
      BY LeavesFacts DEF Under
    <3> QED  BY <3>1, RefMapsAreFunctions
  <2> HIDE DEF map
  <2>3. part \in Nodes  BY <2>1, <2>2 DEF Nodes
  <2> HIDE DEF part
  <2> QED  BY <2>1, <2>3, AppliedIsLeaves DEF map
<1>3. /\ path \in DOMAIN tree.leaves => EntryAt(tree, path) = [kind |-> "blob", oid |-> tree.leaves[path]]
      /\ path \notin DOMAIN tree.leaves /\ path \in tree.dirs =>
           EntryAt(tree, path) = [kind |-> "tree", oid |-> Applied(part)]
      /\ path \notin DOMAIN tree.leaves /\ path \notin tree.dirs =>
           EntryAt(tree, path) = [kind |-> "none", oid |-> Absent]
  BY DEF EntryAt
<1> HIDE DEF part
<1>4. CASE path \in DOMAIN tree.leaves  BY <1>1, <1>3, <1>4
<1>5. CASE path \notin DOMAIN tree.leaves /\ path \in tree.dirs  BY <1>2, <1>3, <1>5
<1>6. CASE path \notin DOMAIN tree.leaves /\ path \notin tree.dirs  BY <1>3, <1>6
<1> QED  BY <1>4, <1>5, <1>6

LEMMA EqualEntries ==
    ASSUME NEW m \in Nodes, WellFormed(m), NEW n \in Nodes, WellFormed(n),
           NEW path \in Seq(STRING), path # <<>>, EntryAt(m, path) = EntryAt(n, path)
    PROVE  /\ Under(m, path) = Under(n, path)
           /\ \A name \in Under(m, path) : m.leaves[name] = n.leaves[name]
<1> DEFINE e == EntryAt(m, path)
<1>a. /\ e.kind = "blob" <=> path \in DOMAIN m.leaves
      /\ e.kind = "tree" <=> path \in m.dirs
      /\ e.kind = "blob" => e.oid = m.leaves[path]
      /\ e.kind = "tree" => e.oid = [name \in Under(m, path) |-> m.leaves[name]]
  BY EntryKinds
<1>b. e = EntryAt(n, path)  OBVIOUS
<1> HIDE DEF e
<1>c. /\ e.kind = "blob" <=> path \in DOMAIN n.leaves
      /\ e.kind = "tree" <=> path \in n.dirs
      /\ e.kind = "blob" => e.oid = n.leaves[path]
      /\ e.kind = "tree" => e.oid = [name \in Under(n, path) |-> n.leaves[name]]
  BY <1>b, EntryKinds
<1>1. CASE path \in DOMAIN m.leaves
  <2>1. path \in DOMAIN n.leaves /\ m.leaves[path] = n.leaves[path]  BY <1>1, <1>a, <1>c
  <2> QED  BY <1>1, <2>1, UnderFacts
<1>2. CASE path \in m.dirs
  <2>1. [name \in Under(m, path) |-> m.leaves[name]] = [name \in Under(n, path) |-> n.leaves[name]]
    BY <1>2, <1>a, <1>c, Zenon
  <2> QED  BY <2>1
<1>3. CASE path \notin DOMAIN m.leaves \cup m.dirs
  <2>1. path \notin DOMAIN n.leaves \cup n.dirs  BY <1>3, <1>a, <1>c
  <2> QED  BY <1>3, <2>1, UnderFacts
<1> QED  BY <1>1, <1>2, <1>3

-----------------------------------------------------------------------------
(* The list of changes is the difference of the trees.                        *)

Kinds == {"deleted", "created", "updated"}
RefChange == [name : RefNames, kind : Kinds, target : Targets]

Between(m, n) == Difference(m.leaves, n.leaves)

\* A list of just those changes between two trees that are of refs in a set.
Lists(list, m, n, names) ==
    /\ list \in Seq(RefChange) /\ Distinct(list)
    /\ ToSet(list) = {change \in Between(m, n) : change.name \in names}

LEMMA ChangeFacts ==
    ASSUME NEW tree \in Nodes, NEW kind \in Kinds, NEW names \in Seq(DOMAIN tree.leaves),
           Distinct(names)
    PROVE  /\ Change(tree, kind, names) \in Seq(RefChange) /\ Distinct(Change(tree, kind, names))
           /\ ToSet(Change(tree, kind, names)) =
                {[name |-> name, kind |-> kind, target |-> tree.leaves[name]] : name \in ToSet(names)}
<1> DEFINE n == Len(names)
           list == Change(tree, kind, names)
           Of(name) == [name |-> name, kind |-> kind, target |-> tree.leaves[name]]
<1>1. n \in Nat /\ \A i \in 1 .. n : names[i] \in DOMAIN tree.leaves  BY LenProperties, ElementOfSeq
<1>2. \A name \in DOMAIN tree.leaves : Of(name) \in RefChange
  BY LeavesFacts DEF RefChange
<1>3. list = [i \in 1 .. n |-> Of(names[i])]  BY DEF Change
<1> HIDE DEF list, Of, n
<1>4. list \in [1 .. n -> RefChange]  BY <1>1, <1>2, <1>3
<1>5. list \in Seq(RefChange) /\ Len(list) = n  BY <1>1, <1>4
<1>6. \A a, b : Of(a) = Of(b) => a = b
  <2>1. \A a : Of(a).name = a  BY DEF Of
  <2> QED  BY <2>1
<1>7. Distinct(list)
  <2> SUFFICES ASSUME NEW i \in 1 .. n, NEW j \in 1 .. n, list[i] = list[j] PROVE i = j
    BY <1>5 DEF Distinct
  <2>1. names[i] = names[j]  BY <1>3, <1>6
  <2> QED  BY <2>1 DEF Distinct, n
<1>8. ToSet(names) = {names[i] : i \in 1 .. n} /\ ToSet(list) = {list[i] : i \in 1 .. n}
  BY <1>5, ToSetOfSeq DEF n
<1>9. ToSet(list) = {Of(name) : name \in ToSet(names)}  BY <1>3, <1>8
<1> QED  BY <1>5, <1>7, <1>9 DEF list, Of

\* The changes between two trees, one per ref.
LEMMA BetweenFacts ==
    ASSUME NEW m \in Nodes, NEW n \in Nodes
    PROVE  \A change : change \in Between(m, n) <=>
             \/ \E name \in DOMAIN m.leaves \ DOMAIN n.leaves :
                  change = [name |-> name, kind |-> "deleted", target |-> m.leaves[name]]
             \/ \E name \in DOMAIN n.leaves \ DOMAIN m.leaves :
                  change = [name |-> name, kind |-> "created", target |-> n.leaves[name]]
             \/ \E name \in DOMAIN m.leaves \cap DOMAIN n.leaves :
                  /\ m.leaves[name] # n.leaves[name]
                  /\ change = [name |-> name, kind |-> "updated", target |-> n.leaves[name]]
BY DEF Between, Difference

\* Two trees that have the same refs in a set have no changes there.
LEMMA NothingBetween ==
    ASSUME NEW m \in Nodes, NEW n \in Nodes, NEW names,
           DOMAIN m.leaves \cap names = DOMAIN n.leaves \cap names,
           \A name \in DOMAIN m.leaves \cap names : m.leaves[name] = n.leaves[name]
    PROVE  Lists(<<>>, m, n, names)
<1>1. \A change \in Between(m, n) : change.name \notin names  BY BetweenFacts
<1>2. <<>> \in Seq(RefChange) /\ Distinct(<<>>) /\ ToSet(<<>>) = {}
  BY EmptySeq DEF ToSet, Distinct
<1> QED  BY <1>1, <1>2 DEF Lists



LEMMA UpdateListed ==
    ASSUME NEW m \in Nodes, NEW n \in Nodes, NEW path, NEW names,
           DOMAIN m.leaves \cap names = {path}, DOMAIN n.leaves \cap names = {path},
           m.leaves[path] # n.leaves[path]
    PROVE  Lists(Change(n, "updated", <<path>>), m, n, names)
<1> DEFINE list == Change(n, "updated", <<path>>)
           update == [name |-> path, kind |-> "updated", target |-> n.leaves[path]]
<1>1. <<path>> \in Seq(DOMAIN n.leaves) /\ Distinct(<<path>>) /\ ToSet(<<path>>) = {path}
  <2>1. path \in DOMAIN n.leaves  OBVIOUS
  <2>2. <<path>> \in Seq(DOMAIN n.leaves) /\ Len(<<path>>) = 1 /\ <<path>>[1] = path
    <3> DEFINE S == DOMAIN n.leaves
    <3>1. path \in S  BY <2>1
    <3> HIDE DEF S
    <3>2. <<path>> \in Seq(S) /\ Len(<<path>>) = 1 /\ <<path>>[1] = path  BY <3>1
    <3> QED  BY <3>2 DEF S
  <2>3. Distinct(<<path>>)  BY <2>2 DEF Distinct
  <2>4. ToSet(<<path>>) = {<<path>>[i] : i \in 1 .. 1}  BY <2>2, ToSetOfSeq
  <2> QED  BY <2>2, <2>3, <2>4
<1>2. "updated" \in Kinds  BY DEF Kinds
<1>3. list \in Seq(RefChange) /\ Distinct(list) /\ ToSet(list) = {update}
  <2>1. /\ list \in Seq(RefChange) /\ Distinct(list)
        /\ ToSet(list) = {[name |-> name, kind |-> "updated", target |-> n.leaves[name]] :
                            name \in ToSet(<<path>>)}
    BY <1>1, <1>2, ChangeFacts
  <2> QED  BY <1>1, <2>1
<1>4. \A change : change \in Between(m, n) /\ change.name \in names <=> change = update
  <2>1. ASSUME NEW change \in Between(m, n), change.name \in names PROVE change = update
    BY <2>1, BetweenFacts
  <2>2. update \in Between(m, n) /\ update.name \in names  BY BetweenFacts
  <2> QED  BY <2>1, <2>2
<1> HIDE DEF list, update
<1> QED  BY <1>3, <1>4 DEF Lists, list

\* Where no ref is in both trees, all of one are deleted and of the other created.
LEMMA ReplacementListed ==
    ASSUME NEW m \in Nodes, NEW n \in Nodes, NEW path, NEW names,
           DOMAIN m.leaves \cap names = Under(m, path), DOMAIN n.leaves \cap names = Under(n, path),
           Under(m, path) \cap Under(n, path) = {}
    PROVE  Lists(Replaced(m, n, path), m, n, names)
<1> DEFINE old == Change(m, "deleted", RefTreeTargets(m, path))
           new == Change(n, "created", RefTreeTargets(n, path))
           Deleted == {[name |-> name, kind |-> "deleted", target |-> m.leaves[name]] :
                         name \in Under(m, path)}
           Created == {[name |-> name, kind |-> "created", target |-> n.leaves[name]] :
                         name \in Under(n, path)}
<1>1. "deleted" \in Kinds /\ "created" \in Kinds  BY DEF Kinds
<1>2. old \in Seq(RefChange) /\ Distinct(old) /\ ToSet(old) = Deleted
  BY <1>1, TargetsFacts, ChangeFacts
<1>3. new \in Seq(RefChange) /\ Distinct(new) /\ ToSet(new) = Created
  BY <1>1, TargetsFacts, ChangeFacts
<1>4. Deleted \cap Created = {}  OBVIOUS
<1>5. Replaced(m, n, path) = old \o new  BY DEF Replaced
<1>6. {change \in Between(m, n) : change.name \in names} = Deleted \cup Created
  <2>1. ASSUME NEW change \in Between(m, n), change.name \in names
        PROVE  change \in Deleted \cup Created
    BY <2>1, BetweenFacts
  <2>2. ASSUME NEW name \in Under(m, path)
        PROVE  [name |-> name, kind |-> "deleted", target |-> m.leaves[name]] \in Between(m, n)
    BY <2>2, BetweenFacts
  <2>3. ASSUME NEW name \in Under(n, path)
        PROVE  [name |-> name, kind |-> "created", target |-> n.leaves[name]] \in Between(m, n)
    BY <2>3, BetweenFacts
  <2>4. ASSUME NEW change \in Deleted \cup Created
        PROVE  change \in Between(m, n) /\ change.name \in names
    BY <2>2, <2>3
  <2> HIDE DEF Deleted, Created
  <2> QED  BY <2>1, <2>4
<1> HIDE DEF old, new, Deleted, Created
<1>7. /\ old \o new \in Seq(RefChange) /\ ToSet(old \o new) = Deleted \cup Created
      /\ Distinct(old \o new)
  BY <1>2, <1>3, <1>4, ConcatFacts
<1> QED  BY <1>5, <1>6, <1>7 DEF Lists

\* The arms of diff_ref_trees list the changes at a path and inside it, if those
\* inside are listed where both trees go on.
PathNames(path) == {name \in Seq(STRING) : IsPrefix(path, name)}
InsideNames(path) == {name \in Seq(STRING) : Inside(path, name)}

LEMMA EntryListed ==
    ASSUME NEW m \in Nodes, WellFormed(m), NEW n \in Nodes, WellFormed(n),
           NEW path \in Seq(STRING), path # <<>>,
           NEW below, path \in m.dirs \cap n.dirs => Lists(below, m, n, InsideNames(path))
    PROVE  Lists(EntryChanges(m, n, path, below), m, n, PathNames(path))
<1> DEFINE was == EntryAt(m, path)
           now == EntryAt(n, path)
           names == PathNames(path)
<1>1. DOMAIN m.leaves \cap names = Under(m, path) /\ DOMAIN n.leaves \cap names = Under(n, path)
  BY LeavesFacts DEF Under, PathNames
<1>2. /\ was.kind = "blob" => path \in DOMAIN m.leaves
      /\ path \in DOMAIN m.leaves => was.kind = "blob" /\ was.oid = m.leaves[path]
      /\ was.kind = "tree" => path \in m.dirs
      /\ path \in m.dirs => was.kind = "tree"
  BY EntryKinds, Zenon
<1>3. /\ now.kind = "blob" => path \in DOMAIN n.leaves
      /\ path \in DOMAIN n.leaves => now.kind = "blob" /\ now.oid = n.leaves[path]
      /\ now.kind = "tree" => path \in n.dirs
      /\ path \in n.dirs => now.kind = "tree"
  BY EntryKinds, Zenon
<1>4. EntryChanges(m, n, path, below) =
        IF was = now THEN <<>>
        ELSE IF was.kind = "tree" /\ now.kind = "tree" THEN below
        ELSE IF was.kind = "blob" /\ now.kind = "blob" THEN Change(n, "updated", <<path>>)
        ELSE Replaced(m, n, path)
  BY DEF EntryChanges
<1>5. ASSUME was = now PROVE Lists(<<>>, m, n, names)
  <2>1. /\ Under(m, path) = Under(n, path)
        /\ \A name \in Under(m, path) : m.leaves[name] = n.leaves[name]
    BY <1>5, EqualEntries
  <2> HIDE DEF names
  <2> QED  BY <1>1, <2>1, NothingBetween
<1>6. ASSUME was.kind = "tree", now.kind = "tree" PROVE Lists(below, m, n, names)
  <2>1. path \in m.dirs /\ path \in n.dirs /\ path \notin DOMAIN m.leaves /\ path \notin DOMAIN n.leaves
    BY <1>2, <1>3, <1>6
  <2>2. Lists(below, m, n, InsideNames(path))  BY <2>1
  <2>3. \A change \in Between(m, n) : change.name # path  BY <2>1, BetweenFacts
  <2>4. \A name \in Seq(STRING) : name # path => (name \in names <=> name \in InsideNames(path))
    BY DEF PathNames, InsideNames, Inside
  <2>5. \A change \in Between(m, n) : change.name \in Seq(STRING)
    BY BetweenFacts, LeavesFacts
  <2>6. {change \in Between(m, n) : change.name \in names}
          = {change \in Between(m, n) : change.name \in InsideNames(path)}
    BY <2>3, <2>4, <2>5
  <2> QED  BY <2>2, <2>6 DEF Lists
<1>7. ASSUME was.kind = "blob", now.kind = "blob", was # now
      PROVE  Lists(Change(n, "updated", <<path>>), m, n, names)
  <2>1. path \in DOMAIN m.leaves /\ path \in DOMAIN n.leaves  BY <1>2, <1>3, <1>7
  <2>2. was = [kind |-> "blob", oid |-> m.leaves[path]] /\ now = [kind |-> "blob", oid |-> n.leaves[path]]
    BY <2>1 DEF EntryAt
  <2>3. m.leaves[path] # n.leaves[path]  BY <1>7, <2>2
  <2>4. Under(m, path) = {path} /\ Under(n, path) = {path}  BY <2>1, UnderFacts
  <2> HIDE DEF names
  <2> QED  BY <1>1, <2>3, <2>4, UpdateListed
<1>8. ASSUME was # now, ~(was.kind = "tree" /\ now.kind = "tree"), ~(was.kind = "blob" /\ now.kind = "blob")
      PROVE  Lists(Replaced(m, n, path), m, n, names)
  <2>1. ~(path \in m.dirs /\ path \in n.dirs) /\ ~(path \in DOMAIN m.leaves /\ path \in DOMAIN n.leaves)
    BY <1>2, <1>3, <1>8
  <2>2. Under(m, path) \cap Under(n, path) = {}
    <3>1. CASE path \in DOMAIN m.leaves
      <4>1. Under(m, path) = {path} /\ path \notin Under(n, path)  BY <2>1, <3>1, UnderFacts DEF Under
      <4> QED  BY <4>1
    <3>2. CASE path \in m.dirs
      <4>1. path \notin n.dirs  BY <2>1, <3>2
      <4>2. \A name \in Under(n, path) : name = path  BY <4>1, UnderFacts
      <4>3. path \notin DOMAIN m.leaves  BY <3>2, UnderFacts
      <4>4. path \notin Under(m, path)  BY <4>3 DEF Under
      <4> QED  BY <4>2, <4>4
    <3>3. CASE path \notin DOMAIN m.leaves \cup m.dirs  BY <3>3, UnderFacts
    <3> QED  BY <3>1, <3>2, <3>3
  <2> HIDE DEF names
  <2> QED  BY <1>1, <2>2, ReplacementListed
<1> HIDE DEF was, now, names
<1> QED  BY <1>4, <1>5, <1>6, <1>7, <1>8 DEF names

-----------------------------------------------------------------------------
(* The walk over both trees ends, and lists every change once.                *)

\* A step of diff_ref_trees' recursion, given what it finds further down.
Paths(m, n) == {<<>>} \cup m.dirs \cup n.dirs
StepAt(m, n, path, i, f) ==
    EntryChanges(m, n, Append(path, Components[i]), f[Append(path, Components[i])])
Walk(m, n, path, f) == FlattenSeq([i \in 1 .. Len(Components) |-> StepAt(m, n, path, i, f)])

LEMMA LengthsBounded ==
    \A s \in Seq(Seq(STRING)) : \E max \in Nat : \A i \in 1 .. Len(s) : Len(s[i]) <= max
<1> DEFINE Bounds(s, max) == \A i \in 1 .. Len(s) : Len(s[i]) <= max
           T == {s \in Seq(Seq(STRING)) : \E max \in Nat : Bounds(s, max)}
<1>1. <<>> \in T
  <2>1. Bounds(<<>>, 0)  OBVIOUS
  <2>2. 0 \in Nat /\ <<>> \in Seq(Seq(STRING))  BY EmptySeq
  <2> HIDE DEF Bounds
  <2> QED  BY <2>1, <2>2
<1>2. ASSUME NEW s \in T, NEW x \in Seq(STRING) PROVE Append(s, x) \in T
  <2>1. PICK max \in Nat : Bounds(s, max)  OBVIOUS
  <2> DEFINE t == Append(s, x)
             more == max + Len(x)
  <2>2. /\ t \in Seq(Seq(STRING)) /\ Len(s) \in Nat /\ Len(t) = Len(s) + 1 /\ t[Len(s) + 1] = x
        /\ \A i \in 1 .. Len(s) : t[i] = s[i] /\ s[i] \in Seq(STRING)
    <3>1. s \in Seq(Seq(STRING))  OBVIOUS
    <3> QED  BY <3>1, AppendProperties, LenProperties, ElementOfSeq
  <2>3. \A y \in Seq(STRING) : Len(y) \in Nat  BY LenProperties
  <2> HIDE DEF t
  <2>4. Bounds(t, more)
    <3> SUFFICES ASSUME NEW i \in 1 .. Len(t) PROVE Len(t[i]) <= more  OBVIOUS
    <3>1. CASE i \in 1 .. Len(s)
      <4>1. Len(s[i]) <= max /\ Len(s[i]) \in Nat /\ Len(x) \in Nat  BY <2>1, <2>2, <2>3, <3>1
      <4> QED  BY <2>2, <3>1, <4>1
    <3>2. CASE i = Len(s) + 1
      <4>1. t[i] = x /\ Len(x) \in Nat  BY <2>2, <2>3, <3>2
      <4> QED  BY <4>1
    <3> QED  BY <2>2, <3>1, <3>2
  <2>5. more \in Nat  BY <2>3
  <2> HIDE DEF Bounds, more
  <2>6. t \in T  BY <2>2, <2>4, <2>5
  <2> QED  BY <2>6 DEF t
<1>3. T \subseteq Seq(Seq(STRING))  OBVIOUS
<1> HIDE DEF T
<1>4. T = Seq(Seq(STRING))  BY <1>1, <1>2, <1>3, InductiveSeqs
<1> QED  BY <1>4 DEF T

\* Trees are no deeper than names are long.
LEMMA PathsBounded ==
    ASSUME NEW m \in Nodes, WellFormed(m), NEW n \in Nodes, WellFormed(n)
    PROVE  /\ Paths(m, n) \subseteq Seq(STRING)
           /\ \E max \in Nat : \A path \in Paths(m, n) : Len(path) <= max
<1>1. Names \in Seq(Seq(STRING))
  <2>1. Seq(STRING) \ {<<>>} \subseteq Seq(STRING)  OBVIOUS
  <2> QED  BY <2>1, NamesAssumption, SeqMonotonic
<1>2. PICK max \in Nat : \A i \in 1 .. Len(Names) : Len(Names[i]) <= max  BY <1>1, LengthsBounded
<1>3. RefNames = {Names[i] : i \in 1 .. Len(Names)}  BY <1>1 DEF RefNames, ToSet
<1>4. \A name \in RefNames : Len(name) <= max /\ name \in Seq(STRING)
  BY <1>2, <1>3, NamesAreSequences
<1>5. ASSUME NEW tree \in Nodes, WellFormed(tree), NEW path \in tree.dirs
      PROVE  path \in Seq(STRING) /\ Len(path) <= max
  <2>1. PICK name \in DOMAIN tree.leaves : path \in Directories(name)  BY <1>5 DEF WellFormed
  <2>2. name \in Seq(STRING) /\ Len(name) <= max  BY <1>4, <1>5, LeavesFacts
  <2>3. path \in Seq(STRING) /\ Len(path) < Len(name)  BY <2>1, <2>2, DirectoriesAreShorter
  <2>4. Len(path) \in Nat /\ Len(name) \in Nat  BY <2>2, <2>3, LenProperties
  <2> QED  BY <2>2, <2>3, <2>4
<1>6. <<>> \in Seq(STRING) /\ Len(<<>>) <= max  BY EmptySeq
<1>7. \A path \in Paths(m, n) : path \in Seq(STRING) /\ Len(path) <= max
  BY <1>5, <1>6 DEF Paths
<1> QED  BY <1>7

\* What is found further down matters only where there are directories.
LEMMA StepLooksDown ==
    ASSUME NEW m \in Nodes, WellFormed(m), NEW n \in Nodes, WellFormed(n),
           NEW path \in Seq(STRING), NEW i \in 1 .. Len(Components), NEW f, NEW g,
           Append(path, Components[i]) \in m.dirs \cap n.dirs =>
             f[Append(path, Components[i])] = g[Append(path, Components[i])]
    PROVE  StepAt(m, n, path, i, f) = StepAt(m, n, path, i, g)
<1> DEFINE at == Append(path, Components[i])
<1>1. Components[i] \in STRING  BY ComponentsAssumption, ElementOfSeq
<1>2. at \in Seq(STRING) /\ at # <<>>  BY <1>1, AppendProperties
<1> HIDE DEF at
<1>3. EntryAt(m, at).kind = "tree" => at \in m.dirs  BY <1>2, EntryKinds
<1>4. EntryAt(n, at).kind = "tree" => at \in n.dirs  BY <1>2, EntryKinds
<1>5. at \in m.dirs /\ at \in n.dirs => f[at] = g[at]  BY DEF at
<1>6. EntryChanges(m, n, at, f[at]) = EntryChanges(m, n, at, g[at])
  BY <1>3, <1>4, <1>5 DEF EntryChanges
<1> QED  BY <1>6 DEF StepAt, at

LEMMA WalkLooksDown ==
    ASSUME NEW m \in Nodes, WellFormed(m), NEW n \in Nodes, WellFormed(n),
           NEW path \in Seq(STRING), NEW f, NEW g,
           \A i \in 1 .. Len(Components) : Append(path, Components[i]) \in m.dirs \cap n.dirs =>
             f[Append(path, Components[i])] = g[Append(path, Components[i])]
    PROVE  Walk(m, n, path, f) = Walk(m, n, path, g)
<1>1. \A i \in 1 .. Len(Components) : StepAt(m, n, path, i, f) = StepAt(m, n, path, i, g)
  BY StepLooksDown
<1>2. [i \in 1 .. Len(Components) |-> StepAt(m, n, path, i, f)]
        = [i \in 1 .. Len(Components) |-> StepAt(m, n, path, i, g)]
  BY <1>1
<1> QED  BY <1>2 DEF Walk

\* The recursion of diff_ref_trees is well defined, by the depth that is left.
LEMMA WalkExists ==
    ASSUME NEW m \in Nodes, WellFormed(m), NEW n \in Nodes, WellFormed(n)
    PROVE  \E f : f = [path \in Paths(m, n) |-> Walk(m, n, path, f)]
<1>1. Paths(m, n) \subseteq Seq(STRING)  BY PathsBounded
<1>2. PICK max \in Nat : \A path \in Paths(m, n) : Len(path) <= max  BY PathsBounded
<1> DEFINE Solves(f, k) == /\ f = [path \in Paths(m, n) |-> f[path]]
                           /\ \A path \in Paths(m, n) : Len(path) + k > max => f[path] = Walk(m, n, path, f)
           N == {k \in Nat : \E f : Solves(f, k)}
<1>3. \A path \in Paths(m, n) : Len(path) \in Nat  BY <1>1, LenProperties
<1>4. 0 \in N
  <2> DEFINE f == [path \in Paths(m, n) |-> <<>>]
  <2>1. f = [path \in Paths(m, n) |-> f[path]]  OBVIOUS
  <2>2. \A path \in Paths(m, n) : ~ (Len(path) + 0 > max)  BY <1>2, <1>3
  <2> HIDE DEF f
  <2>3. Solves(f, 0)  BY <2>1, <2>2
  <2> QED  BY <2>3
<1>5. ASSUME NEW k \in N PROVE k + 1 \in N
  <2>1. PICK f : Solves(f, k)  OBVIOUS
  <2> DEFINE g == [path \in Paths(m, n) |->
                     IF Len(path) + (k + 1) > max THEN Walk(m, n, path, f) ELSE f[path]]
  <2>2. g = [path \in Paths(m, n) |-> g[path]]  OBVIOUS
  <2>3. /\ \A path \in Paths(m, n) : Len(path) + (k + 1) > max => g[path] = Walk(m, n, path, f)
        /\ \A path \in Paths(m, n) : Len(path) + k > max => g[path] = f[path]
    <3>1. \A path \in Paths(m, n) : Len(path) + (k + 1) > max => g[path] = Walk(m, n, path, f)
      OBVIOUS
    <3>2. ASSUME NEW path \in Paths(m, n), Len(path) + k > max PROVE g[path] = f[path]
      <4>1. Len(path) + (k + 1) > max  BY <1>3, <3>2
      <4>2. g[path] = Walk(m, n, path, f)  BY <3>1, <4>1
      <4>3. f[path] = Walk(m, n, path, f)  BY <2>1, <3>2
      <4> QED  BY <4>2, <4>3
    <3> QED  BY <3>1, <3>2
  <2> HIDE DEF g
  <2>4. ASSUME NEW path \in Paths(m, n), Len(path) + (k + 1) > max PROVE g[path] = Walk(m, n, path, g)
    <3>1. ASSUME NEW i \in 1 .. Len(Components), Append(path, Components[i]) \in m.dirs \cap n.dirs
          PROVE  f[Append(path, Components[i])] = g[Append(path, Components[i])]
      <4> DEFINE at == Append(path, Components[i])
      <4>1. path \in Seq(STRING) /\ Components[i] \in STRING
        BY <1>1, ComponentsAssumption, ElementOfSeq
      <4>2. Len(at) = Len(path) + 1  BY <4>1, AppendProperties
      <4>3. at \in Paths(m, n)  BY <3>1 DEF Paths
      <4> HIDE DEF at
      <4>4. Len(at) + k > max  BY <1>3, <2>4, <4>2
      <4>5. g[at] = f[at]  BY <2>3, <4>3, <4>4
      <4> QED  BY <4>5 DEF at
    <3>2. path \in Seq(STRING)  BY <1>1
    <3>3. Walk(m, n, path, f) = Walk(m, n, path, g)  BY <3>1, <3>2, WalkLooksDown
    <3> QED  BY <2>3, <2>4, <3>3
  <2>5. Solves(g, k + 1)  BY <2>2, <2>4
  <2>6. \E h : Solves(h, k + 1)
    <3> HIDE DEF Solves
    <3> QED  BY <2>5
  <2> QED  BY <2>6
<1>6. N \subseteq Nat  OBVIOUS
<1>7. max + 1 \in N
  <2> HIDE DEF N
  <2> QED  BY <1>4, <1>5, <1>6, InductiveSet
<1>8. PICK f : Solves(f, max + 1)  BY <1>7
<1>9. \A path \in Paths(m, n) : f[path] = Walk(m, n, path, f)
  <2> SUFFICES ASSUME NEW path \in Paths(m, n) PROVE f[path] = Walk(m, n, path, f)  OBVIOUS
  <2>1. Len(path) + (max + 1) > max  BY <1>3
  <2> QED  BY <1>8, <2>1
<1>10. f = [path \in Paths(m, n) |-> Walk(m, n, path, f)]
  <2>1. f = [path \in Paths(m, n) |-> f[path]]  BY <1>8
  <2> QED  BY <1>9, <2>1
<1> QED  BY <1>10

LEMMA DiffIsWalk ==
    ASSUME NEW m \in Nodes, WellFormed(m), NEW n \in Nodes, WellFormed(n)
    PROVE  \E f : /\ f = [path \in Paths(m, n) |-> Walk(m, n, path, f)]
                  /\ DiffRefTrees(m, n) = f[<<>>]
<1> DEFINE f == CHOOSE f : f = [path \in Paths(m, n) |-> Walk(m, n, path, f)]
<1>1. f = [path \in Paths(m, n) |-> Walk(m, n, path, f)]  BY WalkExists
<1>2. DiffRefTrees(m, n) = f[<<>>]  BY DEF DiffRefTrees, Paths, Walk, StepAt
<1> QED  BY <1>1, <1>2

\* A name inside a path goes on with one component.
LEMMA ComponentsSplit ==
    ASSUME NEW path \in Seq(STRING), NEW name \in RefNames
    PROVE  /\ \A i \in 1 .. Len(Components) : IsPrefix(Append(path, Components[i]), name) =>
                Inside(path, name) /\ name[Len(path) + 1] = Components[i]
           /\ Inside(path, name) =>
                \E i \in 1 .. Len(Components) : IsPrefix(Append(path, Components[i]), name)
<1> DEFINE n == Len(path)
<1>1. name \in Seq(STRING) /\ Len(name) \in Nat /\ n \in Nat
  BY NamesAreSequences, LenProperties
<1>2. Inside(path, name) <=> n < Len(name) /\ \A j \in 1 .. n : path[j] = name[j]
  BY <1>1, InsideFacts
<1>3. ASSUME NEW x \in STRING
      PROVE  IsPrefix(Append(path, x), name) <=>
               /\ n < Len(name) /\ name[n + 1] = x
               /\ \A j \in 1 .. n : path[j] = name[j]
  <2> DEFINE at == Append(path, x)
  <2>1. /\ at \in Seq(STRING) /\ Len(at) = n + 1 /\ at[n + 1] = x
        /\ \A j \in 1 .. n : at[j] = path[j]
    <3>1. at \in Seq(STRING) /\ Len(at) = n + 1  BY AppendEntries, Zenon
    <3>2. at[n + 1] = x  BY AppendEntries, Zenon
    <3>3. ASSUME NEW j \in 1 .. n PROVE at[j] = path[j]  BY AppendEntries
    <3> QED  BY <3>1, <3>2, <3>3
  <2> HIDE DEF at
  <2>2. IsPrefix(at, name) <=> n + 1 <= Len(name) /\ \A j \in 1 .. n + 1 : at[j] = name[j]
    BY <1>1, <2>1, PrefixFacts
  <2> HIDE DEF n
  <2>3. (\A j \in 1 .. n + 1 : at[j] = name[j]) <=> x = name[n + 1] /\ \A j \in 1 .. n : path[j] = name[j]
    <3>1. 1 .. n + 1 = (1 .. n) \cup {n + 1}  BY <1>1
    <3> QED  BY <1>1, <2>1, <3>1
  <2> DEFINE Agree == \A j \in 1 .. n : path[j] = name[j]
             AgreeAt == \A j \in 1 .. n + 1 : at[j] = name[j]
  <2>4. n + 1 <= Len(name) <=> n < Len(name)  BY <1>1
  <2>5. IsPrefix(at, name) <=> n + 1 <= Len(name) /\ AgreeAt  BY <2>2
  <2>6. AgreeAt <=> x = name[n + 1] /\ Agree  BY <2>3
  <2> HIDE DEF Agree, AgreeAt
  <2>7. IsPrefix(at, name) <=> n < Len(name) /\ name[n + 1] = x /\ Agree  BY <2>4, <2>5, <2>6
  <2> QED  BY <2>7 DEF at, Agree
<1>4. \A i \in 1 .. Len(Components) : Components[i] \in STRING
  BY ComponentsAssumption, ElementOfSeq
<1> HIDE DEF n
<1>5. ASSUME Inside(path, name)
      PROVE  \E i \in 1 .. Len(Components) : IsPrefix(Append(path, Components[i]), name)
  <2>1. n + 1 \in 1 .. Len(name)  BY <1>1, <1>2, <1>5
  <2>2. name[n + 1] \in ToSet(name)  BY <1>1, <2>1, ToSetOfSeq
  <2>3. name[n + 1] \in ToSet(Components)  BY <2>2, ComponentsAssumption
  <2>4. PICK i \in 1 .. Len(Components) : Components[i] = name[n + 1]
    <3>1. ToSet(Components) = {Components[i] : i \in 1 .. Len(Components)}
      BY ComponentsAssumption, ToSetOfSeq
    <3> QED  BY <2>3, <3>1
  <2>5. IsPrefix(Append(path, Components[i]), name)  BY <1>2, <1>3, <1>4, <1>5, <2>4
  <2> QED  BY <2>5
<1>6. ASSUME NEW i \in 1 .. Len(Components), IsPrefix(Append(path, Components[i]), name)
      PROVE  Inside(path, name) /\ name[n + 1] = Components[i]
  BY <1>2, <1>3, <1>4, <1>6
<1> QED  BY <1>5, <1>6 DEF n

\* If the walk lists the changes inside each directory of a path, it lists those
\* inside the path.
LEMMA WalkListed ==
    ASSUME NEW m \in Nodes, WellFormed(m), NEW n \in Nodes, WellFormed(n),
           NEW path \in Seq(STRING), NEW f,
           \A i \in 1 .. Len(Components) : Append(path, Components[i]) \in m.dirs \cap n.dirs =>
             Lists(f[Append(path, Components[i])], m, n, InsideNames(Append(path, Components[i])))
    PROVE  Lists(Walk(m, n, path, f), m, n, InsideNames(path))
<1> DEFINE Sub(i) == Append(path, Components[i])
           k == Len(Components)
           lists == [i \in 1 .. k |-> StepAt(m, n, path, i, f)]
           Part(i) == {change \in Between(m, n) : change.name \in PathNames(Sub(i))}
<1>0. k \in Nat /\ \A i \in 1 .. k : Components[i] \in STRING
  BY ComponentsAssumption, ElementOfSeq, LenProperties
<1>1. ASSUME NEW i \in 1 .. k
      PROVE  Lists(lists[i], m, n, PathNames(Sub(i)))
  <2>1. Sub(i) \in Seq(STRING) /\ Sub(i) # <<>>  BY <1>0, AppendProperties
  <2>2. Sub(i) \in m.dirs \cap n.dirs => Lists(f[Sub(i)], m, n, InsideNames(Sub(i)))  OBVIOUS
  <2>3. lists[i] = EntryChanges(m, n, Sub(i), f[Sub(i)])  BY DEF StepAt
  <2> HIDE DEF Sub, lists
  <2> QED  BY <2>1, <2>2, <2>3, EntryListed
<1> HIDE DEF lists, Sub
<1>2. \A i \in 1 .. k : lists[i] \in Seq(RefChange) /\ Distinct(lists[i]) /\ ToSet(lists[i]) = Part(i)
  BY <1>1 DEF Lists
<1>3. \A change \in Between(m, n) : change.name \in RefNames /\ change.name \in Seq(STRING)
  BY BetweenFacts, LeavesFacts
<1>4. ASSUME NEW i \in 1 .. k, NEW j \in 1 .. k, i # j PROVE Part(i) \cap Part(j) = {}
  <2> SUFFICES ASSUME NEW change \in Part(i) \cap Part(j) PROVE FALSE  OBVIOUS
  <2>1. change.name \in RefNames  BY <1>3
  <2>2. IsPrefix(Sub(i), change.name) /\ IsPrefix(Sub(j), change.name)  BY DEF PathNames
  <2>3. Components[i] = Components[j]  BY <2>1, <2>2, ComponentsSplit DEF Sub
  <2> QED  BY <1>4, <2>3, ComponentsAssumption
<1>5. UNION {Part(i) : i \in 1 .. k} = {change \in Between(m, n) : change.name \in InsideNames(path)}
  <2>1. ASSUME NEW change \in Between(m, n)
        PROVE  (\E i \in 1 .. k : change.name \in PathNames(Sub(i))) <=> change.name \in InsideNames(path)
    <3>1. change.name \in RefNames /\ change.name \in Seq(STRING)  BY <1>3
    <3>2. Inside(path, change.name) <=> \E i \in 1 .. k : IsPrefix(Sub(i), change.name)
      BY <3>1, ComponentsSplit DEF Sub
    <3> QED  BY <3>1, <3>2 DEF PathNames, InsideNames
  <2> QED  BY <2>1
<1> HIDE DEF Part
<1>6. lists \in Seq(Seq(RefChange)) /\ Len(lists) = k
  <2>1. lists \in [1 .. k -> Seq(RefChange)]  BY <1>2 DEF lists
  <2> QED  BY <1>0, <2>1
<1>7. UNION {ToSet(lists[i]) : i \in 1 .. k} = UNION {Part(i) : i \in 1 .. k}  BY <1>2
<1> HIDE DEF k
<1>8. /\ FlattenSeq(lists) \in Seq(RefChange)
      /\ ToSet(FlattenSeq(lists)) = UNION {ToSet(lists[i]) : i \in 1 .. k}
      /\ Distinct(FlattenSeq(lists))
  <2>1. \A i, j \in 1 .. k : i # j => ToSet(lists[i]) \cap ToSet(lists[j]) = {}  BY <1>2, <1>4
  <2>2. \A i \in 1 .. k : Distinct(lists[i])  BY <1>2
  <2> QED  BY <1>6, <2>1, <2>2, FlattenFacts
<1>9. Walk(m, n, path, f) = FlattenSeq(lists)  BY DEF Walk, lists, k
<1> QED  BY <1>5, <1>7, <1>8, <1>9 DEF Lists

\* Two trees' list of changes is the difference of their refs, each once.
LEMMA DiffListsAll ==
    ASSUME NEW m \in Nodes, WellFormed(m), NEW n \in Nodes, WellFormed(n)
    PROVE  /\ DiffRefTrees(m, n) \in Seq(RefChange) /\ Distinct(DiffRefTrees(m, n))
           /\ ToSet(DiffRefTrees(m, n)) = Between(m, n)
<1>1. PICK f : /\ f = [path \in Paths(m, n) |-> Walk(m, n, path, f)]
               /\ DiffRefTrees(m, n) = f[<<>>]
  BY DiffIsWalk
<1>2. Paths(m, n) \subseteq Seq(STRING)  BY PathsBounded
<1>3. PICK max \in Nat : \A path \in Paths(m, n) : Len(path) <= max  BY PathsBounded
<1>4. \A path \in Paths(m, n) : Len(path) \in Nat /\ f[path] = Walk(m, n, path, f)
  BY <1>1, <1>2, LenProperties
<1> DEFINE Deep(k) == \A path \in Paths(m, n) : Len(path) + k > max => Lists(f[path], m, n, InsideNames(path))
           N == {k \in Nat : Deep(k)}
<1>5. 0 \in N
  <2>1. \A path \in Paths(m, n) : ~ (Len(path) + 0 > max)  BY <1>3, <1>4
  <2> QED  BY <2>1
<1>6. ASSUME NEW k \in N PROVE k + 1 \in N
  <2> SUFFICES ASSUME NEW path \in Paths(m, n), Len(path) + (k + 1) > max
               PROVE  Lists(f[path], m, n, InsideNames(path))
    OBVIOUS
  <2>0. Deep(k)  OBVIOUS
  <2>1. path \in Seq(STRING)  BY <1>2
  <2>2. ASSUME NEW i \in 1 .. Len(Components), Append(path, Components[i]) \in m.dirs \cap n.dirs
        PROVE  Lists(f[Append(path, Components[i])], m, n, InsideNames(Append(path, Components[i])))
    <3> DEFINE at == Append(path, Components[i])
    <3>1. Components[i] \in STRING  BY ComponentsAssumption, ElementOfSeq
    <3>2. Len(at) = Len(path) + 1  BY <2>1, <3>1, AppendProperties
    <3>3. at \in Paths(m, n)  BY <2>2 DEF Paths
    <3> HIDE DEF at
    <3>4. Len(at) + k > max  BY <1>4, <3>2
    <3>5. Lists(f[at], m, n, InsideNames(at))  BY <2>0, <3>3, <3>4
    <3> QED  BY <3>5 DEF at
  <2>3. Lists(Walk(m, n, path, f), m, n, InsideNames(path))  BY <2>1, <2>2, WalkListed
  <2> QED  BY <1>4, <2>3
<1>7. N \subseteq Nat  OBVIOUS
<1>8. Deep(max + 1)
  <2> HIDE DEF N
  <2>1. max + 1 \in N  BY <1>5, <1>6, <1>7, InductiveSet
  <2> QED  BY <2>1 DEF N
<1>9. Lists(f[<<>>], m, n, InsideNames(<<>>))
  <2>1. <<>> \in Paths(m, n) /\ Len(<<>>) + (max + 1) > max  BY DEF Paths
  <2> QED  BY <1>8, <2>1
<1>10. \A change \in Between(m, n) : change.name \in InsideNames(<<>>)
  <2> SUFFICES ASSUME NEW change \in Between(m, n) PROVE change.name \in InsideNames(<<>>)  OBVIOUS
  <2>1. change.name \in Seq(STRING) \ {<<>>}  BY BetweenFacts, LeavesFacts
  <2>2. <<>> \in Seq(STRING) /\ Len(<<>>) = 0  BY EmptySeq
  <2>3. Len(change.name) # 0 /\ Len(change.name) \in Nat  BY <2>1, EmptySeq, LenProperties
  <2> DEFINE root == <<>>
  <2>5. root \in Seq(STRING) /\ Len(root) = 0  BY <2>2
  <2> HIDE DEF root
  <2>6. Inside(root, change.name) <=>
          Len(root) < Len(change.name) /\ \A i \in 1 .. Len(root) : root[i] = change.name[i]
    BY <2>1, <2>5, InsideFacts
  <2>7. Inside(<<>>, change.name)  BY <2>3, <2>5, <2>6 DEF root
  <2> QED  BY <2>1, <2>7 DEF InsideNames
<1> QED  BY <1>1, <1>9, <1>10 DEF Lists

\* The changes that the log shows for a snapshot are its difference to its parent.
THEOREM ChangesAreExact == Spec => []ChangesExact
<1>1. ASSUME TypeOK, SnapshotsApplicable PROVE ChangesExact
  <2> SUFFICES ASSUME NEW i \in 2 .. Len(log)
               PROVE  /\ ToSet(RefChanges(i)) = Difference(log[i - 1].refs.leaves, log[i].refs.leaves)
                      /\ Len(RefChanges(i))
                           = Cardinality(Difference(log[i - 1].refs.leaves, log[i].refs.leaves))
    BY DEF ChangesExact
  <2> DEFINE m == log[i - 1].refs
             n == log[i].refs
  <2>1. i \in 1 .. Len(log) /\ i - 1 \in 1 .. Len(log)  BY <1>1 DEF TypeOK
  <2>2. log[i - 1] \in Commits /\ log[i] \in Commits  BY <1>1, <2>1 DEF TypeOK
  <2>3. m \in Nodes /\ n \in Nodes  BY <2>2 DEF Commits
  <2>4. WellFormed(m) /\ WellFormed(n)  BY <1>1, <2>1 DEF SnapshotsApplicable
  <2> HIDE DEF m, n
  <2>5. /\ DiffRefTrees(m, n) \in Seq(RefChange) /\ Distinct(DiffRefTrees(m, n))
        /\ ToSet(DiffRefTrees(m, n)) = Between(m, n)
    BY <2>3, <2>4, DiffListsAll
  <2>6. Len(DiffRefTrees(m, n)) = Cardinality(Between(m, n))  BY <2>5, DistinctCounts
  <2>7. RefChanges(i) = DiffRefTrees(m, n)  BY DEF RefChanges, m, n
  <2> QED  BY <2>5, <2>6, <2>7 DEF Between, m, n
<1>2. TypeOK /\ TreeInv => ChangesExact  BY <1>1 DEF TreeInv
<1> QED  BY <1>2, TypeInit, TypeStep, TreeInit, TreeStep, PTL DEF Spec
=============================================================================
