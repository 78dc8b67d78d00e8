SPECIFICATION Spec
CONSTANTS
    t1 = t1
    t2 = t2
    text = text
    Names <- MCNames
    Components <- MCComponents
    Targets = {t1, t2}
    Contents = {text}
    Absent = Absent
    InitialRefs <- MCInitialRefs
    MaxChanges = 3
    MaxSnapshots = 2
INVARIANTS
    TypeOK
    SnapshotsApplicable
    ConflictOnlyIfTorn
    NoSpuriousSnapshot
    ChangesExact
PROPERTIES
    SnapshotReadsBack
