SPECIFICATION Spec
CONSTANTS
    main = main
    topic = topic
    p1 = p1
    p2 = p2
    Procs = {p1, p2}
    Refs = {main}
    Files <- MCFiles
    Values = {0, 1}
    InitialRepo <- MCInitialRepo
    InitialHeads = {"branch", "placeholder"}
    MaxAppendAttempts = 2
    Commands = {"transaction", "other", "head", "delete", "edit", "explicit", "snap", "install", "uninstall"}
    MaxCommands = 4
    MaxFailures = 1
SYMMETRY Symmetry
INVARIANTS
    TypeOK
    LogLinked
    RecordedIsCurrent
    LostRaceOnlyUnderContention
PROPERTIES
    AbstractSpec
