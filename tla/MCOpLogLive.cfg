SPECIFICATION FairSpec
CONSTANTS
    main = main
    topic = topic
    p1 = p1
    p2 = p2
    Procs = {p1, p2}
    Refs = {main}
    Files <- MCFiles
    Values = {0, 1}
    InitialRepo <- MCInitialRepo
    InitialHeads = {"branch"}
    MaxAppendAttempts = 4
    Commands = {"transaction", "other", "edit", "explicit", "snap", "install"}
    MaxCommands = 3
    MaxFailures = 0
PROPERTIES
    EventuallyRecorded
