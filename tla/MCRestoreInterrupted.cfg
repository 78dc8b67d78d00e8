SPECIFICATION Spec
CONSTANTS
    p1 = p1
    p2 = p2
    main = main
    topic = topic
    c1 = c1
    c2 = c2
    a = a
    b = b
    bx = bx
    one = one
    two = two
    Procs = {p1}
    Branches = {main, topic}
    Commits = {c1, c2}
    Paths = {a, b, bx}
    Parents <- MCParents
    Contents = {one, two}
    Tree <- MCTree
    Absent = Absent
    Mine = Mine
    Configs = {0, 1}
    InitialHeads = {main}
    InitialLog <- MCBranchesLog
    UserCommands = {}
    MaxUser = 3
    MaxRestores = 2
    MaxFailures = 1
INVARIANTS
    RestoredMeansRestored
