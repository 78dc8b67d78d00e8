SPECIFICATION Spec
CONSTANTS
    p1 = p1
    p2 = p2
    main = main
    topic = topic
    c1 = c1
    c2 = c2
    a = a
    b = b
    bx = bx
    one = one
    two = two
    Procs = {p1, p2}
    Branches = {main, topic}
    Commits = {c1, c2}
    Paths = {a, b, bx}
    Parents <- MCParents
    Contents = {one, two}
    Tree <- MCTree
    Absent = Absent
    Mine = Mine
    Configs = {0, 1}
    InitialHeads = {main, c2}
    InitialLog <- MCInitialLog
    UserCommands = {"transaction", "checkout", "worktree", "edit", "stage", "config", "prune"}
    MaxUser = 2
    MaxRestores = 2
    MaxFailures = 1
SYMMETRY Symmetry
INVARIANTS
    TypeOK
    AppliedIsTarget
PROPERTIES
    LocalWorkKept
    SafeTransaction
