SPECIFICATION GlobalSpec
CONSTANTS
    p1 = p1
    p2 = p2
    Procs = {p1, p2}
    Dirs = {"templates", "configured"}
    LocalDirs = {"configured"}
    Default = "templates"
    UserTemplate = "configured"
    StockFiles = {"description", "exclude"}
    UserFiles = {"mine"}
    UserLines = {"lint"}
    MixedLines = {"lint && git-op"}
    MaxCommands = 3
    MaxEdits = 1
    MaxIncludes = 2
    MaxFailures = 1
SYMMETRY Symmetry
INVARIANTS
    TypeOK
    YoursKept
    InstallAttemptsAll
    UninstallRemovesAll
    GlobalTypeOK
    NoDanglingInclude
    ClaimOutlivesHooks
    InstallTakesEffect
    UninstallLeavesNothing
    ClaimSeeded
PROPERTIES
    UserFilesKept
