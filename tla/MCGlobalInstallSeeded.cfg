SPECIFICATION GlobalSpec
CONSTANTS
    p1 = p1
    p2 = p2
    Procs = {p1, p2}
    Dirs = {"templates", "configured"}
    LocalDirs = {"configured"}
    Default = "templates"
    UserTemplate = "configured"
    StockFiles = {"description", "exclude"}
    UserFiles = {"mine"}
    UserLines = {"lint"}
    MixedLines = {}
    MaxCommands = 3
    MaxEdits = 0
    MaxIncludes = 0
    MaxFailures = 0
SYMMETRY Symmetry
INVARIANTS
    ClaimAlwaysSeeded
