SPECIFICATION Spec
CONSTANTS
    Files = {"long", "short"}
    Dirs = {"d", "e"}
    Len <- MCLen
    MaxLen = 2
    End = "end"
    MaxName = 4
    Fails = TRUE
    Restarts = TRUE
INVARIANT CopyIsExact
