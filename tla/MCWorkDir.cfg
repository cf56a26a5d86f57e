SPECIFICATION Spec
CONSTANTS
    Files = {"long", "short"}
    Dirs = {"d"}
    Len <- MCLen
    MaxLen = 2
    End = "end"
    MaxName = 3
    Fails = TRUE
    Restarts = TRUE
INVARIANT TypeOK
INVARIANT NeverTruncated
INVARIANT SessionExact
INVARIANT NameIsFresh
