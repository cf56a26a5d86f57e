CONSTANTS
    Inos = {0, 2}
    Devs = {0, 1}
    SameDevice = FALSE
    Mix <- MCMix
    MaxIno = 5
    FallbackBase = 5
    Path = {p}
    MaxNodes = 3
    MaxLookups = 1
    PartialForget = TRUE
    Readdirplus = TRUE
    StaleListing = TRUE
SPECIFICATION Spec
INVARIANT ReverseMapExact
