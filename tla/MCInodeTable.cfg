CONSTANTS
    Inos = {0, 2}
    Devs = {0}
    SameDevice = TRUE
    Mix <- MCMix
    MaxIno = 4
    FallbackBase = 4
    Path = {p, q}
    MaxNodes = 3
    MaxLookups = 2
    PartialForget = FALSE
    Readdirplus = TRUE
    StaleListing = FALSE
SPECIFICATION Spec
INVARIANTS
    TypeOK
    ReverseMapExact
    HeldIsMapped
    CountCoversKernel
PROPERTY HeldNeverReassigned
