SPECIFICATION Spec
CONSTANTS
    Names = {"a", "b"}
    SubNames = {"x"}
    NL = 2
    Content = {"low1", "low2", "new"}
    Setups <- FaultSetups
INVARIANT CacheIsTrue
INVARIANT AbsenceIsTrue
PROPERTY AllOrNothing
PROPERTY OnlyNamedChange
PROPERTY RenameKeepsSource
