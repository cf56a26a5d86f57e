SPECIFICATION Spec
CONSTANTS
    Width = 3
    Bits = {"r", "w"}
    Words = {"user.", "a", "capability", "long", "name", "opaque"}
    Setups <- AllSetups
INVARIANT TypeOK
INVARIANT ChangeIsShown
INVARIANT MarksAreOurs
INVARIANT ListMatchesGet
PROPERTY OthersKept
PROPERTY XattrsKept
