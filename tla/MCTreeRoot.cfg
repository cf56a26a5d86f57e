SPECIFICATION Spec
CONSTANTS
    Names = {"a", "b"}
    SubNames = {"x"}
    NL = 2
    Content = {"low1", "low2", "new"}
    Setups <- RootSetups
INVARIANT RemovedIsGone
