SPECIFICATION Spec
CONSTANTS
    Names = {a, b}
    LIno = {l1, l2}
    UIno = {u1, u2, u3}
    Numbers = {1, 2, 3, 4}
    MaxNodes = 3
    Uses <- SingleUses
SYMMETRY Symmetric
INVARIANT TypeOK
INVARIANT NumberMeansName
PROPERTY OnlyCalledChange
