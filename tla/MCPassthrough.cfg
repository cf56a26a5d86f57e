SPECIFICATION Spec
CONSTANTS
    Threads = {t1, t2}
    Inos = {1, 2}
    OnLower = {1}
    MaxFh = 3
    Writing = TRUE
    BackingFails = TRUE
INVARIANT TypeOK
INVARIANT CountsOpens
INVARIANT SameBacking
PROPERTY Answered
CHECK_DEADLOCK FALSE
