SPECIFICATION Spec
CONSTANTS
    Threads = {t1, t2}
    Inos = {1, 2}
    OnLower = {1}
    MaxFh = 3
    Writing = TRUE
    BackingFails = FALSE
INVARIANT WritesGoUp
CHECK_DEADLOCK FALSE
