SPECIFICATION Spec
CONSTANTS
    Ratios = {0, 2, 3}
    OverlapRatio = 2
    Window = 2
    Context = 4
    Token = {a, b}
    a = a
    b = b
    Blank = Blank
    MaxPositions = 3
    MaxBatch = 3
    Beyond = 4
    Junk = Junk
INVARIANTS ContextIsOfText WindowIsRecent NothingForgotten ExitOnlyPastContext
SYMMETRY TokenSymmetry
CHECK_DEADLOCK FALSE
