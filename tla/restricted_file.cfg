SPECIFICATION Spec
CONSTANTS
    i1 = i1
    i2 = i2
    i3 = i3
    p1 = p1
    p2 = p2
    Nil = nil
    Procs = {p1, p2}
    Inodes = {i1, i2, i3}
    Attempts = 1
    OldChunks = 2
    NewChunks = 1
SYMMETRY Twins
CHECK_DEADLOCK FALSE
INVARIANT Private
PROPERTIES RefusedUntouched ArrivesWhole DoneMeansDone
