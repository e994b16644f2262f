SPECIFICATION Spec
CONSTANTS
    Models = {m1}
    Efforts = {e1}
    Null = Null
    Keep = Keep
    NoFile = NoFile
    Garbled = Garbled
    Patches = {p1, p2}
    MaxPatches = 3
    MaxFaults = 1
    MaxOutside = 1
SYMMETRY MCSymmetry
INVARIANTS
    RowWasTold
    NextStartAgrees
    SessionAgrees
CHECK_DEADLOCK FALSE
