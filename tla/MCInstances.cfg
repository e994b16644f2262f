SPECIFICATION Spec
CONSTANTS
    Ids = {i1, i2}
    Containers = {c1, c2}
    Handlers = {h1}
    NoRow = NoRow
    NoContainer = NoContainer
    MaxFaults = 2
    MaxRestarts = 1
SYMMETRY Symmetry
INVARIANTS
    OwnContainer
    RowOutlivesContainer
    FailedCreateLeavesNothing
    ReconcileRestores
PROPERTIES
    ImplementsLife
CHECK_DEADLOCK FALSE
