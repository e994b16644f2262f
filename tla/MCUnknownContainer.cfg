SPECIFICATION Spec
CONSTANTS
    Ids = {i1, i2}
    Containers = {c1, c2}
    Handlers = {h1, h2}
    NoRow = NoRow
    NoContainer = NoContainer
    MaxFaults = 0
    MaxRestarts = 0
INVARIANT
    NoUnknownContainer
CHECK_DEADLOCK FALSE
