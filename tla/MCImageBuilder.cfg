SPECIFICATION FairSpec
CONSTANTS
    Projects = {p1, p2}
    Blocks = {b1, b2}
    NoProject = NoProject
    NoImage = NoImage
    MaxEdits = 3
    MaxFaults = 2
    MaxRestarts = 1
    MaxRows = 1
INVARIANTS
    StatusAgrees
    InstanceHasImage
    OutdatedIsQueued
PROPERTIES
    BuildsSettle
CHECK_DEADLOCK FALSE
