SPECIFICATION Spec
CONSTANTS
    None = None
    Instances = {i1}
    MaxPolls = 2
    MaxEvents = 3
    Sizes <- MCSizes
    MaxSockets = 3
    MaxResizes = 3
    MaxDrops = 2
    MaxFiles = 2
    Dirs = {d}
    Previews = {f, g}
    MaxLoads = 2
    Projects = {p, q}
    Moving = {p}
    MaxLists = 2
    MaxSteps = 1
    Listed = {p, q, r}
    Stored = {p, q}
    Variables = {"v"}
    MaxRequests = 3
INVARIANTS
    SavesWhatWasFilled
CHECK_DEADLOCK FALSE
