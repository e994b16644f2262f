SPECIFICATION Spec
CONSTANTS
    Handlers = {h1, h2, h3}
    MaxBeside = 0
    RawNames <- MCRawNames
    Legal = {"a", "_"}
    MaxName = 4
    MaxExtension = 2
    MaxFile = 1
    MaxInstance = 1
    MaxRead = 1
    MaxListing = 1
    Block = 2
    MaxSize = 2
    MaxChunk = 2
SYMMETRY Symmetry
INVARIANTS
    OverrunIsParallel
    NamesAreUsable
    ListingIsTrue
    ReadIsExact
CHECK_DEADLOCK FALSE
