SPECIFICATION FairSpec
CONSTANTS
    MaxFrames = 3
    Controls = {2}
    MaxChunks = 3
INVARIANTS
    NoKeyIsLost
    SeenToTheEnd
PROPERTIES
    ExecEnds
    ConsoleKeepsUp
CHECK_DEADLOCK FALSE
