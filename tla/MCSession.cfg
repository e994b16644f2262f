SPECIFICATION FairSpec
CONSTANTS
    Addresses = {here, there}
    Home = here
    Slots = {s1, s2}
    Idle = Idle
    Ttl = 3
    MaxFailures = 2
    Window = 1
    MaxTracked = 1
    MaxFaults = 1
INVARIANTS
    LogoutSticks
PROPERTIES
    BrakeHolds
    KeptIn
    EndsAtTheForm
CHECK_DEADLOCK FALSE
