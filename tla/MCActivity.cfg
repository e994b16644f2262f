SPECIFICATION ActivityFairSpec
CONSTANTS
    Probes = {q1, q2}
    NoReport = NoReport
    StaleAfter = 2
    ProbeInterval = 1
    MaxFaults = 1
    MaxRestarts = 1
PROPERTIES
    QuestionStands
    StaysForgotten
    RunningEnds
    Relearned
CHECK_DEADLOCK FALSE
