SPECIFICATION ActivitySpec
CONSTANTS
    Probes = {q1}
    NoReport = NoReport
    StaleAfter = 2
    ProbeInterval = 1
    MaxFaults = 0
    MaxRestarts = 0
PROPERTIES
    PaneKeepsQuestions
CHECK_DEADLOCK FALSE
