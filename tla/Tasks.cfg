SPECIFICATION FairSpec
CONSTANTS
    Runner = {r1}
    Driver = {d1}
    NoProc = NoProc
    MaxTasks = 2
    MaxGates = 2
    MaxFaults = 1
    Events = {"slow"}
INVARIANT NeverReDriven
PROPERTIES OutcomeIsFinal Driven EndsOrParks
CHECK_DEADLOCK FALSE
