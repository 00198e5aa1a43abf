SPECIFICATION FairSpec
CONSTANTS
    Runner = {r1}
    Driver = {d1}
    NoProc = NoProc
    MaxTasks = 2
    MaxGates = 2
    MaxFaults = 1
    Events = {"busy"}
PROPERTIES Driven
CHECK_DEADLOCK FALSE
