SPECIFICATION Spec
CONSTANTS
    Runner = {r1}
    Driver = {d1, d2}
    NoProc = NoProc
    MaxTasks = 2
    MaxGates = 2
    MaxFaults = 1
    Events = {"slow"}
SYMMETRY Symmetry
INVARIANTS TypeOK ExecutedAlone LastAnswerSeen
CHECK_DEADLOCK FALSE
