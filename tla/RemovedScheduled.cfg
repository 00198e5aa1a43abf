SPECIFICATION Spec
CONSTANTS
    Worker = {w1, w2}
    Call = {c1, c2}
    Due = {1}
    MaxMinutes = 2
    MaxRequests = 3
    MaxRuns = 2
    Events = {"delete"}
SYMMETRY Symmetry
INVARIANT RemovedIsUnscheduled
CHECK_DEADLOCK FALSE
