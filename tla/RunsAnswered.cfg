SPECIFICATION Spec
CONSTANTS
    draft = draft
    approve = approve
    publish = publish
    t1 = t1
    t2 = t2
    t3 = t3
    Proc = {p1, p2, p3}
    NoProc = NoProc
    NoStep = NoStep
    NoTransition = NoTransition
    Graph <- Revise
    MaxSteps = 7
    MaxAwaits = 5
    Events = {"respond", "deadline", "noHolder", "die"}
SYMMETRY Symmetry
INVARIANT ResultsKept
PROPERTIES IsALedger
CHECK_DEADLOCK FALSE
