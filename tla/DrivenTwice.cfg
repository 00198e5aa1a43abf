SPECIFICATION Spec
CONSTANTS
    draft = draft
    approve = approve
    publish = publish
    t1 = t1
    t2 = t2
    t3 = t3
    Proc = {p1, p2, p3}
    NoProc = NoProc
    NoStep = NoStep
    NoTransition = NoTransition
    Graph <- Gate
    MaxSteps = 4
    MaxAwaits = 3
    Events = {"respond", "die", "resume"}
INVARIANTS NeverDoubleDriven
CHECK_DEADLOCK FALSE
