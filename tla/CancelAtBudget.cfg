SPECIFICATION FairSpec
CONSTANTS
    draft = draft
    approve = approve
    publish = publish
    t1 = t1
    t2 = t2
    t3 = t3
    Proc = {p1, p2, p3}
    NoProc = NoProc
    NoStep = NoStep
    NoTransition = NoTransition
    Graph <- Redraft
    MaxSteps = 3
    MaxAwaits = 1
    Events = {"cancel", "resume"}
PROPERTIES CancelHonoured
CHECK_DEADLOCK FALSE
