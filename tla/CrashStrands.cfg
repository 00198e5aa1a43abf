SPECIFICATION Spec
CONSTANTS
    draft = draft
    approve = approve
    publish = publish
    t1 = t1
    t2 = t2
    t3 = t3
    Proc = {p1, p2}
    NoProc = NoProc
    NoStep = NoStep
    NoTransition = NoTransition
    Graph <- Escalate
    MaxSteps = 4
    MaxAwaits = 2
    Events = {"deadline", "die", "resume"}
INVARIANTS WaitingIsWakeable
CHECK_DEADLOCK FALSE
