SPECIFICATION Spec
CONSTANTS
    draft = draft
    approve = approve
    publish = publish
    t1 = t1
    t2 = t2
    t3 = t3
    Proc = {p1, p2}
    NoProc = NoProc
    NoStep = NoStep
    NoTransition = NoTransition
    Graph <- Escalate
    MaxSteps = 3
    MaxAwaits = 2
    Events = {"respond", "deadline", "cancel", "resume", "replicas", "noHolder", "stall", "die"}
SYMMETRY Symmetry
INVARIANTS TypeOK RunningHasStep LogIsGapless OwnerAtFrontier NoAwaitAppliedTwice
CHECK_DEADLOCK FALSE
