SPECIFICATION FairSpec
CONSTANTS
    draft = draft
    approve = approve
    publish = publish
    t1 = t1
    t2 = t2
    t3 = t3
    Proc = {p1, p2}
    NoProc = NoProc
    NoStep = NoStep
    NoTransition = NoTransition
    Graph <- Consent
    MaxSteps = 5
    MaxAwaits = 3
    Events = {"respond", "deadline", "cancel", "resume", "replicas", "noHolder"}
INVARIANTS OneOutcome NeverDoubleDriven WaitingIsWakeable OpenAwaitIsCurrent
PROPERTIES RunEnds CancelHonoured
CHECK_DEADLOCK FALSE
