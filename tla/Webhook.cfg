SPECIFICATION FairSpec
CONSTANTS
    Call = {c1, c2, c3}
    Outcomes = {"completed", "failed"}
    MaxAttempts = 3
    MaxCrashes = 1
    Events = {"twice", "toggle", "vault", "blip"}
INVARIANTS OneAttemptAtATime PostsBounded
PROPERTIES SettledIsFinal EndIsReported
CHECK_DEADLOCK FALSE
