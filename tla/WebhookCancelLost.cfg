SPECIFICATION FairSpec
CONSTANTS
    Call = {c1, c2}
    Outcomes = {"cancelled"}
    MaxAttempts = 3
    MaxCrashes = 1
    Events = {}
PROPERTY EndIsReported
CHECK_DEADLOCK FALSE
