SPECIFICATION FairSpec
CONSTANTS
    Delivery = {d1, d2}
    Call = {c1, c2}
    Workflow = {wf1, wf2}
    Limit = 1
    MaxFaults = 1
    Events = {"toggle"}
INVARIANTS StartedOnce RateIsBounded
PROPERTY PostedIsHandled
CHECK_DEADLOCK FALSE
