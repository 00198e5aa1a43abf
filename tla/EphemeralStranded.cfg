SPECIFICATION FairSpec
CONSTANTS
    Workflow = {wf1, wf2}
    Call = {c1}
    Disposer = {d1}
    MaxActive = 1
    MaxFaults = 1
    Events = {"open"}
PROPERTIES ExpiredEnds
CHECK_DEADLOCK FALSE
