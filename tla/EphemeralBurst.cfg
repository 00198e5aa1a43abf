SPECIFICATION Spec
CONSTANTS
    Workflow = {wf1, wf2, wf3}
    Call = {c1, c2}
    Disposer = {d1}
    MaxActive = 1
    MaxFaults = 1
    Events = {}
SYMMETRY Symmetry
INVARIANTS TypeOK LeftAlone QuotaWithinBurst
CHECK_DEADLOCK FALSE
