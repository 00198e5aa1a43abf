SPECIFICATION Spec
CONSTANTS
    Delivery = {d1, d2}
    Call = {c1, c2}
    Workflow = {wf1, wf2}
    Limit = 1
    MaxFaults = 1
    Events = {"toggle"}
SYMMETRY Symmetry
INVARIANTS TypeOK OneHandler
PROPERTY OutcomeIsFinal
CHECK_DEADLOCK FALSE
