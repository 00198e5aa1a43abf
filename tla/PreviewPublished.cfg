SPECIFICATION PreviewSpec
CONSTANTS
    Step = {s1, s2}
    Start = s1
    Missing = Missing
    Ghost = Ghost
    NoTransition = NoTransition
    Workflows <- MCWorkflows
    MaxSteps = 5
INVARIANTS PublishedIsComplete PlainLoopsAreGuarded
CHECK_DEADLOCK FALSE
