SPECIFICATION Spec
CONSTANTS
    Step = {s1, s2, s3}
    Missing = Missing
    NoTransition = NoTransition
    Graphs <- MCGraphs
INVARIANT AnswerIsRight
PROPERTY Terminates
CHECK_DEADLOCK FALSE
