SPECIFICATION Spec
CONSTANTS
    Person = {ann, bob}
    Call = {c1, c2}
    Source = {local, directory}
    Events = {"outage", "again", "deadline"}
    MaxMoves = 0
SYMMETRY Symmetry
INVARIANT LastAnswerCloses
PROPERTY AuditIsFrozen
CHECK_DEADLOCK FALSE
