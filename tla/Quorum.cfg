SPECIFICATION Spec
CONSTANTS
    Person = {ann, bob}
    Call = {c1, c2}
    Source = {local, directory}
    Events = {"move", "outage", "deadline"}
    MaxMoves = 2
SYMMETRY Symmetry
INVARIANTS DecidedByTheHolders NotSkippedWhileHeld LastAnswerCloses
PROPERTY AuditIsFrozen
CHECK_DEADLOCK FALSE
