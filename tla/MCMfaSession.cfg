CONSTANTS
    Requests = {q1, q2, q3}
    Browsers = {b1}
    Kinds = {"login", "verify", "start", "confirm", "logout", "visit"}
    First = First
    MaxAttempts = 2
    MaxVersion = 3
    None = None
SPECIFICATION Spec
INVARIANTS TypeOK VerifiedIsCurrent SkippedIsUnprivileged LoggedOutStaysOut RecordedFirst
PROPERTY LoginTakesNewRow
SYMMETRY Symmetry
CHECK_DEADLOCK FALSE
