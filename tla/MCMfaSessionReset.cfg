CONSTANTS
    Requests = {q1, q2}
    Browsers = {b1}
    Kinds = {"login", "verify"}
    First = First
    MaxAttempts = 2
    MaxVersion = 2
    None = None
SPECIFICATION Spec
INVARIANT ResetIsFinal
SYMMETRY Symmetry
CHECK_DEADLOCK FALSE
