CONSTANTS
    Requests = {q1, q2, q3, q4}
    Browsers = {b1}
    Kinds = {"login", "verify"}
    First = First
    MaxAttempts = 2
    MaxVersion = 1
    None = None
SPECIFICATION Spec
INVARIANT AttemptsBounded
SYMMETRY Symmetry
CHECK_DEADLOCK FALSE
