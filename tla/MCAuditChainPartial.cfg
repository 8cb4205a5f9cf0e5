CONSTANTS
    o1 = o1  o2 = o2
    c1 = c1  c2 = c2  c3 = c3
    Orgs = {o1, o2}
    Calls = {c1, c2}
    Audiences <- BothLogins
    NoOrg = NoOrg
    MaxClock = 0
    SuppliedStamps <- NoStamps
SPECIFICATION Spec
INVARIANT RecordedInAllOrNone
CHECK_DEADLOCK FALSE
