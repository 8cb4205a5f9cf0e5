CONSTANTS
    u1 = u1  u2 = u2
    d1 = d1  d2 = d2  k1 = k1
    Users = {u1, u2}
    Devices = {d1, d2}
    Codes = {k1}
    Owner <- MCOwner
    Resets = {x1, x2}
    Head = Head
    None = None
    MaxChanges = 1
    MaxTouches = 2
SPECIFICATION FairSpec
INVARIANTS TypeOK ResetIsWhole DeadlocksInOneDelete
PROPERTIES LeavesOnlyNew AuthorityOrStale ResetsEnd
CHECK_DEADLOCK FALSE
