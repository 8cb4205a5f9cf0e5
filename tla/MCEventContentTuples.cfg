SPECIFICATION SpecContent
CONSTANTS
    Workers = {w1}
    Requests = {r1}
    ClientIds = {c1}
    None = None
    Malformed = Malformed
    MaxEvents = 1
    Data <- TupleData
    Values <- MCValues
    Depth <- MCDepth
    Purposes = {Blank, p1}
    Blank = Blank
INVARIANT StoredIsCensored
CHECK_DEADLOCK FALSE
