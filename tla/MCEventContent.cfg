SPECIFICATION SpecContent
CONSTANTS
    Workers = {w1, w2}
    Requests = {r1, r2}
    ClientIds = {c1}
    None = None
    Malformed = Malformed
    MaxEvents = 2
    Data <- JsonData
    Values <- MCValues
    Depth <- MCDepth
    Purposes = {Blank, p1}
    Blank = Blank
INVARIANTS
    TypeOK
    EventsFollowRequest
    TracesApart
    StoredIsCensored
CHECK_DEADLOCK FALSE
