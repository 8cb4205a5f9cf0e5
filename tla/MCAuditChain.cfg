CONSTANTS
    o1 = o1  o2 = o2
    c1 = c1  c2 = c2  c3 = c3
    Orgs = {o1, o2}
    Calls = {c1, c2, c3}
    Audiences <- MCAudiences
    NoOrg = NoOrg
    MaxClock = 1
    SuppliedStamps <- NoStamps
SPECIFICATION FairSpec
INVARIANTS TypeOK ChainVerifies HeadTracksTail NeverRefused TimeFollowsSequence
    LockedViewIsCurrent OnlyTailLossPasses AlterationFound
PROPERTIES ImplementsAuditLog EveryCallEnds
CHECK_DEADLOCK FALSE
