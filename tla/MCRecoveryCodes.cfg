CONSTANTS
    Consumers = {c1, c2}
    Replacers = {p1}
    Resetters = {x1}
    Count = 2
    Enrolment = Enrolment
    Wrong = Wrong
    None = None
SPECIFICATION FairSpec
INVARIANTS TypeOK SingleUse FoundStaysUnused
PROPERTIES ImplementsCodeBook CallsEnd
CHECK_DEADLOCK FALSE
