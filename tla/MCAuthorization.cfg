CONSTANTS
    m1 = m1
    m2 = m2
    administrator = administrator
    analyst = analyst
    u1 = u1
    u3 = u3
    Memberships = {m1, m2}
    Roles = {administrator, analyst, auditor}
    GlobalRoles = {administrator}
    Units = {u1, u2, u3}
    OwnUnits = {u1, u3}
    SensitiveUnits = {u3}
    Admins = {a1, a2}
    InitialScopes <- TwoRoles
    Clients = {k1}
    PasswordChangers = {k1}
    MaxPassword = 1
    None = None
SPECIFICATION Spec
SYMMETRY Symmetry
INVARIANTS TypeOK LoginsMatchScope DeadlocksChangeRoles
PROPERTIES StaleStaysStale DecisionIsExact NarrowerScopeNarrowsAccess SensitiveByGrantOnly GrantBumpsAreReal
CHECK_DEADLOCK FALSE
