CONSTANTS
    m1 = m1
    m2 = m2
    administrator = administrator
    analyst = analyst
    u1 = u1
    u3 = u3
    Memberships = {m1, m2}
    Roles = {administrator, analyst, auditor}
    GlobalRoles = {administrator}
    Units = {u1}
    OwnUnits = {u1}
    SensitiveUnits = {}
    Admins = {a1, a2}
    InitialScopes <- AnyScope
    Clients = {}
    PasswordChangers = {}
    MaxPassword = 0
    None = None
SPECIFICATION FairSpec
PROPERTY CallsEnd
CHECK_DEADLOCK FALSE
