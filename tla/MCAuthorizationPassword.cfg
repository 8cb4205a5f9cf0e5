CONSTANTS
    m1 = m1
    m2 = m2
    administrator = administrator
    analyst = analyst
    u1 = u1
    u3 = u3
    Memberships = {m1}
    Roles = {administrator, analyst}
    GlobalRoles = {administrator}
    Units = {u1}
    OwnUnits = {u1}
    SensitiveUnits = {u1}
    Admins = {a1}
    InitialScopes <- AnyScope
    Clients = {k1}
    PasswordChangers = {k1}
    MaxPassword = 1
    None = None
SPECIFICATION Spec
INVARIANT SessionsMatchScope
CHECK_DEADLOCK FALSE
