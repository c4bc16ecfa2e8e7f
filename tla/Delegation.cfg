SPECIFICATION Spec
CONSTANTS
    u1 = u1
    u2 = u2
    u3 = u3
    q1 = q1
    q2 = q2
    write = write
    other = other
    admin = admin
    r1 = r1
    User <- ThreeUsers
    Request <- TwoRequests
    Role = {admin, r1}
    Permission = {write, other}
    AdminRole = admin
    SystemRole = {admin}
    UsersWrite = write
    RbacWrite = write
    SettingsWrite = write
    KeyScopes <- MCKeyScopes
    Nobody = Nobody
    NoRole = NoRole
SYMMETRY Symmetric
CONSTRAINT OneOfEach
INVARIANTS
    AnAdminRemains
PROPERTIES
    GainsAreHeld
    AdminsComeFromAdmins
