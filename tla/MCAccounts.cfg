SPECIFICATION Spec
CONSTANTS
    u1 = u1
    u2 = u2
    u3 = u3
    c1 = c1
    c2 = c2
    Users = {u1, u2, u3}
    Roles = {"admin", "developer"}
    Admin = "admin"
    Clients = {c1, c2}
    ACCESS = 2
    REFRESH = 3
SYMMETRY Symmetry
INVARIANTS
    SessionsAreSound
    AdminRemains
