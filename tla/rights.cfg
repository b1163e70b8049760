SPECIFICATION Spec
CONSTANTS
    None = None
    Users = {u1, u2}
    Channels = {c1}
    Threads = {t1, t2}
    MaxDiff = 1
SYMMETRY Symmetry
INVARIANTS SuperAdministratorRemains
PROPERTIES AdministratorsAreKept
CHECK_DEADLOCK FALSE
