SPECIFICATION Spec
CONSTANTS
    None = None
    Threads = {t1, t2}
    Contents = {o1, o2, o3}
    Validity = 1
    MaxTime = 3
    MaxChanges = 1
SYMMETRY Symmetry
INVARIANTS StalenessIsBounded InvalidationHolds
