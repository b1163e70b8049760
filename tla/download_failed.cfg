SPECIFICATION FairSpec
CONSTANTS
    Assets = {a1}
    Readers = {r1}
    MayFail = TRUE
    MaxRestarts = 0
PROPERTY FailureSettles
