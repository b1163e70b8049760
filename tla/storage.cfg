SPECIFICATION FairSpec
CONSTANTS
    Assets = {a1, a2}
    Codes = {n1}
    NoName = NoName
    Requests = {r1, r2}
    NoAsset = NoAsset
    Jobs = {j1, j2, j3}
    Paths = {p1, p2}
    Output <- MCOutput
    NoJob = NoJob
    j1 = j1
    j2 = j2
    j3 = j3
    p1 = p1
    p2 = p2
INVARIANTS LinkedFilesStay SuccessIsWhole
PROPERTIES TwinsGo JobsAreAnswered
CHECK_DEADLOCK FALSE
