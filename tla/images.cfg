SPECIFICATION MCSpec
CONSTANTS
    Threads = {t1, t2, t3}
    Names = {n1}
    Exts = {png}
    Failures = {"caught", "uncaught"}
    MaxLocks = 3
    Assets = {a1, a2}
    Readers = {r1}
    MayFail = TRUE
    MaxRestarts = 1
INVARIANTS FirstBurstIsSerial NoLockForgotten InFlightIsAccounted LinksAreServed
PROPERTIES ReturnsUnlessCrowded DownloadedIsSettled PageIsAnswered
CHECK_DEADLOCK FALSE
