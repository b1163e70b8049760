SPECIFICATION FairSpec
CONSTANTS
    Users = {u1}
    NoUser = NoUser
    Hashes = {h1, h2}
    WaitDelay = 1
    Interval = 2
    Outcomes = {"raises"}
PROPERTY AllAreMailed
