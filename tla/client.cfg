SPECIFICATION FairSpec
CONSTANTS
    Assets = {a1}
    MaxChanges = 2
    Faults <- AllFaults
INVARIANTS DiskIsKept ShownIsKept
PROPERTIES NeverGoesBack UpToDate SomethingPlays
