SPECIFICATION Spec
CONSTANTS
    Bundles = {b1, b2}
    PluginChannels = {p1}
    Threads = {t1, t2}
    NoChange = NoChange
    MaxDiff = 2
SYMMETRY Symmetry
INVARIANTS DiffIsApplied
PROPERTIES StoreIsAtomic
