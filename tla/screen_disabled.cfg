SPECIFICATION ScreenSpec
CONSTANTS
    Bundles = {b1, b2}
    PluginChannels = {p1}
    MaxChildren = 2
    MaxSubs = 2
INVARIANT DisabledBundlesAreSilent
