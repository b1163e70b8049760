SPECIFICATION MCSpec
CONSTANTS
    Bundles = {b1, b2, b3}
    PluginChannels = {p1}
    MaxChildren = 2
    MaxSubs = 2
    ThemeNames = {d, h1, h2, h3}
    Default = d
    NoTheme = NoTheme
    title = title
    text = text
    u1 = u1
    u2 = u2
    auth = auth
    db = db
    rotate = rotate
    Given <- MCGiven
    Cascading = {auth, rotate}
    Mounters = {t1, t2}
    Routes = {r1, r2}
    Instances = {i1, i2}
    NoInstance = NoInstance
    MaxChars <- MCMaxChars
    AllSlides <- MCSlides
    Contents <- MCContents
    People = {u1, u2}
SYMMETRY Symmetry
INVARIANTS WalkFindsCycles  FilterIsFaithful ThemesAreInOrder MountedAppsAreGuarded
