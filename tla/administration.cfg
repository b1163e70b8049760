SPECIFICATION MCSpec
CONSTANTS
    None = None
    Gone = Gone
    n1 = n1
    n2 = n2
    hall = hall
    lab = lab
    s1 = s1
    s2 = s2
    k1 = k1
    k2 = k2
    m1 = m1
    public = public
    restricted = restricted
    Buildings = {hall, lab}
    Screens = {s1, s2}
    Channels = {k1, k2}
    Names = {n1, n2}
    Macs = {m1}
    Rights = {public, restricted}
    Threads = {t1, t2}
    Initial <- MCInitial
    Forms <- MCForms
    PluginNames = {a1, a2}
    ChannelIds = {c1}
    Workers = {t1, t2}
    NoPlugin = NoPlugin
    Accounts = {a1, a2}
    Nobody = Nobody
    Tabs = {t1, t2}
    Feedbacks = {f1}
    MaxLevel = 1
    Users = {a1, a2}
    NoUser = NoUser
    Hashes = {h1, h2}
    WaitDelay = 1
    Interval = 2
    Outcomes = {"sent", "refused", "raises"}
SYMMETRY Symmetry
INVARIANTS SavedAsAnswered RoutesFollowPlugins SessionIsOfWhoSignedIn FeedbacksAreOfTheLastRequest
PROPERTIES LinkIsUsedOnce ImplementsMailer
CHECK_DEADLOCK FALSE
