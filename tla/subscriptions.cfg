SPECIFICATION MCSpec
CONSTANTS
    None = None
    root = root
    u1 = u1
    s1 = s1
    c1 = c1
    b1 = b1
    Screens = {s1}
    Channels = {c1, b1}
    Bundles = {b1}
    Users = {root, u1}
    Admins = {root}
    SuperAdmins = {root}
    HasAdmin <- MCHasAdmin
    Threads = {t1, t2}
    Forms <- MCForms
    Edited = {c1}
    size = size
    title = title
    short = short
    long = long
    Order <- MCOrder
    Default <- MCDefault
    Unset = Unset
    Ignored = Ignored
    Unparsable = Unparsable
    Editors = {t1, t2}
    Requesters = {"channel_administrator", "super_administrator"}
    ConfigForms <- MCConfigForms
    RightsForms <- MCRightsForms
SYMMETRY Symmetry
INVARIANTS SubscribesByRight AnswerIsTrue ConfigIsAsAnswered
PROPERTIES OwnsOnceUnlessRace ParametersAreWrittenByRight
CHECK_DEADLOCK FALSE
