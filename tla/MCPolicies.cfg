SPECIFICATION Spec
CONSTANTS
    p1 = p1  p2 = p2  p3 = p3
    n1 = n1  n2 = n2  n3 = n3  t1 = t1
    g1 = g1  g2 = g2
    u1 = u1
    r1 = r1  r2 = r2
    app = app  pdf = pdf  exe = exe  dotexe = dotexe
    sub = sub  site = site  com = com
    None = None
    Policies = {p1, p2, p3}
    KindOf <- MCKindOf
    Names = {n1, n2, n3, t1}
    Templates = {t1}
    Groups = {g1, g2}
    Users = {u1}
    Requests = {r1, r2}
    Rules <- MCRules
    Contents <- MCContents
    Files <- MCFiles
    Threshold = 3
    DefaultScreen <- MCDefaultScreen
    ChunkSizes = {1, 7, 30}
    Starts <- AllStarts
INVARIANTS
    PrecedenceHolds
    OnePublished
    ViolationsNoticed
    SessionFollowsPolicy
    FilterExact
\* A budget of requests is used up and a stream ends: nothing is left to do.
CHECK_DEADLOCK FALSE
