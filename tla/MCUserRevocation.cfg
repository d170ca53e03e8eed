CONSTANTS
    Sessions = {s1, s2}
    u1 = u1
    Users <- MCUsers
    Owner <- MCOwner
    Conns = {}
    r1 = r1
    b1 = b1
    b2 = b2
    Requests <- MCRequests
    Reaper = reaper
    Reconciler = reconciler
    Nobody = nobody
    MaxSessionsPerUser = 2
    GraceCycles = 1
    Batches <- MCBatches
    Uses <- MCUses
    RivalOps = {"kill"}
    Isolated = {s2}
    LateOps = {}
\* With every session over, nothing needs to happen.
CHECK_DEADLOCK FALSE
SPECIFICATION FairSpec
INVARIANT RevokedHasNoSandbox
PROPERTIES RevocationsEnd NoGhostRows
