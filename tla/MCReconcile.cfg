CONSTANTS
    Sessions = {s1}
    u1 = u1
    Users <- MCUsers
    Owner <- MCOwner
    Conns = {}
    Requests = {r1}
    Reaper = reaper
    Reconciler = reconciler
    Nobody = nobody
    MaxSessionsPerUser = 1
    GraceCycles = 2
    RequestOps = {"create", "kill", "isolate"}
    Jobs = {"reconcile"}
    MaxCrashes = 1
    LateOps = {"create", "start", "terminate"}
\* Without requests the system may rest: every drawn id can be over.
CHECK_DEADLOCK FALSE
SPECIFICATION FairSpec
INVARIANTS GraceSparesCreation LossIsReal
PROPERTIES OrphansAreRemoved LostSessionsFail
