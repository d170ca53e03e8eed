CONSTANTS
    Sessions = {s1}
    u1 = u1
    Users <- MCUsers
    Owner <- MCOwner
    Conns = {c1}
    Requests = {r1}
    Reaper = reaper
    Reconciler = reconciler
    Nobody = nobody
    MaxSessionsPerUser = 1
    GraceCycles = 2
    RequestOps = {"create", "disconnect"}
    Jobs = {"reap", "recover"}
    MaxCrashes = 1
    LateOps = {"terminate"}
\* Without requests the system may rest: every drawn id can be over.
CHECK_DEADLOCK FALSE
SPECIFICATION FairSpec
PROPERTIES TerminatingEnds UnattendedSessionsEnd
