CONSTANTS
    Sessions = {s1}
    u1 = u1
    Users <- MCUsers
    Owner <- MCOwner
    Conns = {c1, c2}
    Requests = {r1}
    Reaper = reaper
    Reconciler = reconciler
    Nobody = nobody
    MaxSessionsPerUser = 1
    GraceCycles = 2
    RequestOps = {"create", "disconnect", "kill"}
    Jobs = {"reap"}
    MaxCrashes = 1
    LateOps = {}
\* Without requests the system may rest: every drawn id can be over.
CHECK_DEADLOCK FALSE
SPECIFICATION Spec
SYMMETRY ConnSymmetry
INVARIANTS StampHasItsConnection RegisteredIsOpen
