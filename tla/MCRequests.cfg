CONSTANTS
    Sessions = {s1}
    u1 = u1
    Users <- MCUsers
    Owner <- MCOwner
    Conns = {}
    Requests = {r1, r2}
    Reaper = reaper
    Reconciler = reconciler
    Nobody = nobody
    MaxSessionsPerUser = 1
    GraceCycles = 2
    RequestOps = {"create", "end", "kill", "isolate", "restore"}
    Jobs = {"recover"}
    MaxCrashes = 1
    LateOps = {"create", "start", "isolate", "terminate"}
\* Without requests the system may rest: every drawn id can be over.
CHECK_DEADLOCK FALSE
SPECIFICATION Spec
SYMMETRY RequestSymmetry
INVARIANTS TerminatedIsNotRunning TransientNeverCommitted IsolationHolds
PROPERTY SandboxRunsOnce
