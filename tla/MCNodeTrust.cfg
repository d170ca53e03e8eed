CONSTANTS
    d = d
    g = g
    r1 = r1
    t1 = t1
    r2 = r2
    x1 = x1
    x2 = x2
    x3 = x3
    Nodes = {d, g}
    Default = d
    Requests = {r1, r2}
    Sessions = {x1, x2, x3}
    Tokens = {t1, t2}
    None = none
    RecoveryPolls = 2
    Starts <- Fleets
\* Without the poller the fleet rests once every session of the bound is over.
CHECK_DEADLOCK FALSE
SPECIFICATION Spec
INVARIANTS TerminatedIsGone CapacityOvershoot EnrolledOnce
PROPERTIES HoldKept RiseSustained ComesOnline ShownOffline
