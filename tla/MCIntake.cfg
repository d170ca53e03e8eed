CONSTANTS
    s1 = s1
    s2 = s2
    d1 = d1
    d2 = d2
    d3 = d3
    c1 = c1
    c2 = c2
    u1 = u1
    u2 = u2
    Sessions = {s1, s2}
    Items = {d1, d2, d3}
    Home <- MCHome
    Contents = {c1, c2}
    Content <- MCOther
    Oversized = {c2}
    Infected = {c1}
    Files = {f1, f2, f3}
    Nothing = nothing
    MaxAge = 0
    Reviewers = {r1}
    IncidentUpdates = {}
    Users = {u1, u2}
    Owner <- MCOwner
    Tokens = {t1}
    Gets = {g1, g2}
    MayEnd = {s1}
    MaxCrashes = 1
\* With nothing left to download, review or expire, the system rests.
CHECK_DEADLOCK FALSE
SPECIFICATION Spec
SYMMETRY FileSymmetry
INVARIANTS OneRowPerContent ReleasedWasCleared TokenServesOnce
