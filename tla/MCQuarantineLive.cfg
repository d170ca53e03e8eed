CONSTANTS
    s1 = s1
    s2 = s2
    d1 = d1
    d2 = d2
    d3 = d3
    c1 = c1
    c2 = c2
    u1 = u1
    u2 = u2
    Sessions = {s1}
    Items = {d1}
    Home <- MCHome
    Contents = {c1, c2}
    Content <- MCSame
    Oversized = {}
    Infected = {c1}
    Files = {f1}
    Nothing = nothing
    MaxAge = 2
    Reviewers = {r1}
    IncidentUpdates = {"INVESTIGATING", "RESOLVED"}
    Users = {u1, u2}
    Owner <- MCOwner
    Tokens = {}
    Gets = {}
    MayEnd = {}
    MaxCrashes = 2
\* With nothing left to download, review or expire, the system rests.
CHECK_DEADLOCK FALSE
SPECIFICATION FairSpec
INVARIANT OpenIncidentHoldsFile
PROPERTIES DownloadsAreRecorded FilesExpire
