CONSTANTS
    a = a
    b = b
    r1 = r1
    t0 = t0
    m0 = m0
    m1 = m1
    s1 = s1
    k0 = k0
    Users = {a, b}
    SetupKey = setup
    Requests = {r1, r2}
    Tokens = {t0, m0, m1, t2}
    Secrets = {s1}
    Codes = {k0, k1}
    None = none
    MaxLoginFailures = 2
    MaxMfaAttempts = 2
    LdapEnabled = TRUE
    Starts <- Installations
\* With every token drawn and no counter running the system may rest.
CHECK_DEADLOCK FALSE
SPECIFICATION Spec
INVARIANTS SecondFactorHeld RecoveryCodeOnce AttemptsBounded CounterExpires OneBootstrapAdmin SomeActiveAdmin
PROPERTY LocalRoleAdministered
