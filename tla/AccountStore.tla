---------------------------- MODULE AccountStore ----------------------------
(***************************************************************************)
(* What logins, account administration and first-run setup share: the      *)
(* users rows and recovery codes in PostgreSQL, the login sessions, MFA    *)
(* challenges and failure counters in Redis, and the requests in flight.   *)
(*                                                                         *)
(* A request keeps the row it loaded (expire_on_commit is off and the      *)
(* handler holds the object), decides on that copy, and at commit writes   *)
(* only the columns it changed over whatever was committed meanwhile.      *)
(* Passwords are left out: whether one matches is an input.                *)
(***************************************************************************)
EXTENDS FiniteSets, Naturals

CONSTANTS
    Users,              \* accounts, each with its username
    SetupKey,           \* the pseudo-username first-run setup is counted under
    Requests,           \* HTTP requests the backend serves at a time
    Tokens,             \* random session and MFA tokens, none drawn twice
    Secrets,            \* TOTP secrets; a code generated from s is s itself
    Codes,              \* recovery codes, none generated twice
    None,               \* NULL
    MaxLoginFailures,   \* _LOGIN_FAILURE_MAX_ATTEMPTS
    MaxMfaAttempts      \* _MFA_PENDING_MAX_ATTEMPTS

ASSUME LimitAssumption ==
    MaxLoginFailures \in Nat \ {0} /\ MaxMfaAttempts \in Nat \ {0}

ASSUME NoneAssumption ==
    None \notin Users \cup Requests \cup Tokens \cup Secrets \cup Codes \cup {SetupKey}

ASSUME FiniteAssumption == IsFiniteSet(Requests) /\ IsFiniteSet(Users)

VARIABLES
    user,               \* the committed row of an account
    codeLock,           \* the request holding the account's recovery codes
    session,            \* session:<token>
    pending,            \* mfa_pending:<token>
    fails,              \* login_fail:<username>, 0 when there is no key
    expires,            \* whether that key has a time to live
    tried,              \* attempts found wrong since the counter last started
    issued,             \* tokens and recovery codes drawn so far
    req,                \* what a request has loaded and where it stands
    use                 \* what clients do in this behaviour; never changes

countVars == <<fails, expires, tried>>

storeVars == <<user, codeLock, session, pending, fails, expires, tried, issued, req>>

RoleName == {"USER", "SECURITY_REVIEWER", "ADMIN"}

MfaMandatoryRoles == {"ADMIN", "SECURITY_REVIEWER"}

\* local: password_hash is not NULL.  codes: the recovery codes not yet used.
UserRows == [exists : BOOLEAN, local : BOOLEAN, role : RoleName, active : BOOLEAN,
             mfa : BOOLEAN, secret : Secrets \cup {None}, codes : SUBSET Codes]

NewUser(local, role) ==
    [exists |-> TRUE, local |-> local, role |-> role, active |-> TRUE,
     mfa |-> FALSE, secret |-> None, codes |-> {}]

NoUser == [NewUser(FALSE, "USER") EXCEPT !.exists = FALSE, !.active = FALSE]

\* factor: a second factor was checked for it.  held: its token reached the
\* client.  overtaken: its login read the row before a change that revoked
\* the account's sessions, and finished after the revocation.
Logins == [user : Users, factor : BOOLEAN, held : BOOLEAN, overtaken : BOOLEAN]

Challenges == [user : Users, attempts : 0 .. MaxMfaAttempts - 1]

Names == Users \cup {SetupKey}

\* code: the recovery code presented.  write: the commit INSERTs the row or
\* writes the role the directory gave.
Points == {"idle", "login", "ldap", "accepted", "rejected", "expire", "verify", "passed",
           "failed", "recount", "answer", "enroll", "confirm", "revoke", "commit",
           "setup", "bootstrap", "finish", "initialize"}

AdminOps == {"disable", "enable", "role", "create", "lock", "unlock", "reset"}

Handlers == [pc : Points, op : AdminOps \cup {"none"}, user : Names \cup {None},
             tok : Tokens \cup {None}, row : UserRows, role : RoleName,
             code : Codes \cup {None}, attempts : Nat, write : BOOLEAN, overtaken : BOOLEAN]

Idle == [pc |-> "idle", op |-> "none", user |-> None, tok |-> None,
         row |-> NoUser, role |-> "USER", code |-> None, attempts |-> 0,
         write |-> FALSE, overtaken |-> FALSE]

\* What may happen in a behaviour: the endpoints of /auth and /mfa in use,
\* the accounts whose password is tried, the administrative operations, the
\* roles they give and the requests that carry them, the Redis keys that may
\* time out, and bounds on listener starts and on requests that die.
Uses == [login : SUBSET {"login", "verify", "enrol", "logout", "password", "reset_self"},
         callers : SUBSET Users,
         admin : SUBSET (AdminOps \cup {"ldap", "breakglass"}),
         grants : SUBSET RoleName,
         consoles : SUBSET Requests,
         timeouts : SUBSET {"login_fail", "mfa_pending", "session"},
         boots : Nat,
         crashes : Nat]

StoreTypeOK ==
    /\ user \in [Users -> UserRows]
    /\ codeLock \in [Users -> Requests \cup {None}]
    /\ session \in [Tokens -> Logins \cup {None}]
    /\ pending \in [Tokens -> Challenges \cup {None}]
    /\ fails \in [Names -> Nat]
    /\ expires \in [Names -> BOOLEAN]
    /\ tried \in [Names -> Nat]
    /\ issued \subseteq Tokens \cup Codes
    /\ use \in Uses
    /\ req \in [Requests -> Handlers]

-----------------------------------------------------------------------------
\* Requests.
At(r, pc) == req[r].pc = pc

Free(r) == At(r, "idle")

Go(r, q) == req' = [req EXCEPT ![r] = q]

Step(r, pc) == Go(r, [req[r] EXCEPT !.pc = pc])

Finish(r) == Go(r, Idle)

\* A request whose INSERT of the username is flushed and not committed.
Inserting(u) ==
    \E q \in Requests : req[q].user = u /\ req[q].write /\ ~user[u].exists

\* A role that is assigned as it was loaded is not written.
ChangesRole(q) == req[q].op = "role" /\ req[q].row.role # req[q].role

-----------------------------------------------------------------------------
\* Tokens.
\* A token is drawn at random and matches none drawn before; which of those
\* left it is makes no difference.
Drawn(S) == IF S \subseteq issued THEN {} ELSE {CHOOSE x \in S \ issued : TRUE}

Fresh == Drawn(Tokens)

FreshCodes == Drawn(Codes)

Open(t, u, factor, held, overtaken) ==
    session' = [session EXCEPT ![t] = [user |-> u, factor |-> factor,
                                       held |-> held, overtaken |-> overtaken]]

Drop(t) == pending' = [pending EXCEPT ![t] = None]

SessionsOf(u) == {t \in Tokens : session[t] # None /\ session[t].user = u}

RevokeAllSessions(u, spared) ==
    session' = [t \in Tokens |-> IF t \in SessionsOf(u) \ spared THEN None ELSE session[t]]

\* get_current_user: the session is stored and its user still active.
CurrentUser(t) ==
    /\ session[t] # None
    /\ session[t].held
    /\ user[session[t].user].active

\* require_role("ADMIN"): the role is read on every request.
IsAdmin(t) == CurrentUser(t) /\ user[session[t].user].role = "ADMIN"

-----------------------------------------------------------------------------
\* The failure counter of a username.
\* Variant: off by one.
LockedLate(n) == fails[n] > MaxLoginFailures

Locked(n) == fails[n] >= MaxLoginFailures

ClearFailures(n) ==
    /\ fails' = [fails EXCEPT ![n] = 0]
    /\ expires' = [expires EXCEPT ![n] = FALSE]
    /\ tried' = [tried EXCEPT ![n] = 0]

Reject(r, n) ==
    /\ Go(r, [Idle EXCEPT !.pc = "rejected", !.user = n])
    /\ tried' = [tried EXCEPT ![n] = @ + 1]

\* Variant: the key is set without a time to live.
ForceLockForGood(n) ==
    /\ fails' = [fails EXCEPT ![n] = MaxLoginFailures]
    /\ UNCHANGED <<expires, tried>>

ForceLock(n) ==
    /\ fails' = [fails EXCEPT ![n] = MaxLoginFailures]
    /\ expires' = [expires EXCEPT ![n] = TRUE]
    /\ tried' = tried

\* INCR answers the new count; the request that made the key sets its time
\* to live with a second command.
CountFailure(r) ==
    LET n == req[r].user IN
    /\ At(r, "rejected")
    /\ fails' = [fails EXCEPT ![n] = @ + 1]
    /\ IF fails[n] = 0 THEN Step(r, "expire") ELSE Finish(r)
    /\ UNCHANGED <<user, codeLock, session, pending, expires, tried, issued>>

\* EXPIRE does nothing to a key that is gone.
SetExpiry(r) ==
    LET n == req[r].user IN
    /\ At(r, "expire")
    /\ expires' = [expires EXCEPT ![n] = fails[n] > 0]
    /\ Finish(r)
    /\ UNCHANGED <<user, codeLock, session, pending, fails, tried, issued>>

WindowEnds(n) ==
    /\ "login_fail" \in use.timeouts
    /\ expires[n]
    /\ ClearFailures(n)
    /\ UNCHANGED <<user, codeLock, session, pending, issued, req>>

ChallengeExpires(t) ==
    /\ "mfa_pending" \in use.timeouts
    /\ pending[t] # None
    /\ Drop(t)
    /\ UNCHANGED <<user, codeLock, session, countVars, issued, req>>

SessionExpires(t) ==
    /\ "session" \in use.timeouts
    /\ session[t] # None
    /\ session' = [session EXCEPT ![t] = None]
    /\ UNCHANGED <<user, codeLock, pending, countVars, issued, req>>
=============================================================================
