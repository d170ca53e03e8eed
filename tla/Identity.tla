------------------------------ MODULE Identity ------------------------------
(***************************************************************************)
(* Logins, account administration and first-run setup over one store, with *)
(* requests that die between two steps, and what this part promises.       *)
(***************************************************************************)
EXTENDS FirstRunSetup

CONSTANT Starts         \* the installations to start from

VARIABLE crashes

vars == <<storeVars, loginVars, setupVars, crashes, use>>

\* An installation: its users table, the open login sessions and MFA
\* challenges by token, the tokens drawn and gone, whether first-run setup is
\* complete, and its use.  A recovery code was generated for one account,
\* and setup is complete once an administrator has finished it.
ASSUME StartAssumption ==
    \A st \in Starts :
        /\ st.use \in Uses
        /\ st.accounts \in [Users -> UserRows]
        /\ \A u \in Users : st.accounts[u].exists \/ st.accounts[u] = NoUser
        /\ \A u, v \in Users : u # v => st.accounts[u].codes \cap st.accounts[v].codes = {}
        /\ st.initialized \in BOOLEAN
        /\ st.initialized => \E u \in Users : /\ st.accounts[u].exists /\ st.accounts[u].active
                                             /\ st.accounts[u].role = "ADMIN"
        /\ DOMAIN st.signedIn \cup DOMAIN st.challenged \cup st.drawn \subseteq Tokens
        /\ \A t \in DOMAIN st.signedIn : st.signedIn[t] \in Users
        /\ \A t \in DOMAIN st.challenged : st.challenged[t] \in Users
        /\ \A t \in DOMAIN st.signedIn : st.accounts[st.signedIn[t]].mfa
        /\ \A t \in DOMAIN st.challenged : st.accounts[st.challenged[t]].mfa

InitFrom(st) ==
    /\ user = st.accounts
    /\ codeLock = [u \in Users |-> None]
    /\ session = [t \in Tokens |->
                     IF t \in DOMAIN st.signedIn
                     THEN [user |-> st.signedIn[t], factor |-> TRUE, held |-> TRUE,
                           overtaken |-> FALSE]
                     ELSE None]
    /\ pending = [t \in Tokens |->
                     IF t \in DOMAIN st.challenged
                     THEN [user |-> st.challenged[t], attempts |-> 0]
                     ELSE None]
    /\ fails = [n \in Names |-> 0]
    /\ expires = [n \in Names |-> FALSE]
    /\ tried = [n \in Names |-> 0]
    /\ issued = DOMAIN st.signedIn \cup DOMAIN st.challenged \cup st.drawn
                   \cup UNION {st.accounts[u].codes : u \in Users}
    /\ req = [r \in Requests |-> Idle]
    /\ ldapRow = "none"
    /\ redeemed = [c \in Codes |-> 0]
    /\ setup = [initialized |-> st.initialized, admin |-> None, token |-> 0,
                fresh |-> FALSE, boots |-> 0]
    /\ setupLock = None
    /\ bootstraps = 0
    /\ crashes = 0
    /\ use = st.use

Init == \E st \in Starts : InitFrom(st)

\* The process dies or the connection to the database is lost: the request's
\* transaction rolls back and its locks go; what it wrote to Redis stays.
Crash(r) ==
    /\ ~Free(r)
    /\ crashes < use.crashes
    /\ crashes' = crashes + 1
    /\ Finish(r)
    /\ codeLock' = [u \in Users |-> IF codeLock[u] = r THEN None ELSE codeLock[u]]
    /\ setupLock' = IF setupLock = r THEN None ELSE setupLock
    /\ UNCHANGED <<user, session, pending, countVars, issued, loginVars, setup, bootstraps>>

Expiry ==
    \/ \E n \in Names : WindowEnds(n)
    \/ \E t \in Tokens : ChallengeExpires(t) \/ SessionExpires(t)

Direct ==
    \/ \E t \in Tokens : Logout(t) \/ ChangePassword(t)
    \/ \E t \in Tokens, enabled \in BOOLEAN : UpdateLdapConfig(t, enabled)
    \/ \E u \in Users, enable \in BOOLEAN : BreakGlass(u, enable)

Act ==
    \/ \E r \in Requests : (LoginStep(r) \/ AdminStep(r)) /\ UNCHANGED <<setupVars, crashes>>
    \/ \E r \in Requests : SetupStep(r) /\ UNCHANGED crashes
    \/ \E r \in Requests : Crash(r)
    \/ Direct /\ UNCHANGED <<setupVars, crashes>>
    \/ Expiry /\ UNCHANGED <<loginVars, setupVars, crashes>>
    \/ (RegenerateSetupToken \/ SetupTokenExpires) /\ UNCHANGED crashes

Next == Act /\ UNCHANGED use

Spec == Init /\ [][Next]_vars

-----------------------------------------------------------------------------
\* Types: the store, the directory switch, the setup row and its lock.
TypeOK ==
    /\ StoreTypeOK
    /\ ldapRow \in LdapRows
    /\ redeemed \in [Codes -> Nat]
    /\ setup \in SetupRows
    /\ setupLock \in Requests \cup {None}
    /\ bootstraps \in Nat
    /\ crashes \in Nat

\* A local account in a role with mandatory MFA holds no login session that
\* skipped the second factor, however it came to its role: change_role
\* revokes what was there before.  Only a login that had already read the
\* row when the change committed can slip through.
SecondFactorHeld ==
    \A t \in Tokens :
        LET s == session[t] IN
        s # None /\ user[s.user].local /\ user[s.user].role \in MfaMandatoryRoles =>
            s.factor \/ s.overtaken

\* A recovery code lets one request through, whatever replays it at the same
\* time and wherever a request dies (verify_login_factor's FOR UPDATE).
RecoveryCodeOnce == \A c \in Codes : redeemed[c] <= 1

\* Between two resets of its counter a username takes at most the allowed
\* number of wrong attempts, plus those other requests had under way when
\* the counter reached the limit (is_login_locked looks first, INCR counts
\* last) and those of requests that died before they counted.
AttemptsBounded ==
    \A n \in Names :
        tried[n] <= MaxLoginFailures - 1 + Cardinality(Requests) + crashes

\* A failure counter will expire by itself: no interleaving of INCR, EXPIRE,
\* DEL and an administrator's lock leaves one without a time to live, unless
\* the request that made the key died before its EXPIRE.
CounterExpires ==
    \A n \in Names :
        crashes = 0 /\ fails[n] > 0 /\ ~expires[n] =>
            \E r \in Requests : At(r, "expire") /\ req[r].user = n

\* The role of an account with a local password changes only by an
\* administrator's change_role: no directory login touches it, even when the
\* account appears while that login is waiting for the directory.
LocalRoleAdministered ==
    [][\A u \in Users :
          user[u].exists /\ user[u].local /\ user'[u].role # user[u].role =>
              \E r \in Requests : At(r, "commit") /\ req[r].op = "role" /\ req[r].user = u]_vars

\* Concurrent and repeated setup calls, renewed tokens and requests that die
\* create one bootstrap administrator.
OneBootstrapAdmin == bootstraps <= 1

\* Once the system is set up it keeps an active administrator, whatever one
\* console disables, demotes or resets: the counts in disable_user and
\* update_role leave the last one alone.  (The directory may still demote
\* one at a login, and two consoles may each count the other's target.)
SomeActiveAdmin ==
    setup.initialized /\ use.callers = {} /\ Cardinality(use.consoles) <= 1 =>
        ActiveAdmins # {}
=============================================================================
