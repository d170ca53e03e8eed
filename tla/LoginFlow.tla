------------------------------ MODULE LoginFlow ------------------------------
(***************************************************************************)
(* /auth and /mfa: the password check with its directory fallback, the     *)
(* second factor, enrolment, and what a user does to the own login.  One   *)
(* action per step between which another request may run.                  *)
(***************************************************************************)
EXTENDS AccountStore

CONSTANT LdapEnabled    \* OPENRBI_LDAP_ENABLED

VARIABLES
    ldapRow,            \* the admin portal's ldap_configs row
    redeemed            \* how many requests a recovery code has let through

loginVars == <<ldapRow, redeemed>>

LdapRows == {"none", "enabled", "disabled"}

\* A saved row is authoritative in full; the environment counts without one.
LdapInEffect == IF ldapRow = "none" THEN LdapEnabled ELSE ldapRow = "enabled"

\* Group DNs are compared case-insensitively, so a mapping either names a
\* group or does not: mapped is the set of roles the user's groups map to.
ResolveRole(mapped) ==
    CASE "ADMIN" \in mapped -> "ADMIN"
      [] "ADMIN" \notin mapped /\ "SECURITY_REVIEWER" \in mapped -> "SECURITY_REVIEWER"
      [] OTHER -> "USER"

-----------------------------------------------------------------------------
\* POST /auth/login.  A locked username gets 429 and nothing else happens.
BeginLogin(r, u) ==
    /\ "login" \in use.login
    /\ Free(r)
    /\ ~Locked(u)
    /\ Go(r, [Idle EXCEPT !.pc = "login", !.user = u])
    /\ UNCHANGED <<user, codeLock, session, pending, countVars, issued, loginVars>>

\* LocalAuthProvider.  The directory is asked only about names without a
\* local password.
LocalAuthenticate(r, matches) ==
    LET u == req[r].user
        row == user[u]
        ok == row.exists /\ row.active /\ row.local /\ matches
        authoritative == row.exists /\ row.local
    IN
    /\ At(r, "login")
    /\ \/ /\ ok
          /\ Go(r, [req[r] EXCEPT !.pc = "accepted", !.row = row])
          /\ tried' = tried
       \/ /\ ~ok
          /\ authoritative \/ ~LdapInEffect
          /\ Reject(r, u)
       \/ /\ ~ok /\ ~authoritative /\ LdapInEffect
          /\ Go(r, [req[r] EXCEPT !.pc = "ldap", !.row = row])
          /\ tried' = tried
    /\ UNCHANGED <<user, codeLock, session, pending, fails, expires, issued, loginVars>>

\* Variant: a password-bearing row takes its role from the directory too.
Relabelled(row, role) ==
    row.active /\ row.role # role

\* The role of an LDAP-only account follows its groups at every login.
Relabels(row, role) ==
    ~row.local /\ row.active /\ row.role # role

\* resolve_or_provision_ldap_user after a successful bind.  The row loaded by
\* the local provider is still the one the session knows; a name without a
\* row is looked up again and provisioned.
LdapBinds(r, mapped) ==
    LET u == req[r].user
        role == ResolveRole(mapped)
        row == IF req[r].row.exists THEN req[r].row ELSE user[u]
        changes == Relabels(row, role)
        known == [row EXCEPT !.role = IF changes THEN role ELSE @]
    IN
    /\ At(r, "ldap")
    /\ \/ /\ row.exists /\ row.active
          /\ Go(r, [req[r] EXCEPT !.pc = "accepted", !.row = known, !.write = changes])
          /\ tried' = tried
       \/ /\ row.exists /\ ~row.active
          /\ Reject(r, u)
       \/ /\ ~row.exists /\ ~Inserting(u)
          /\ Go(r, [req[r] EXCEPT !.pc = "accepted", !.row = NewUser(FALSE, role),
                                  !.write = TRUE])
          /\ tried' = tried
       \/ /\ ~row.exists /\ Inserting(u)      \* unique violation: 500
          /\ Finish(r)
          /\ tried' = tried
    /\ UNCHANGED <<user, codeLock, session, pending, fails, expires, issued, loginVars>>

\* A wrong password, an ambiguous search and a directory failure look alike.
LdapRefuses(r) ==
    /\ At(r, "ldap")
    /\ Reject(r, req[r].user)
    /\ UNCHANGED <<user, codeLock, session, pending, fails, expires, issued, loginVars>>

\* A change of role is between its revocation and its commit.
Changing(u) == \E q \in Requests : At(q, "commit") /\ req[q].user = u /\ ChangesRole(q)

NeedsSecondFactor(row) == row.mfa \/ row.role \in MfaMandatoryRoles

\* The password is accepted: the counter is cleared, and the row as loaded
\* decides between an MFA challenge and a session; the commit writes what
\* provisioning changed.
CompleteLogin(r) ==
    LET u == req[r].user
        row == req[r].row
        late == req[r].overtaken \/ Changing(u)
    IN
    /\ At(r, "accepted")
    /\ ClearFailures(u)
    /\ user' = [user EXCEPT ![u] = IF ~req[r].write THEN @
                                   ELSE IF @.exists THEN [@ EXCEPT !.role = row.role]
                                   ELSE row]
    /\ \E t \in Fresh :
          /\ issued' = issued \cup {t}
          /\ \/ /\ NeedsSecondFactor(row)
                /\ pending' = [pending EXCEPT ![t] = [user |-> u, attempts |-> 0]]
                /\ UNCHANGED session
             \/ /\ ~NeedsSecondFactor(row)
                /\ Open(t, u, FALSE, TRUE, late)
                /\ UNCHANGED pending
    /\ Finish(r)
    /\ UNCHANGED <<codeLock, loginVars>>

-----------------------------------------------------------------------------
\* POST /auth/mfa/verify.
BeginVerify(r, t) ==
    LET u == pending[t].user IN
    /\ "verify" \in use.login
    /\ Free(r)
    /\ pending[t] # None
    /\ \/ /\ user[u].active /\ user[u].mfa
          /\ Go(r, [Idle EXCEPT !.pc = "verify", !.user = u, !.tok = t, !.row = user[u]])
          /\ UNCHANGED pending
       \/ /\ ~(user[u].active /\ user[u].mfa)
          /\ Drop(t)
          /\ UNCHANGED req
    /\ UNCHANGED <<user, codeLock, session, countVars, issued, loginVars>>

\* verify_login_factor: a TOTP code is checked against the loaded secret; a
\* recovery code against the unused ones, read again under their row locks.
FactorIsTotp(r, c) == req[r].row.secret # None /\ c = req[r].row.secret

\* Variant: the unused codes are read without FOR UPDATE.
CodesReadable(r, u) == TRUE

CodesFree(r, u) == codeLock[u] \in {None, r}

RedeemsCode(r, c) == CodesFree(r, req[r].user) /\ c \in user[req[r].user].codes

CheckFactor(r, c) ==
    LET u == req[r].user IN
    /\ At(r, "verify")
    /\ \/ /\ FactorIsTotp(r, c)
          /\ Step(r, "passed")
          /\ UNCHANGED codeLock
       \/ /\ ~FactorIsTotp(r, c)
          /\ RedeemsCode(r, c)
          /\ codeLock' = [codeLock EXCEPT ![u] = r]
          /\ Go(r, [req[r] EXCEPT !.pc = "passed", !.code = c])
       \/ /\ ~FactorIsTotp(r, c)
          /\ CodesFree(r, u) /\ c \notin user[u].codes
          /\ Step(r, "failed")
          /\ UNCHANGED codeLock
    /\ UNCHANGED <<user, session, pending, countVars, issued, loginVars>>

Exhausted(attempts) == attempts >= MaxMfaAttempts

\* record_mfa_pending_failure reads the challenge and writes it back later.
ReadAttempts(r) ==
    LET t == req[r].tok IN
    /\ At(r, "failed")
    /\ \/ /\ pending[t] = None
          /\ Finish(r)
          /\ UNCHANGED pending
       \/ /\ pending[t] # None /\ Exhausted(pending[t].attempts + 1)
          /\ Drop(t)
          /\ Finish(r)
       \/ /\ pending[t] # None /\ ~Exhausted(pending[t].attempts + 1)
          /\ Go(r, [req[r] EXCEPT !.pc = "recount", !.attempts = pending[t].attempts + 1])
          /\ UNCHANGED pending
    /\ UNCHANGED <<user, codeLock, session, countVars, issued, loginVars>>

WriteAttempts(r) ==
    /\ At(r, "recount")
    /\ pending' = [pending EXCEPT ![req[r].tok] = [user |-> req[r].user,
                                                   attempts |-> req[r].attempts]]
    /\ Finish(r)
    /\ UNCHANGED <<user, codeLock, session, countVars, issued, loginVars>>

\* The challenge is deleted and the session stored in Redis before the
\* database commit that marks a recovery code as used.
OpenVerified(r) ==
    /\ At(r, "passed")
    /\ Drop(req[r].tok)
    /\ \E t \in Fresh :
          /\ issued' = issued \cup {t}
          /\ Open(t, req[r].user, TRUE, FALSE, FALSE)
          /\ Go(r, [Idle EXCEPT !.pc = "answer", !.user = req[r].user, !.tok = t, !.code = req[r].code])
    /\ UNCHANGED <<user, codeLock, countVars, loginVars>>

CommitVerified(r) ==
    LET u == req[r].user IN
    /\ At(r, "answer")
    /\ user' = [user EXCEPT ![u].codes = @ \ {req[r].code}]
    /\ codeLock' = [codeLock EXCEPT ![u] = IF @ = r THEN None ELSE @]
    /\ session' = [session EXCEPT ![req[r].tok] =
                      IF @ = None THEN None ELSE [@ EXCEPT !.held = TRUE]]
    /\ redeemed' = [c \in Codes |-> redeemed[c] + IF c = req[r].code THEN 1 ELSE 0]
    /\ Finish(r)
    /\ UNCHANGED <<pending, countVars, issued, ldapRow>>

-----------------------------------------------------------------------------
\* Enrolment: through a challenge (/mfa/setup/...) or an open session (/mfa/...).
BeginEnrolment(r, t, op) ==
    LET u == session[t].user IN
    /\ "enrol" \in use.login
    /\ Free(r)
    /\ CurrentUser(t)
    /\ ~user[u].mfa
    /\ Go(r, [Idle EXCEPT !.pc = op, !.user = u, !.row = user[u]])
    /\ UNCHANGED <<user, codeLock, session, pending, countVars, issued, loginVars>>

BeginSetupEnrolment(r, t, op) ==
    LET u == pending[t].user IN
    /\ "enrol" \in use.login
    /\ Free(r)
    /\ pending[t] # None
    /\ \/ /\ user[u].active /\ ~user[u].mfa
          /\ Go(r, [Idle EXCEPT !.pc = op, !.user = u, !.row = user[u], !.tok = t])
          /\ UNCHANGED pending
       \/ /\ ~user[u].active
          /\ Drop(t)
          /\ UNCHANGED req
    /\ UNCHANGED <<user, codeLock, session, countVars, issued, loginVars>>

CommitSecret(r) ==
    /\ At(r, "enroll")
    /\ \E s \in Secrets : user' = [user EXCEPT ![req[r].user].secret = s]
    /\ Finish(r)
    /\ UNCHANGED <<codeLock, session, pending, countVars, issued, loginVars>>

\* confirm_enrollment and, after a challenge, the session it was for.
ConfirmsCode(r, c) == req[r].row.secret # None /\ c = req[r].row.secret

Enrolled(row, code) == [row EXCEPT !.mfa = TRUE, !.codes = {code}]

CommitEnrolment(r, c) ==
    LET u == req[r].user IN
    /\ At(r, "confirm")
    /\ ConfirmsCode(r, c)
    /\ CodesFree(r, u)
    /\ \E k \in FreshCodes :
          /\ user' = [user EXCEPT ![u] = Enrolled(@, k)]
          /\ \/ /\ req[r].tok = None
                /\ issued' = issued \cup {k}
                /\ UNCHANGED <<session, pending>>
             \/ /\ req[r].tok # None
                /\ Drop(req[r].tok)
                /\ \E t \in Fresh :
                      /\ issued' = issued \cup {k, t}
                      /\ Open(t, u, TRUE, TRUE, FALSE)
    /\ Finish(r)
    /\ UNCHANGED <<codeLock, countVars, loginVars>>

RefuseEnrolment(r, c) ==
    /\ At(r, "confirm")
    /\ ~ConfirmsCode(r, c)
    /\ Finish(r)
    /\ UNCHANGED <<user, codeLock, session, pending, countVars, issued, loginVars>>

-----------------------------------------------------------------------------
Logout(t) ==
    /\ "logout" \in use.login
    /\ CurrentUser(t)
    /\ session' = [session EXCEPT ![t] = None]
    /\ UNCHANGED <<user, codeLock, pending, countVars, issued, req, loginVars>>

\* A new local password ends the user's other sessions.
ChangePassword(t) ==
    /\ "password" \in use.login
    /\ CurrentUser(t)
    /\ user[session[t].user].local
    /\ RevokeAllSessions(session[t].user, {t})
    /\ UNCHANGED <<user, codeLock, pending, countVars, issued, req, loginVars>>

\* /mfa/reset-self: the factor is checked, then reset_mfa runs as for an
\* administrator (AccountAdmin).
BeginResetSelf(r, t, c) ==
    LET u == session[t].user
        totp == user[u].secret # None /\ c = user[u].secret
    IN
    /\ "reset_self" \in use.login
    /\ Free(r)
    /\ CurrentUser(t)
    /\ user[u].mfa
    /\ \/ totp /\ UNCHANGED codeLock
       \/ /\ ~totp /\ CodesFree(r, u) /\ c \in user[u].codes
          /\ codeLock' = [codeLock EXCEPT ![u] = r]
    /\ Go(r, [Idle EXCEPT !.pc = "revoke", !.op = "reset", !.user = u, !.row = user[u],
                          !.code = IF totp THEN None ELSE c])
    /\ UNCHANGED <<user, session, pending, countVars, issued, loginVars>>

LoginStep(r) ==
    \/ \E u \in use.callers : BeginLogin(r, u)
    \/ \E matches \in BOOLEAN : LocalAuthenticate(r, matches)
    \/ \E mapped \in SUBSET RoleName : LdapBinds(r, mapped)
    \/ LdapRefuses(r)
    \/ CountFailure(r) /\ UNCHANGED loginVars
    \/ SetExpiry(r) /\ UNCHANGED loginVars
    \/ CompleteLogin(r)
    \/ \E t \in Tokens : BeginVerify(r, t)
    \/ \E c \in Secrets \cup Codes \cup {None} : CheckFactor(r, c)
    \/ ReadAttempts(r)
    \/ WriteAttempts(r)
    \/ OpenVerified(r)
    \/ CommitVerified(r)
    \/ \E t \in Tokens, op \in {"enroll", "confirm"} :
          BeginEnrolment(r, t, op) \/ BeginSetupEnrolment(r, t, op)
    \/ CommitSecret(r)
    \/ \E c \in Secrets \cup {None} : CommitEnrolment(r, c) \/ RefuseEnrolment(r, c)
    \/ \E t \in Tokens, c \in Secrets \cup Codes : BeginResetSelf(r, t, c)
=============================================================================
