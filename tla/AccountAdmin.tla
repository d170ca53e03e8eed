---------------------------- MODULE AccountAdmin ----------------------------
(***************************************************************************)
(* /admin/users, /mfa/admin and /admin/ldap: what an administrator does to *)
(* accounts.  Each request loads the target row and decides, then revokes  *)
(* login sessions where the operation does, then commits.                  *)
(***************************************************************************)
EXTENDS LoginFlow

ActiveAdmins == {u \in Users : user[u].exists /\ user[u].active /\ user[u].role = "ADMIN"}

\* Variant: the target itself is counted as the one that remains.
AnyAdminRemains == Cardinality(ActiveAdmins) > 0

AnotherAdminRemains == Cardinality(ActiveAdmins) > 1

\* Variant: a change of role leaves the sessions alone.
RevokesNoRole(op, row, role) == op \in {"lock", "reset"}

Revokes(op, row, role) == op \in {"lock", "reset"} \/ (op = "role" /\ row.role # role)

\* The refusals of the endpoints: one's own account, the last active ADMIN.
Permits(op, me, u, role) ==
    LET row == user[u] IN
    CASE op = "disable" -> /\ row.exists
                           /\ u # me
                           /\ row.role = "ADMIN" => AnotherAdminRemains
      [] op = "role"    -> /\ row.exists
                           /\ row.role = "ADMIN" /\ role # "ADMIN" /\ row.active =>
                                 AnotherAdminRemains
      [] op = "create"  -> ~row.exists /\ ~Inserting(u)
      [] OTHER          -> row.exists

BeginAdmin(r, t, op, u, role) ==
    /\ r \in use.consoles
    /\ Free(r)
    /\ IsAdmin(t)
    /\ Permits(op, session[t].user, u, role)
    /\ Go(r, [Idle EXCEPT !.pc = IF Revokes(op, user[u], role) THEN "revoke" ELSE "commit",
                          !.op = op, !.user = u, !.row = user[u], !.role = role,
                          !.write = (op = "create")])
    /\ UNCHANGED <<user, codeLock, session, pending, countVars, issued, loginVars>>

\* revoke_all_sessions_for_user SCANs the session keys.  A lock is in force
\* before it; a reset has deleted the recovery codes, and holds their locks.
RevokeSessions(r) ==
    LET u == req[r].user IN
    /\ At(r, "revoke")
    /\ IF req[r].op = "lock" THEN ForceLock(u) ELSE UNCHANGED countVars
    /\ IF req[r].op = "reset"
       THEN CodesFree(r, u) /\ codeLock' = [codeLock EXCEPT ![u] = r]
       ELSE UNCHANGED codeLock
    /\ RevokeAllSessions(u, {})
    /\ Step(r, "commit")
    /\ UNCHANGED <<user, pending, issued, loginVars>>

\* The columns each operation writes: those it changes in the row as loaded.
\* The recovery codes are deleted, whatever was loaded.
Written(op, loaded, row, role) ==
    CASE op = "disable" -> [row EXCEPT !.active = @ /\ ~loaded.active]
      [] op = "enable"  -> [row EXCEPT !.active = @ \/ ~loaded.active]
      [] op = "role"    -> [row EXCEPT !.role = IF loaded.role = role THEN @ ELSE role]
      [] op = "create"  -> NewUser(TRUE, role)
      [] op = "reset"   -> [row EXCEPT !.mfa = @ /\ ~loaded.mfa,
                                       !.secret = IF loaded.secret = None THEN @ ELSE None,
                                       !.codes = {}]
      [] OTHER          -> row

\* When a role changes, other requests of the account are overtaken.
CommitAdmin(r) ==
    LET u == req[r].user
        op == req[r].op
    IN
    /\ At(r, "commit")
    /\ user' = [user EXCEPT ![u] = Written(op, req[r].row, @, req[r].role)]
    /\ codeLock' = [codeLock EXCEPT ![u] = IF @ = r THEN None ELSE @]
    /\ IF op = "unlock" THEN ClearFailures(u) ELSE UNCHANGED countVars
    /\ redeemed' = [c \in Codes |-> redeemed[c] + IF c = req[r].code THEN 1 ELSE 0]
    /\ req' = [q \in Requests |->
                  IF q = r THEN Idle
                  ELSE [req[q] EXCEPT !.overtaken =
                           @ \/ (req[q].user = u /\ ChangesRole(r))]]
    /\ UNCHANGED <<session, pending, issued, ldapRow>>

\* Enabling is refused unless the candidate configuration passes the
\* connection test; a refused update leaves the row alone.
UpdateLdapConfig(t, enabled) ==
    /\ "ldap" \in use.admin
    /\ IsAdmin(t)
    /\ ldapRow' = IF enabled THEN "enabled" ELSE "disabled"
    /\ UNCHANGED <<storeVars, redeemed>>

\* scripts/reset_local_password.py, run on the host.
BreakGlass(u, enable) ==
    /\ "breakglass" \in use.admin
    /\ user[u].exists /\ user[u].local
    /\ ClearFailures(u)
    /\ user' = [user EXCEPT ![u].active = @ \/ enable]
    /\ UNCHANGED <<codeLock, session, pending, issued, req, loginVars>>

AdminStep(r) ==
    \/ \E t \in Tokens, u \in Users, op \in use.admin \ {"role", "create", "ldap", "breakglass"} :
          BeginAdmin(r, t, op, u, "USER")
    \/ \E t \in Tokens, u \in Users, op \in use.admin \cap {"role", "create"}, role \in use.grants :
          BeginAdmin(r, t, op, u, role)
    \/ RevokeSessions(r)
    \/ CommitAdmin(r)
=============================================================================
