---------------------------- MODULE FirstRunSetup ----------------------------
(***************************************************************************)
(* The bootstrap of the first administrator: the single system_state row,  *)
(* the setup token every start of an admin listener renews, and the two    *)
(* endpoints that take the row FOR UPDATE.  _get_or_create_state drops the *)
(* object it loads, so the locked SELECT loads the committed row again.    *)
(***************************************************************************)
EXTENDS AccountAdmin

VARIABLES
    setup,              \* the system_state row
    setupLock,          \* the request that holds it FOR UPDATE
    bootstraps          \* accounts that create_bootstrap_admin has inserted

setupVars == <<setup, setupLock, bootstraps>>

\* token: the boot whose token the stored hash is of; 0: no hash.
\* fresh: younger than setup_token_ttl_seconds.
SetupRows == [initialized : BOOLEAN, admin : Users \cup {None},
              token : Nat, fresh : BOOLEAN, boots : Nat]

\* regenerate_setup_token in the lifespan of a starting process.
RegenerateSetupToken ==
    /\ setupLock = None
    /\ setup.boots < use.boots
    /\ ~setup.initialized
    /\ setup' = [setup EXCEPT !.boots = @ + 1, !.token = setup.boots + 1, !.fresh = TRUE]
    /\ UNCHANGED <<storeVars, loginVars, setupLock, bootstraps>>

SetupTokenExpires ==
    /\ setup.fresh
    /\ setup' = [setup EXCEPT !.fresh = FALSE]
    /\ UNCHANGED <<storeVars, loginVars, setupLock, bootstraps>>

\* POST /setup/admin; attempts stands for the boot whose token is submitted.
\* A request that comes after the initialization is refused with no effect.
BeginSetup(r, u, boot) ==
    /\ Free(r)
    /\ ~setup.initialized
    /\ ~Locked(SetupKey)
    /\ Go(r, [Idle EXCEPT !.pc = "setup", !.user = u, !.attempts = boot])
    /\ UNCHANGED <<user, codeLock, session, pending, countVars, issued, loginVars, setupVars>>

TokenValid(boot) == setup.fresh /\ boot = setup.token /\ boot # 0

\* The account of an earlier attempt is used again, never a second one.
Reuses == setup.admin # None

\* Variant: the state row is read without waiting for its lock.
ReadSetup(r) == TRUE

SetupUnlocked(r) == setupLock = None

CreateBootstrapAdmin(r) ==
    LET u == req[r].user
        valid == TokenValid(req[r].attempts)
    IN
    /\ At(r, "setup")
    /\ SetupUnlocked(r)
    /\ \/ /\ setup.initialized
          /\ Finish(r)
          /\ UNCHANGED <<countVars, setupLock>>
       \/ /\ ~setup.initialized /\ ~valid
          /\ Reject(r, SetupKey)
          /\ UNCHANGED <<fails, expires, setupLock>>
       \/ /\ ~setup.initialized /\ valid
          /\ ClearFailures(SetupKey)
          /\ \/ /\ Reuses
                /\ Go(r, [Idle EXCEPT !.pc = "bootstrap", !.user = setup.admin])
                /\ setupLock' = r
             \/ /\ ~Reuses /\ ~user[u].exists
                /\ ~Inserting(u)                 \* the INSERT waits for another's
                /\ Go(r, [Idle EXCEPT !.pc = "bootstrap", !.user = u, !.write = TRUE])
                /\ setupLock' = r
             \/ /\ ~Reuses /\ user[u].exists     \* username already taken
                /\ Finish(r)
                /\ UNCHANGED setupLock
    /\ UNCHANGED <<user, codeLock, session, pending, issued, loginVars, setup, bootstraps>>

CommitBootstrapAdmin(r) ==
    LET u == req[r].user
        new == req[r].write
    IN
    /\ At(r, "bootstrap")
    /\ \E t \in Fresh :
          /\ issued' = issued \cup {t}
          /\ pending' = [pending EXCEPT ![t] = [user |-> u, attempts |-> 0]]
    /\ user' = [user EXCEPT ![u] = IF new THEN NewUser(TRUE, "ADMIN") ELSE @]
    /\ bootstraps' = bootstraps + IF new THEN 1 ELSE 0
    /\ setup' = [setup EXCEPT !.admin = u]
    /\ setupLock' = None
    /\ Finish(r)
    /\ UNCHANGED <<codeLock, session, countVars, loginVars>>

-----------------------------------------------------------------------------
\* POST /setup/mfa/confirm.  The first look at the row takes no lock.
BeginFinish(r, t) ==
    LET u == pending[t].user IN
    /\ Free(r)
    /\ ~setup.initialized
    /\ pending[t] # None
    /\ \/ /\ user[u].active
          /\ Go(r, [Idle EXCEPT !.pc = "finish", !.user = u, !.row = user[u], !.tok = t])
          /\ UNCHANGED pending
       \/ /\ ~user[u].active
          /\ Drop(t)
          /\ UNCHANGED req
    /\ UNCHANGED <<user, codeLock, session, countVars, issued, loginVars, setupVars>>

\* complete_bootstrap_mfa; the endpoint then deletes the challenge and stores
\* the session in Redis, all before the commit.
CompleteBootstrap(r, c) ==
    LET u == req[r].user
        ok == ~setup.initialized /\ setup.admin = u /\ ConfirmsCode(r, c)
    IN
    /\ At(r, "finish")
    /\ setupLock = None
    /\ \/ /\ ok
          /\ CodesFree(r, u)
          /\ codeLock' = [codeLock EXCEPT ![u] = r]
          /\ setupLock' = r
          /\ Drop(req[r].tok)
          /\ \E t \in Fresh :
                /\ issued' = issued \cup {t}
                /\ Open(t, u, TRUE, FALSE, FALSE)
                /\ Go(r, [Idle EXCEPT !.pc = "initialize", !.user = u, !.tok = t])
       \/ /\ ~ok
          /\ Finish(r)
          /\ UNCHANGED <<codeLock, session, pending, issued, setupLock>>
    /\ UNCHANGED <<user, countVars, loginVars, setup, bootstraps>>

CommitInitialized(r) ==
    LET u == req[r].user IN
    /\ At(r, "initialize")
    /\ \E k \in FreshCodes :
          /\ issued' = issued \cup {k}
          /\ user' = [user EXCEPT ![u] = Enrolled(@, k)]
    /\ setup' = [setup EXCEPT !.initialized = TRUE, !.token = 0, !.fresh = FALSE]
    /\ session' = [session EXCEPT ![req[r].tok] =
                      IF @ = None THEN None ELSE [@ EXCEPT !.held = TRUE]]
    /\ codeLock' = [codeLock EXCEPT ![u] = None]
    /\ setupLock' = None
    /\ Finish(r)
    /\ UNCHANGED <<pending, countVars, loginVars, bootstraps>>

SetupStep(r) ==
    \/ \E u \in Users, boot \in 1 .. use.boots : BeginSetup(r, u, boot)
    \/ CreateBootstrapAdmin(r)
    \/ CommitBootstrapAdmin(r)
    \/ \E t \in Tokens : BeginFinish(r, t)
    \/ \E c \in Secrets \cup {None} : CompleteBootstrap(r, c)
    \/ CommitInitialized(r)
=============================================================================
