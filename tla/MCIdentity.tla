----------------------------- MODULE MCIdentity -----------------------------
(***************************************************************************)
(* Instances of Identity: an administrator who is signed in beside an      *)
(* account still to come or beside a directory account; two administrators *)
(* of whom one is half way through a login; and an installation that is    *)
(* not set up yet, with and without a directory account in it.             *)
(***************************************************************************)
EXTENDS Identity, TLC

CONSTANTS a, b, r1, t0, m0, m1, s1, k0

Member(role, code) ==
    [NewUser(TRUE, role) EXCEPT !.mfa = TRUE, !.secret = s1, !.codes = code]

Nowhere == [t \in {} |-> a]

\* Password logins, with and without the directory, beside role changes,
\* locks and accounts that come into being.
OneAdmin ==
    [accounts |-> [u \in Users |-> IF u = a THEN Member("ADMIN", {}) ELSE NoUser],
     signedIn |-> [t \in {t0} |-> a],
     challenged |-> Nowhere,
     drawn |-> {m0, m1},
     initialized |-> TRUE,
     use |-> [login |-> {"login"},
              callers |-> {b},
              admin |-> {"role", "create", "lock", "unlock"},
              grants |-> RoleName,
              consoles |-> {r1},
              timeouts |-> {"login_fail"},
              boots |-> 0,
              crashes |-> 0]]

\* A directory account whose groups change between its logins.
DirectoryAccount ==
    [OneAdmin EXCEPT
        !.accounts = [u \in Users |-> IF u = a THEN Member("ADMIN", {})
                                       ELSE NewUser(FALSE, "USER")],
        !.drawn = {m0, m1},
        !.use = [@ EXCEPT !.login = {"login", "logout", "password"},
                          !.admin = {"disable", "enable", "ldap", "breakglass"},
                          !.timeouts = {"mfa_pending", "session"}]]

\* Second factors, enrolment and resets of two administrators, one of them
\* half way through a login.
TwoAdmins ==
    [accounts |-> [u \in Users |-> Member("ADMIN", IF u = a THEN {} ELSE {k0})],
     signedIn |-> [t \in {t0} |-> a],
     challenged |-> [t \in {m0} |-> b],
     drawn |-> {},
     initialized |-> TRUE,
     use |-> [login |-> {"verify", "enrol", "reset_self"},
              callers |-> {},
              admin |-> {"disable", "role", "reset"},
              grants |-> {"USER"},
              consoles |-> {r1},
              timeouts |-> {},
              boots |-> 0,
              crashes |-> 1]]

\* First-run setup by two requests, across a restart.
NotSetUp ==
    [accounts |-> [u \in Users |-> NoUser],
     signedIn |-> Nowhere,
     challenged |-> Nowhere,
     drawn |-> {t0},
     initialized |-> FALSE,
     use |-> [login |-> {"enrol"},
              callers |-> {},
              admin |-> {},
              grants |-> {},
              consoles |-> {},
              timeouts |-> {},
              boots |-> 2,
              crashes |-> 1]]

\* Setup where the directory has let an administrator in before.
SetUpBesideDirectory ==
    [NotSetUp EXCEPT
        !.accounts = [u \in Users |-> IF u = a THEN [Member("ADMIN", {}) EXCEPT !.local = FALSE]
                                       ELSE NoUser],
        !.signedIn = [t \in {t0} |-> a],
        !.use = [@ EXCEPT !.admin = {"disable"}, !.consoles = {r1}, !.boots = 1, !.crashes = 0]]

Installations ==
    {OneAdmin, DirectoryAccount, TwoAdmins, NotSetUp, SetUpBesideDirectory}
=============================================================================
