--------------------------- MODULE IdentityProofs ---------------------------
(***************************************************************************)
(* Type correctness and the promises of logins, account administration and *)
(* first-run setup, for every set of accounts, requests, tokens and codes. *)
(***************************************************************************)
EXTENDS Identity, FiniteSetTheorems, TLAPS

-----------------------------------------------------------------------------
\* For each promise, the strengthening that every step of a login, an
\* administrator or first-run setup preserves.

\* Where a request stands says what it carries: an account, a token, the
\* count it read, an uncommitted row, a recovery code.
Shape(q) ==
    /\ q.pc # "idle" => q.user \in Names
    /\ q.pc \notin {"idle", "rejected", "expire"} => q.user \in Users
    /\ q.pc \in {"verify", "passed", "failed", "recount", "answer", "finish", "initialize"} =>
          q.tok \in Tokens
    /\ q.pc = "recount" => q.attempts \in 0 .. MaxMfaAttempts - 1
    /\ q.write => q.pc \in {"accepted", "bootstrap"} \/ (q.pc = "commit" /\ q.op = "create")
    /\ q.code # None => \/ q.pc \in {"passed", "answer"}
                        \/ q.pc \in {"revoke", "commit"} /\ q.op = "reset"

\* The inductive invariant behind TypeOK.
TypeInv == TypeOK /\ \A r \in Requests : Shape(req[r])

-----------------------------------------------------------------------------
\* Whoever creates or initializes the first administrator holds the state
\* row, and the account it inserts is the first.
SetupInv ==
    /\ \A r \in Requests : req[r].pc \in {"bootstrap", "initialize"} => setupLock = r
    /\ \A r \in Requests : At(r, "bootstrap") => (req[r].write <=> setup.admin = None)
    /\ \A r \in Requests : At(r, "initialize") => setup.admin # None
    /\ OneBootstrapAdmin
    /\ bootstraps = 1 => setup.admin # None

-----------------------------------------------------------------------------
\* A row that is not there is empty.
RowsThere == \A u \in Users : user[u].exists \/ user[u] = NoUser

\* The setup row and the login sessions name accounts that are there.
NamedThere ==
    /\ setup.admin # None => user[setup.admin].exists
    /\ \A t \in Tokens : session[t] # None => user[session[t].user].exists

\* So does a request, unless it is about to insert the account; a directory
\* login knows a row only of an account without a local password.
RequestThere(r) ==
    LET u == req[r].user IN
    /\ req[r].pc \in {"verify", "passed", "failed", "recount", "answer", "enroll",
                      "confirm", "revoke", "finish", "initialize"} => user[u].exists
    /\ At(r, "accepted") /\ ~req[r].write => user[u].exists
    /\ At(r, "bootstrap") => (user[u].exists <=> ~req[r].write)
    /\ At(r, "commit") => (user[u].exists <=> ~req[r].write)
    /\ At(r, "commit") => (req[r].write <=> req[r].op = "create")
    /\ At(r, "revoke") => req[r].op # "create"
    /\ At(r, "ldap") /\ req[r].row.exists => user[u].exists /\ ~user[u].local
    /\ At(r, "accepted") /\ req[r].write =>
          IF user[u].exists THEN ~user[u].local
          ELSE req[r].row = NewUser(FALSE, req[r].row.role)

\* The unique index on usernames: two requests that insert the same account
\* are one.
InsertsAlone ==
    \A r, q \in Requests :
        /\ r # q /\ req[r].write /\ req[q].write
        /\ req[r].user = req[q].user
        => user[req[r].user].exists

AccountInv == RowsThere /\ NamedThere /\ (\A r \in Requests : RequestThere(r)) /\ InsertsAlone

-----------------------------------------------------------------------------
\* An unused recovery code was generated, for one account.
CodesApart ==
    \A u \in Users :
        /\ user[u].codes \subseteq issued
        /\ \A v \in Users : u # v => user[u].codes \cap user[v].codes = {}

\* A request that presents one holds the account's codes, and nobody else
\* presents it or has presented it.
CodeClaimed(r) ==
    LET c == req[r].code IN
    /\ At(r, "initialize") \/ (At(r, "commit") /\ req[r].op = "reset") =>
          codeLock[req[r].user] = r
    /\ c # None =>
          /\ codeLock[req[r].user] = r
          /\ c \in issued /\ redeemed[c] = 0
          /\ \A v \in Users : c \in user[v].codes => v = req[r].user
          /\ \A q \in Requests : req[q].code = c => q = r

\* A code that was redeemed is nobody's any more.
CodeSpent(c) ==
    /\ redeemed[c] <= 1
    /\ redeemed[c] = 1 =>
          /\ c \in issued
          /\ \A v \in Users : c \notin user[v].codes
          /\ \A q \in Requests : req[q].code # c

CodeInv ==
    CodesApart /\ (\A r \in Requests : CodeClaimed(r)) /\ (\A c \in Codes : CodeSpent(c))

-----------------------------------------------------------------------------
Mandatory(u) == user[u].local /\ user[u].role \in MfaMandatoryRoles

\* The row a login read is as strict as the account, unless the role changed
\* since.
ReadStrict(r) ==
    At(r, "accepted") /\ Mandatory(req[r].user) =>
        req[r].row.role \in MfaMandatoryRoles \/ req[r].overtaken

\* When a role is about to change, no session without a second factor is left.
RevokedFirst(r) ==
    \A t \in Tokens :
        /\ At(r, "commit") /\ ChangesRole(r)
        /\ session[t] # None /\ session[t].user = req[r].user
        => session[t].factor \/ session[t].overtaken

FactorInv == SecondFactorHeld /\ \A r \in Requests : ReadStrict(r) /\ RevokedFirst(r)

-----------------------------------------------------------------------------
\* The premise of SomeActiveAdmin: nobody logs in, one request administers.
OneConsole == use.callers = {} /\ Cardinality(use.consoles) <= 1

\* A request that may take an administrator away.
Demotes(r) ==
    /\ req[r].pc \in {"revoke", "commit"}
    /\ req[r].op = "disable" \/ (req[r].op = "role" /\ req[r].role # "ADMIN")

AdminInv ==
    /\ \A r \in Requests : Demotes(r) => r \in use.consoles
    /\ OneConsole =>
          /\ \A r \in Requests : req[r].pc \notin {"login", "ldap", "accepted"}
          /\ setup.initialized \/ setup.admin # None => ActiveAdmins # {}
          /\ \A r \in Requests : Demotes(r) => \E v \in ActiveAdmins : v # req[r].user

-----------------------------------------------------------------------------
\* Wrong attempts at a username not counted yet, and requests that may still
\* find one.
Uncounted(n) == {r \in Requests : At(r, "rejected") /\ req[r].user = n}

Trying(n) ==
    {r \in Requests : \/ req[r].pc \in {"login", "ldap"} /\ req[r].user = n
                      \/ At(r, "setup") /\ n = SetupKey}

\* Below the limit every wrong attempt is counted, is about to be, or was a
\* dead request's; at the limit only those under way can add to them.
Attempts(n) ==
    /\ fails[n] < MaxLoginFailures =>
          tried[n] <= fails[n] + Cardinality(Uncounted(n)) + crashes
    /\ fails[n] >= MaxLoginFailures =>
          tried[n] + Cardinality(Trying(n))
             <= MaxLoginFailures - 1 + Cardinality(Requests) + crashes

AttemptInv == \A n \in Names : Attempts(n)

-----------------------------------------------------------------------------
\* Rows.
LEMMA NewUserType ==
    ASSUME NEW local \in BOOLEAN, NEW role \in RoleName
    PROVE  /\ NewUser(local, role) \in UserRows
           /\ NewUser(local, role).exists /\ NewUser(local, role).active
           /\ NewUser(local, role).local = local /\ NewUser(local, role).role = role
           /\ NewUser(local, role).codes = {} /\ ~NewUser(local, role).mfa
  BY DEF NewUser, UserRows

LEMMA NoUserType ==
    /\ NoUser \in UserRows
    /\ ~NoUser.exists /\ ~NoUser.active /\ ~NoUser.local /\ ~NoUser.mfa
    /\ NoUser.codes = {} /\ NoUser.role = "USER"
  BY DEF NoUser, NewUser, UserRows, RoleName

\* What each administrative operation leaves of the row.
LEMMA WrittenType ==
    ASSUME NEW op \in AdminOps, NEW loaded \in UserRows, NEW row \in UserRows,
           NEW role \in RoleName
    PROVE  Written(op, loaded, row, role) \in UserRows
<1>1. CASE op = "disable"
  BY <1>1 DEF Written, UserRows
<1>2. CASE op = "enable"
  BY <1>2 DEF Written, UserRows
<1>3. CASE op = "role"
  BY <1>3 DEF Written, UserRows
<1>4. CASE op = "create"
  BY <1>4, NewUserType DEF Written
<1>5. CASE op = "reset"
  BY <1>5 DEF Written, UserRows
<1>6. CASE op \in {"lock", "unlock"}
  BY <1>6 DEF Written, UserRows
<1> QED
  BY <1>1, <1>2, <1>3, <1>4, <1>5, <1>6 DEF AdminOps

LEMMA WrittenKeeps ==
    ASSUME NEW op \in AdminOps, NEW loaded \in UserRows, NEW row \in UserRows,
           NEW role \in RoleName
    PROVE  op # "create" => /\ Written(op, loaded, row, role).exists = row.exists
                            /\ Written(op, loaded, row, role).local = row.local
<1>1. CASE op = "disable"
  BY <1>1 DEF Written, UserRows
<1>2. CASE op = "enable"
  BY <1>2 DEF Written, UserRows
<1>3. CASE op = "role"
  BY <1>3 DEF Written, UserRows
<1>4. CASE op = "create"
  BY <1>4, NewUserType DEF Written
<1>5. CASE op = "reset"
  BY <1>5 DEF Written, UserRows
<1>6. CASE op \in {"lock", "unlock"}
  BY <1>6 DEF Written, UserRows
<1> QED
  BY <1>1, <1>2, <1>3, <1>4, <1>5, <1>6 DEF AdminOps

LEMMA WrittenRole ==
    ASSUME NEW op \in AdminOps, NEW loaded \in UserRows, NEW row \in UserRows,
           NEW role \in RoleName
    PROVE  /\ op \notin {"role", "create"} => Written(op, loaded, row, role).role = row.role
           /\ op = "role" /\ loaded.role = role => Written(op, loaded, row, role).role = row.role
           /\ op = "role" /\ loaded.role # role => Written(op, loaded, row, role).role = role
<1>1. CASE op = "disable"
  BY <1>1 DEF Written, UserRows
<1>2. CASE op = "enable"
  BY <1>2 DEF Written, UserRows
<1>3. CASE op = "role"
  BY <1>3 DEF Written, UserRows
<1>4. CASE op = "create"
  BY <1>4, NewUserType DEF Written
<1>5. CASE op = "reset"
  BY <1>5 DEF Written, UserRows
<1>6. CASE op \in {"lock", "unlock"}
  BY <1>6 DEF Written, UserRows
<1> QED
  BY <1>1, <1>2, <1>3, <1>4, <1>5, <1>6 DEF AdminOps

LEMMA WrittenCodes ==
    ASSUME NEW op \in AdminOps, NEW loaded \in UserRows, NEW row \in UserRows,
           NEW role \in RoleName
    PROVE  /\ Written(op, loaded, row, role).codes \subseteq row.codes
           /\ op = "reset" => Written(op, loaded, row, role).codes = {}
<1>1. CASE op = "disable"
  BY <1>1 DEF Written, UserRows
<1>2. CASE op = "enable"
  BY <1>2 DEF Written, UserRows
<1>3. CASE op = "role"
  BY <1>3 DEF Written, UserRows
<1>4. CASE op = "create"
  BY <1>4, NewUserType DEF Written
<1>5. CASE op = "reset"
  BY <1>5 DEF Written, UserRows
<1>6. CASE op \in {"lock", "unlock"}
  BY <1>6 DEF Written, UserRows
<1> QED
  BY <1>1, <1>2, <1>3, <1>4, <1>5, <1>6 DEF AdminOps

LEMMA WrittenActive ==
    ASSUME NEW op \in AdminOps, NEW loaded \in UserRows, NEW row \in UserRows,
           NEW role \in RoleName
    PROVE  /\ op \notin {"disable", "enable", "create"} => Written(op, loaded, row, role).active = row.active
           /\ op \in {"enable", "create"} /\ row.active => Written(op, loaded, row, role).active
<1>1. CASE op = "disable"
  BY <1>1 DEF Written, UserRows
<1>2. CASE op = "enable"
  BY <1>2 DEF Written, UserRows
<1>3. CASE op = "role"
  BY <1>3 DEF Written, UserRows
<1>4. CASE op = "create"
  BY <1>4, NewUserType DEF Written
<1>5. CASE op = "reset"
  BY <1>5 DEF Written, UserRows
<1>6. CASE op \in {"lock", "unlock"}
  BY <1>6 DEF Written, UserRows
<1> QED
  BY <1>1, <1>2, <1>3, <1>4, <1>5, <1>6 DEF AdminOps

LEMMA SpendType ==
    ASSUME user \in [Users -> UserRows], NEW u \in Users, NEW c,
           user' = [user EXCEPT ![u].codes = @ \ {c}]
    PROVE  /\ user' \in [Users -> UserRows]
           /\ \A v \in Users : v # u => user'[v] = user[v]
           /\ user'[u].exists = user[u].exists /\ user'[u].local = user[u].local
           /\ user'[u].role = user[u].role /\ user'[u].active = user[u].active
           /\ user'[u].mfa = user[u].mfa /\ user'[u].codes = user[u].codes \ {c}
<1> DEFINE row == [user[u] EXCEPT !.codes = user[u].codes \ {c}]
<1>1. /\ row \in UserRows
      /\ row.exists = user[u].exists /\ row.local = user[u].local
      /\ row.role = user[u].role /\ row.active = user[u].active
      /\ row.mfa = user[u].mfa /\ row.codes = user[u].codes \ {c}
  BY DEF UserRows
<1>2. user' = [user EXCEPT ![u] = row]
  OBVIOUS
<1> HIDE DEF row
<1> QED
  BY <1>1, <1>2

LEMMA EnrolledType ==
    ASSUME NEW row \in UserRows, NEW k \in Codes
    PROVE  /\ Enrolled(row, k) \in UserRows
           /\ Enrolled(row, k).exists = row.exists /\ Enrolled(row, k).local = row.local
           /\ Enrolled(row, k).role = row.role /\ Enrolled(row, k).active = row.active
           /\ Enrolled(row, k).codes = {k}
  BY DEF Enrolled, UserRows

LEMMA FreshType ==
    /\ \A t \in Fresh : t \in Tokens /\ t \notin issued
    /\ \A k \in FreshCodes : k \in Codes /\ k \notin issued
  BY DEF Fresh, FreshCodes, Drawn

LEMMA ResolveRoleType ==
    ASSUME NEW mapped
    PROVE  ResolveRole(mapped) \in RoleName
  BY DEF ResolveRole, RoleName

-----------------------------------------------------------------------------
\* Requests.
LEMMA IdleType == Idle \in Handlers /\ Shape(Idle)
  BY NoUserType DEF Idle, Handlers, Points, RoleName, Shape

\* A request that goes on as a well-formed one leaves all of them so.
LEMMA GoType ==
    ASSUME TypeInv, NEW r \in Requests, NEW q \in Handlers, Shape(q), Go(r, q)
    PROVE  req' \in [Requests -> Handlers] /\ \A p \in Requests : Shape(req'[p])
  BY DEF Go, TypeInv, TypeOK, StoreTypeOK

LEMMA FinishType ==
    ASSUME TypeInv, NEW r \in Requests, Finish(r)
    PROVE  req' \in [Requests -> Handlers] /\ \A p \in Requests : Shape(req'[p])
  BY GoType, IdleType DEF Finish

LEMMA RejectType ==
    ASSUME TypeInv, NEW r \in Requests, NEW n \in Names, Reject(r, n)
    PROVE  /\ req' \in [Requests -> Handlers] /\ \A p \in Requests : Shape(req'[p])
           /\ tried' \in [Names -> Nat]
<1> DEFINE q == [Idle EXCEPT !.pc = "rejected", !.user = n]
<1>1. q \in Handlers /\ Shape(q)
  BY NoUserType DEF Idle, Handlers, Points, RoleName, Shape
<1>2. req' \in [Requests -> Handlers] /\ \A p \in Requests : Shape(req'[p])
  BY <1>1, GoType DEF Reject
<1> QED
  BY <1>2 DEF Reject, TypeInv, TypeOK, StoreTypeOK

\* What TypeInv says without the requests.
LEMMA KeepType ==
    ASSUME TypeInv,
           user' \in [Users -> UserRows],
           codeLock' \in [Users -> Requests \cup {None}],
           session' \in [Tokens -> Logins \cup {None}],
           pending' \in [Tokens -> Challenges \cup {None}],
           fails' \in [Names -> Nat],
           expires' \in [Names -> BOOLEAN],
           tried' \in [Names -> Nat],
           issued' \subseteq Tokens \cup Codes,
           use' = use,
           req' \in [Requests -> Handlers],
           \A p \in Requests : Shape(req'[p]),
           ldapRow' \in LdapRows,
           redeemed' \in [Codes -> Nat],
           setup' \in SetupRows,
           setupLock' \in Requests \cup {None},
           bootstraps' \in Nat,
           crashes' \in Nat
    PROVE  TypeInv'
  BY DEF TypeInv, TypeOK, StoreTypeOK, Shape

LEMMA TypeFacts ==
    ASSUME TypeInv
    PROVE  /\ user \in [Users -> UserRows]
           /\ codeLock \in [Users -> Requests \cup {None}]
           /\ session \in [Tokens -> Logins \cup {None}]
           /\ pending \in [Tokens -> Challenges \cup {None}]
           /\ fails \in [Names -> Nat]
           /\ expires \in [Names -> BOOLEAN]
           /\ tried \in [Names -> Nat]
           /\ issued \subseteq Tokens \cup Codes
           /\ use \in Uses
           /\ req \in [Requests -> Handlers]
           /\ \A p \in Requests : Shape(req[p])
           /\ ldapRow \in LdapRows
           /\ redeemed \in [Codes -> Nat]
           /\ setup \in SetupRows
           /\ setupLock \in Requests \cup {None}
           /\ bootstraps \in Nat
           /\ crashes \in Nat
  BY DEF TypeInv, TypeOK, StoreTypeOK

LEMMA ClearType ==
    ASSUME TypeInv, NEW n \in Names, ClearFailures(n)
    PROVE  fails' \in [Names -> Nat] /\ expires' \in [Names -> BOOLEAN] /\ tried' \in [Names -> Nat]
  BY TypeFacts DEF ClearFailures

LEMMA OpenType ==
    ASSUME TypeInv, NEW t \in Tokens, NEW u \in Users, NEW factor \in BOOLEAN,
           NEW held \in BOOLEAN, NEW overtaken \in BOOLEAN,
           Open(t, u, factor, held, overtaken)
    PROVE  session' \in [Tokens -> Logins \cup {None}]
  BY TypeFacts DEF Open, Logins

LEMMA NewChallenge ==
    ASSUME NEW u \in Users
    PROVE  [user |-> u, attempts |-> 0] \in Challenges
<1>1. 0 \in 0 .. MaxMfaAttempts - 1
  BY LimitAssumption
<1> QED
  BY <1>1 DEF Challenges

LEMMA DropType ==
    ASSUME TypeInv, NEW t \in Tokens, Drop(t)
    PROVE  pending' \in [Tokens -> Challenges \cup {None}]
  BY TypeFacts DEF Drop

LEMMA HoldType ==
    ASSUME TypeInv, NEW t \in Tokens,
           session' = [session EXCEPT ![t] = IF @ = None THEN None ELSE [@ EXCEPT !.held = TRUE]]
    PROVE  session' \in [Tokens -> Logins \cup {None}]
  BY TypeFacts DEF Logins

-----------------------------------------------------------------------------
\* Where a step of request r takes it, and what it carries there; the others
\* stay where they are.
Moves(r, pc, u, op, code, write) ==
    /\ req' \in [Requests -> Handlers]
    /\ \A q \in Requests : q # r => req'[q] = req[q]
    /\ req'[r].pc = pc /\ req'[r].user = u /\ req'[r].op = op
    /\ req'[r].code = code /\ req'[r].write = write

LEMMA IdleFields ==
    /\ Idle.pc = "idle" /\ Idle.op = "none" /\ Idle.user = None /\ Idle.tok = None
    /\ Idle.row = NoUser /\ Idle.role = "USER" /\ Idle.code = None /\ Idle.attempts = 0
    /\ Idle.write = FALSE /\ Idle.overtaken = FALSE
  BY DEF Idle

LEMMA StepMoves ==
    ASSUME TypeInv, NEW r \in Requests, NEW pc \in Points,
           Step(r, pc)
    PROVE  /\ Moves(r, pc, req[r].user, req[r].op, req[r].code, req[r].write)
           /\ req'[r].tok = req[r].tok /\ req'[r].row = req[r].row
           /\ req'[r].role = req[r].role /\ req'[r].overtaken = req[r].overtaken
<1> DEFINE n0 == [req[r] EXCEPT !.pc = pc]
<1>g. req' = [req EXCEPT ![r] = n0] /\ req \in [Requests -> Handlers]
  BY TypeFacts DEF Go, Step
<1>0. /\ n0 \in Handlers /\ n0.pc = pc
      /\ n0.op = req[r].op /\ n0.user = req[r].user /\ n0.tok = req[r].tok /\ n0.row = req[r].row
      /\ n0.role = req[r].role /\ n0.code = req[r].code /\ n0.attempts = req[r].attempts /\ n0.write = req[r].write
      /\ n0.overtaken = req[r].overtaken
  BY <1>g DEF Handlers
<1> HIDE DEF n0
<1> QED
  BY <1>g, <1>0 DEF Moves

LEMMA GoRow ==
    ASSUME TypeInv, NEW r \in Requests, NEW pc \in Points, NEW row \in UserRows,
           Go(r, [req[r] EXCEPT !.pc = pc, !.row = row])
    PROVE  /\ Moves(r, pc, req[r].user, req[r].op, req[r].code, req[r].write)
           /\ req'[r].row = row /\ req'[r].tok = req[r].tok /\ req'[r].overtaken = req[r].overtaken
<1> DEFINE n0 == [req[r] EXCEPT !.pc = pc]
           n1 == [n0 EXCEPT !.row = row]
<1>g. req' = [req EXCEPT ![r] = n1] /\ req \in [Requests -> Handlers]
  BY TypeFacts DEF Go
<1>0. /\ n0 \in Handlers /\ n0.pc = pc
      /\ n0.op = req[r].op /\ n0.user = req[r].user /\ n0.tok = req[r].tok /\ n0.row = req[r].row
      /\ n0.role = req[r].role /\ n0.code = req[r].code /\ n0.attempts = req[r].attempts /\ n0.write = req[r].write
      /\ n0.overtaken = req[r].overtaken
  BY <1>g DEF Handlers
<1> HIDE DEF n0
<1>1. /\ n1 \in Handlers /\ n1.pc = n0.pc /\ n1.row = row
      /\ n1.op = n0.op /\ n1.user = n0.user /\ n1.tok = n0.tok /\ n1.role = n0.role
      /\ n1.code = n0.code /\ n1.attempts = n0.attempts /\ n1.write = n0.write /\ n1.overtaken = n0.overtaken
  BY <1>0 DEF Handlers
<1> HIDE DEF n1
<1> QED
  BY <1>g, <1>0, <1>1 DEF Moves

LEMMA GoWrite ==
    ASSUME TypeInv, NEW r \in Requests, NEW pc \in Points,
           NEW row \in UserRows, NEW write \in BOOLEAN,
           Go(r, [req[r] EXCEPT !.pc = pc, !.row = row, !.write = write])
    PROVE  /\ Moves(r, pc, req[r].user, req[r].op, req[r].code, write)
           /\ req'[r].row = row /\ req'[r].tok = req[r].tok /\ req'[r].overtaken = req[r].overtaken
<1> DEFINE n0 == [req[r] EXCEPT !.pc = pc]
           n1 == [n0 EXCEPT !.row = row]
           n2 == [n1 EXCEPT !.write = write]
<1>g. req' = [req EXCEPT ![r] = n2] /\ req \in [Requests -> Handlers]
  BY TypeFacts DEF Go
<1>0. /\ n0 \in Handlers /\ n0.pc = pc
      /\ n0.op = req[r].op /\ n0.user = req[r].user /\ n0.tok = req[r].tok /\ n0.row = req[r].row
      /\ n0.role = req[r].role /\ n0.code = req[r].code /\ n0.attempts = req[r].attempts /\ n0.write = req[r].write
      /\ n0.overtaken = req[r].overtaken
  BY <1>g DEF Handlers
<1> HIDE DEF n0
<1>1. /\ n1 \in Handlers /\ n1.pc = n0.pc /\ n1.row = row
      /\ n1.op = n0.op /\ n1.user = n0.user /\ n1.tok = n0.tok /\ n1.role = n0.role
      /\ n1.code = n0.code /\ n1.attempts = n0.attempts /\ n1.write = n0.write /\ n1.overtaken = n0.overtaken
  BY <1>0 DEF Handlers
<1> HIDE DEF n1
<1>2. /\ n2 \in Handlers /\ n2.pc = n1.pc /\ n2.write = write
      /\ n2.op = n1.op /\ n2.user = n1.user /\ n2.tok = n1.tok /\ n2.row = n1.row
      /\ n2.role = n1.role /\ n2.code = n1.code /\ n2.attempts = n1.attempts /\ n2.overtaken = n1.overtaken
  BY <1>1 DEF Handlers
<1> HIDE DEF n2
<1> QED
  BY <1>g, <1>0, <1>1, <1>2 DEF Moves

LEMMA GoCode ==
    ASSUME TypeInv, NEW r \in Requests, NEW pc \in Points, NEW code \in Codes \cup {None},
           Go(r, [req[r] EXCEPT !.pc = pc, !.code = code])
    PROVE  /\ Moves(r, pc, req[r].user, req[r].op, code, req[r].write)
           /\ req'[r].tok = req[r].tok
<1> DEFINE n0 == [req[r] EXCEPT !.pc = pc]
           n1 == [n0 EXCEPT !.code = code]
<1>g. req' = [req EXCEPT ![r] = n1] /\ req \in [Requests -> Handlers]
  BY TypeFacts DEF Go
<1>0. /\ n0 \in Handlers /\ n0.pc = pc
      /\ n0.op = req[r].op /\ n0.user = req[r].user /\ n0.tok = req[r].tok /\ n0.row = req[r].row
      /\ n0.role = req[r].role /\ n0.code = req[r].code /\ n0.attempts = req[r].attempts /\ n0.write = req[r].write
      /\ n0.overtaken = req[r].overtaken
  BY <1>g DEF Handlers
<1> HIDE DEF n0
<1>1. /\ n1 \in Handlers /\ n1.pc = n0.pc /\ n1.code = code
      /\ n1.op = n0.op /\ n1.user = n0.user /\ n1.tok = n0.tok /\ n1.row = n0.row
      /\ n1.role = n0.role /\ n1.attempts = n0.attempts /\ n1.write = n0.write /\ n1.overtaken = n0.overtaken
  BY <1>0 DEF Handlers
<1> HIDE DEF n1
<1> QED
  BY <1>g, <1>0, <1>1 DEF Moves

LEMMA GoAttempts ==
    ASSUME TypeInv, NEW r \in Requests, NEW pc \in Points, NEW attempts \in Nat,
           Go(r, [req[r] EXCEPT !.pc = pc, !.attempts = attempts])
    PROVE  /\ Moves(r, pc, req[r].user, req[r].op, req[r].code, req[r].write)
           /\ req'[r].attempts = attempts /\ req'[r].tok = req[r].tok
<1> DEFINE n0 == [req[r] EXCEPT !.pc = pc]
           n1 == [n0 EXCEPT !.attempts = attempts]
<1>g. req' = [req EXCEPT ![r] = n1] /\ req \in [Requests -> Handlers]
  BY TypeFacts DEF Go
<1>0. /\ n0 \in Handlers /\ n0.pc = pc
      /\ n0.op = req[r].op /\ n0.user = req[r].user /\ n0.tok = req[r].tok /\ n0.row = req[r].row
      /\ n0.role = req[r].role /\ n0.code = req[r].code /\ n0.attempts = req[r].attempts /\ n0.write = req[r].write
      /\ n0.overtaken = req[r].overtaken
  BY <1>g DEF Handlers
<1> HIDE DEF n0
<1>1. /\ n1 \in Handlers /\ n1.pc = n0.pc /\ n1.attempts = attempts
      /\ n1.op = n0.op /\ n1.user = n0.user /\ n1.tok = n0.tok /\ n1.row = n0.row
      /\ n1.role = n0.role /\ n1.code = n0.code /\ n1.write = n0.write /\ n1.overtaken = n0.overtaken
  BY <1>0 DEF Handlers
<1> HIDE DEF n1
<1> QED
  BY <1>g, <1>0, <1>1 DEF Moves

LEMMA FinishMoves ==
    ASSUME TypeInv, NEW r \in Requests, Finish(r)
    PROVE  Moves(r, "idle", None, "none", None, FALSE)
  BY TypeFacts, IdleType, IdleFields DEF Finish, Go, Moves

LEMMA RejectMoves ==
    ASSUME TypeInv, NEW r \in Requests, NEW n \in Names, Reject(r, n)
    PROVE  Moves(r, "rejected", n, "none", None, FALSE)
<1> DEFINE q == [Idle EXCEPT !.pc = "rejected", !.user = n]
<1>1. q \in Handlers /\ q.pc = "rejected" /\ q.user = n /\ q.op = "none" /\ q.code = None
        /\ q.write = FALSE
  BY NoUserType DEF Idle, Handlers, Points, RoleName
<1>2. req' = [req EXCEPT ![r] = q]
  BY DEF Reject, Go
<1> HIDE DEF q
<1> QED
  BY <1>1, <1>2, TypeFacts DEF Moves

LEMMA LocalAuthenticateMoves ==
    ASSUME TypeInv, NEW r \in Requests, NEW matches \in BOOLEAN, LocalAuthenticate(r, matches)
    PROVE  LET u == req[r].user IN
           /\ req[r].pc = "login" /\ u \in Users /\ u \in Names
           /\ \/ /\ Moves(r, "accepted", u, req[r].op, None, FALSE)
                 /\ req'[r].row = user[u] /\ req'[r].overtaken = req[r].overtaken
                 /\ user[u].exists /\ user[u].active /\ user[u].local
                 /\ tried' = tried
              \/ /\ Moves(r, "rejected", u, "none", None, FALSE)
                 /\ tried' = [tried EXCEPT ![u] = @ + 1]
              \/ /\ Moves(r, "ldap", u, req[r].op, None, FALSE)
                 /\ req'[r].row = user[u] /\ req'[r].overtaken = req[r].overtaken
                 /\ ~(user[u].exists /\ user[u].local)
                 /\ tried' = tried
<1> DEFINE u == req[r].user
<1>0. /\ req[r].pc = "login" /\ u \in Users /\ u \in Names /\ user[u] \in UserRows
      /\ req[r].code = None /\ req[r].write = FALSE
  BY TypeFacts DEF LocalAuthenticate, At, Shape, Names, Handlers
<1>1. \/ /\ Go(r, [req[r] EXCEPT !.pc = "accepted", !.row = user[u]])
         /\ user[u].exists /\ user[u].active /\ user[u].local
         /\ tried' = tried
      \/ Reject(r, u)
      \/ /\ Go(r, [req[r] EXCEPT !.pc = "ldap", !.row = user[u]])
         /\ ~(user[u].exists /\ user[u].local)
         /\ tried' = tried
  BY DEF LocalAuthenticate
<1>2. ASSUME NEW pc \in {"accepted", "ldap"}, Go(r, [req[r] EXCEPT !.pc = pc, !.row = user[u]])
      PROVE  /\ Moves(r, pc, req[r].user, req[r].op, req[r].code, req[r].write)
             /\ req'[r].row = user[u] /\ req'[r].overtaken = req[r].overtaken
  <2>1. pc \in Points
    BY DEF Points
  <2> QED
    BY <1>0, <1>2, <2>1, GoRow, Zenon
<1>3. CASE Reject(r, u)
  <2>1. Moves(r, "rejected", u, "none", None, FALSE)
    BY <1>0, <1>3, RejectMoves
  <2> QED
    BY <1>0, <1>3, <2>1 DEF Reject
<1>4. ASSUME Go(r, [req[r] EXCEPT !.pc = "accepted", !.row = user[u]])
      PROVE  /\ Moves(r, "accepted", u, req[r].op, None, FALSE)
             /\ req'[r].row = user[u] /\ req'[r].overtaken = req[r].overtaken
  <2>1. Moves(r, "accepted", req[r].user, req[r].op, req[r].code, req[r].write)
        /\ req'[r].row = user[u] /\ req'[r].overtaken = req[r].overtaken
    BY <1>2, <1>4, Zenon
  <2> QED
    BY <1>0, <2>1
<1>5. ASSUME Go(r, [req[r] EXCEPT !.pc = "ldap", !.row = user[u]])
      PROVE  /\ Moves(r, "ldap", u, req[r].op, None, FALSE)
             /\ req'[r].row = user[u] /\ req'[r].overtaken = req[r].overtaken
  <2>1. Moves(r, "ldap", req[r].user, req[r].op, req[r].code, req[r].write)
        /\ req'[r].row = user[u] /\ req'[r].overtaken = req[r].overtaken
    BY <1>2, <1>5, Zenon
  <2> QED
    BY <1>0, <2>1
<1> QED
  BY <1>0, <1>1, <1>3, <1>4, <1>5, Zenon

LEMMA LdapBindsMoves ==
    ASSUME TypeInv, NEW r \in Requests, NEW mapped \in SUBSET RoleName, LdapBinds(r, mapped)
    PROVE  LET u == req[r].user
               row == IF req[r].row.exists THEN req[r].row ELSE user[u]
           IN
           /\ req[r].pc = "ldap" /\ u \in Users /\ u \in Names
           /\ \/ /\ row.exists /\ row.active
                 /\ \E write \in BOOLEAN :
                       /\ Moves(r, "accepted", u, req[r].op, None, write)
                       /\ write => ~row.local
                       /\ ~write => req'[r].row.role = row.role
                 /\ req'[r].overtaken = req[r].overtaken
                 /\ tried' = tried
              \/ /\ Moves(r, "rejected", u, "none", None, FALSE)
                 /\ tried' = [tried EXCEPT ![u] = @ + 1]
              \/ /\ ~row.exists /\ ~Inserting(u)
                 /\ Moves(r, "accepted", u, req[r].op, None, TRUE)
                 /\ req'[r].row = NewUser(FALSE, req'[r].row.role)
                 /\ req'[r].overtaken = req[r].overtaken
                 /\ tried' = tried
              \/ Moves(r, "idle", None, "none", None, FALSE) /\ tried' = tried
<1> DEFINE u == req[r].user
           role == ResolveRole(mapped)
           row == IF req[r].row.exists THEN req[r].row ELSE user[u]
           changes == Relabels(row, role)
           known == [row EXCEPT !.role = IF changes THEN role ELSE @]
<1>0. /\ req[r].pc = "ldap" /\ u \in Users /\ u \in Names /\ user[u] \in UserRows
      /\ req[r].row \in UserRows /\ req[r].code = None
  BY TypeFacts DEF LdapBinds, At, Shape, Names, Handlers
<1>1. row \in UserRows /\ role \in RoleName
  BY <1>0, ResolveRoleType
<1>2. changes \in BOOLEAN /\ (changes => ~row.local)
  BY <1>1 DEF Relabels, UserRows
<1>3. known \in UserRows /\ (~changes => known.role = row.role)
  <2> HIDE DEF row, role, changes
  <2> QED
    BY <1>1, <1>2 DEF UserRows
<1>4. NewUser(FALSE, role) \in UserRows /\ NewUser(FALSE, role).role = role
  BY <1>1, NewUserType
<1>5. \/ /\ row.exists /\ row.active
         /\ Go(r, [req[r] EXCEPT !.pc = "accepted", !.row = known, !.write = changes])
         /\ tried' = tried
      \/ Reject(r, u)
      \/ /\ ~row.exists /\ ~Inserting(u)
         /\ Go(r, [req[r] EXCEPT !.pc = "accepted", !.row = NewUser(FALSE, role), !.write = TRUE])
         /\ tried' = tried
      \/ Finish(r) /\ tried' = tried
  BY DEF LdapBinds
<1>p. "accepted" \in Points
  BY DEF Points
<1> HIDE DEF known, changes, role
<1>6. ASSUME Go(r, [req[r] EXCEPT !.pc = "accepted", !.row = known, !.write = changes])
      PROVE  /\ Moves(r, "accepted", u, req[r].op, None, changes)
             /\ req'[r].row = known /\ req'[r].overtaken = req[r].overtaken
  <2>1. /\ Moves(r, "accepted", req[r].user, req[r].op, req[r].code, changes)
        /\ req'[r].row = known /\ req'[r].overtaken = req[r].overtaken
    <3>1. known \in UserRows /\ changes \in BOOLEAN
      BY <1>2, <1>3
    <3> QED
      BY <1>6, <1>p, <3>1, GoWrite, Zenon
  <2> QED
    BY <1>0, <2>1
<1>7. ASSUME Go(r, [req[r] EXCEPT !.pc = "accepted", !.row = NewUser(FALSE, role), !.write = TRUE])
      PROVE  /\ Moves(r, "accepted", u, req[r].op, None, TRUE)
             /\ req'[r].row = NewUser(FALSE, role) /\ req'[r].overtaken = req[r].overtaken
  <2>1. /\ Moves(r, "accepted", req[r].user, req[r].op, req[r].code, TRUE)
        /\ req'[r].row = NewUser(FALSE, role) /\ req'[r].overtaken = req[r].overtaken
    BY <1>4, <1>7, <1>p, GoWrite, Zenon
  <2> QED
    BY <1>0, <2>1
<1>8. CASE Reject(r, u)
  <2>1. Moves(r, "rejected", u, "none", None, FALSE)
    BY <1>0, <1>8, RejectMoves
  <2> QED
    BY <1>0, <1>8, <2>1 DEF Reject
<1>9. CASE Finish(r) /\ tried' = tried
  BY <1>0, <1>9, FinishMoves
<1>10. CASE /\ row.exists /\ row.active
            /\ Go(r, [req[r] EXCEPT !.pc = "accepted", !.row = known, !.write = changes])
            /\ tried' = tried
  BY <1>0, <1>2, <1>3, <1>6, <1>10, Zenon
<1>11. CASE /\ ~row.exists /\ ~Inserting(u)
            /\ Go(r, [req[r] EXCEPT !.pc = "accepted", !.row = NewUser(FALSE, role), !.write = TRUE])
            /\ tried' = tried
  <2>1. req'[r].row = NewUser(FALSE, req'[r].row.role)
    BY <1>4, <1>7, <1>11
  <2> QED
    BY <1>0, <1>7, <1>11, <2>1, Zenon
<1> QED
  BY <1>5, <1>8, <1>9, <1>10, <1>11, Zenon

\* The requests a step finds at work have an account.
LEMMA HasUser ==
    ASSUME TypeInv, NEW r \in Requests
    PROVE  /\ ~Free(r) => req[r].user \in Names
           /\ req[r].pc \notin {"idle", "rejected", "expire"} => req[r].user \in Users
           /\ req[r].pc \in {"verify", "passed", "failed", "recount", "answer", "finish",
                             "initialize"} => req[r].tok \in Tokens
           /\ req[r] \in Handlers
           /\ req[r].pc \notin {"passed", "answer", "revoke", "commit"} => req[r].code = None
           /\ req[r].pc \notin {"accepted", "bootstrap", "commit"} => req[r].write = FALSE
  BY TypeFacts DEF Shape, Free, At, Handlers

LEMMA CheckFactorMoves ==
    ASSUME TypeInv, NEW r \in Requests, NEW c \in Secrets \cup Codes \cup {None}, CheckFactor(r, c)
    PROVE  LET u == req[r].user IN
           /\ req[r].pc = "verify" /\ u \in Users /\ req'[r].tok = req[r].tok
           /\ \/ /\ Moves(r, "passed", u, req[r].op, None, FALSE)
                 /\ codeLock' = codeLock
              \/ /\ Moves(r, "passed", u, req[r].op, c, FALSE)
                 /\ CodesFree(r, u) /\ c \in user[u].codes
                 /\ codeLock' = [codeLock EXCEPT ![u] = r]
              \/ /\ Moves(r, "failed", u, req[r].op, None, FALSE)
                 /\ codeLock' = codeLock
<1> DEFINE u == req[r].user
<1>0. /\ req[r].pc = "verify" /\ u \in Users /\ user[u] \in UserRows
      /\ req[r].code = None /\ req[r].write = FALSE /\ req \in [Requests -> Handlers]
  BY TypeFacts, HasUser DEF CheckFactor, At
<1>1. \/ Step(r, "passed") /\ codeLock' = codeLock
      \/ /\ CodesFree(r, u) /\ c \in user[u].codes
         /\ codeLock' = [codeLock EXCEPT ![u] = r]
         /\ Go(r, [req[r] EXCEPT !.pc = "passed", !.code = c])
      \/ Step(r, "failed") /\ codeLock' = codeLock
  BY DEF CheckFactor, RedeemsCode
<1>2. "passed" \in Points /\ "failed" \in Points
  BY DEF Points
<1>3. ASSUME NEW pc \in Points, Step(r, pc)
      PROVE  Moves(r, pc, u, req[r].op, None, FALSE) /\ req'[r].tok = req[r].tok
  BY <1>0, <1>3, StepMoves
<1>4. CASE /\ CodesFree(r, u) /\ c \in user[u].codes
           /\ codeLock' = [codeLock EXCEPT ![u] = r]
           /\ Go(r, [req[r] EXCEPT !.pc = "passed", !.code = c])
  <2>1. c \in Codes \cup {None}
    BY <1>0, <1>4 DEF UserRows
  <2>2. "passed" \in Points /\ Go(r, [req[r] EXCEPT !.pc = "passed", !.code = c])
    BY <1>2, <1>4
  <2>3. /\ Moves(r, "passed", req[r].user, req[r].op, c, req[r].write)
        /\ req'[r].tok = req[r].tok
    BY <2>1, <2>2, GoCode, Zenon
  <2> QED
    BY <1>0, <1>4, <2>3
<1> QED
  BY <1>0, <1>1, <1>2, <1>3, <1>4

LEMMA ReadAttemptsMoves ==
    ASSUME TypeInv, NEW r \in Requests, ReadAttempts(r)
    PROVE  LET u == req[r].user
               t == req[r].tok
           IN
           /\ req[r].pc = "failed" /\ u \in Users /\ t \in Tokens
           /\ \/ /\ Moves(r, "idle", None, "none", None, FALSE)
                 /\ pending' = pending \/ Drop(t)
              \/ /\ Moves(r, "recount", u, req[r].op, None, FALSE)
                 /\ req'[r].tok = t /\ req'[r].attempts \in 0 .. MaxMfaAttempts - 1
                 /\ pending' = pending
<1> DEFINE u == req[r].user
           t == req[r].tok
           n == pending[t].attempts + 1
<1>0. /\ req[r].pc = "failed" /\ u \in Users /\ t \in Tokens
      /\ req[r].code = None /\ req[r].write = FALSE
  BY HasUser DEF ReadAttempts, At
<1>1. \/ Finish(r) /\ (pending' = pending \/ Drop(t))
      \/ /\ pending[t] # None /\ ~Exhausted(n)
         /\ Go(r, [req[r] EXCEPT !.pc = "recount", !.attempts = n])
         /\ pending' = pending
  BY DEF ReadAttempts
<1>2. CASE Finish(r) /\ (pending' = pending \/ Drop(t))
  BY <1>0, <1>2, FinishMoves
<1>3. CASE /\ pending[t] # None /\ ~Exhausted(n)
           /\ Go(r, [req[r] EXCEPT !.pc = "recount", !.attempts = n])
           /\ pending' = pending
  <2>1. n \in Nat /\ n \in 0 .. MaxMfaAttempts - 1
    BY <1>0, <1>3, TypeFacts, LimitAssumption DEF Challenges, Exhausted
  <2>2. "recount" \in Points /\ Go(r, [req[r] EXCEPT !.pc = "recount", !.attempts = n])
    BY <1>3 DEF Points
  <2> HIDE DEF n
  <2>3. /\ Moves(r, "recount", req[r].user, req[r].op, req[r].code, req[r].write)
        /\ req'[r].attempts = n /\ req'[r].tok = req[r].tok
    BY <2>1, <2>2, GoAttempts, Zenon
  <2> QED
    BY <1>0, <1>3, <2>1, <2>3
<1> QED
  BY <1>1, <1>2, <1>3

LEMMA CountFailureMoves ==
    ASSUME TypeInv, NEW r \in Requests, CountFailure(r)
    PROVE  LET n == req[r].user IN
           /\ req[r].pc = "rejected" /\ n \in Names
           /\ fails' = [fails EXCEPT ![n] = @ + 1]
           /\ IF fails[n] = 0 THEN Moves(r, "expire", n, req[r].op, None, FALSE)
              ELSE Moves(r, "idle", None, "none", None, FALSE)
<1>1. "expire" \in Points
  BY DEF Points
<1>2. req[r].pc = "rejected" /\ req[r].user \in Names /\ req[r].code = None /\ req[r].write = FALSE
  BY HasUser DEF CountFailure, At, Free
<1> QED
  BY <1>1, <1>2, StepMoves, FinishMoves DEF CountFailure

LEMMA RevokeSessionsMoves ==
    ASSUME TypeInv, NEW r \in Requests, RevokeSessions(r)
    PROVE  /\ req[r].pc = "revoke" /\ req[r].user \in Users
           /\ Moves(r, "commit", req[r].user, req[r].op, req[r].code, FALSE)
           /\ req'[r].row = req[r].row /\ req'[r].role = req[r].role
<1>1. "commit" \in Points
  BY DEF Points
<1>2. req[r].pc = "revoke" /\ req[r].user \in Users /\ req[r].write = FALSE
  BY HasUser DEF RevokeSessions, At
<1> QED
  BY <1>1, <1>2, StepMoves DEF RevokeSessions

\* Others are at most marked as overtaken by a commit.
LEMMA CommitAdminMoves ==
    ASSUME TypeInv, NEW r \in Requests, CommitAdmin(r)
    PROVE  /\ req[r].pc = "commit" /\ req[r].user \in Users
           /\ req' \in [Requests -> Handlers] /\ req'[r] = Idle
           /\ \A q \in Requests : q # r =>
                 /\ req'[q].pc = req[q].pc /\ req'[q].user = req[q].user
                 /\ req'[q].op = req[q].op /\ req'[q].tok = req[q].tok
                 /\ req'[q].row = req[q].row /\ req'[q].role = req[q].role
                 /\ req'[q].code = req[q].code /\ req'[q].attempts = req[q].attempts
                 /\ req'[q].write = req[q].write
                 /\ req'[q].overtaken = (req[q].overtaken \/ (req[q].user = req[r].user
                                                              /\ ChangesRole(r)))
<1>1. req[r].pc = "commit" /\ req[r].user \in Users
  BY HasUser DEF CommitAdmin, At
<1>2. /\ DOMAIN req' = Requests
      /\ \A q \in Requests : req'[q] =
            IF q = r THEN Idle
            ELSE [req[q] EXCEPT !.overtaken = @ \/ (req[q].user = req[r].user /\ ChangesRole(r))]
      /\ req' = [q \in Requests |-> req'[q]]
  BY DEF CommitAdmin
<1>3. req'[r] = Idle
  BY <1>2
<1>4. ASSUME NEW q \in Requests, q # r
      PROVE  /\ req'[q] \in Handlers
             /\ req'[q].pc = req[q].pc /\ req'[q].user = req[q].user
             /\ req'[q].op = req[q].op /\ req'[q].tok = req[q].tok
             /\ req'[q].row = req[q].row /\ req'[q].role = req[q].role
             /\ req'[q].code = req[q].code /\ req'[q].attempts = req[q].attempts
             /\ req'[q].write = req[q].write
             /\ req'[q].overtaken = (req[q].overtaken \/ (req[q].user = req[r].user
                                                          /\ ChangesRole(r)))
  <2>1. req[q] \in Handlers
    BY TypeFacts
  <2> DEFINE late == req[q].overtaken \/ (req[q].user = req[r].user /\ ChangesRole(r))
  <2>2. late \in BOOLEAN
    BY <2>1 DEF Handlers, ChangesRole
  <2>3. req'[q] = [req[q] EXCEPT !.overtaken = late]
    BY <1>2, <1>4
  <2> HIDE DEF late
  <2>4. /\ req'[q] \in Handlers
        /\ req'[q].pc = req[q].pc /\ req'[q].user = req[q].user
        /\ req'[q].op = req[q].op /\ req'[q].tok = req[q].tok
        /\ req'[q].row = req[q].row /\ req'[q].role = req[q].role
        /\ req'[q].code = req[q].code /\ req'[q].attempts = req[q].attempts
        /\ req'[q].write = req[q].write
        /\ req'[q].overtaken = late
    BY <2>1, <2>2, <2>3 DEF Handlers
  <2> QED
    BY <2>4 DEF late
<1> QED
  BY <1>1, <1>2, <1>3, <1>4, IdleType

LEMMA StartMoves ==
    ASSUME TypeInv, NEW r \in Requests, NEW q \in Handlers, Go(r, q)
    PROVE  Moves(r, q.pc, q.user, q.op, q.code, q.write) /\ req'[r] = q
  BY TypeFacts DEF Go, Moves

LEMMA BeginLoginMoves ==
    ASSUME TypeInv, NEW r \in Requests, NEW u \in Users, BeginLogin(r, u)
    PROVE  Moves(r, "login", u, "none", None, FALSE) /\ req'[r].overtaken = FALSE
<1> DEFINE q == [Idle EXCEPT !.pc = "login", !.user = u]
<1>1. /\ q \in Handlers /\ q.pc = "login" /\ q.user = u /\ q.op = "none" /\ q.code = None
      /\ q.write = FALSE /\ q.overtaken = FALSE
  BY NoUserType DEF Idle, Handlers, Points, RoleName, Names
<1>2. Go(r, q)
  BY DEF BeginLogin
<1> HIDE DEF q
<1> QED
  BY <1>1, <1>2, StartMoves

LEMMA BeginVerifyMoves ==
    ASSUME TypeInv, NEW r \in Requests, NEW t \in Tokens, BeginVerify(r, t)
    PROVE  LET u == pending[t].user IN
           /\ u \in Users /\ Free(r)
           /\ \/ /\ Moves(r, "verify", u, "none", None, FALSE) /\ req'[r].tok = t
                 /\ user[u].active /\ pending' = pending
              \/ Drop(t) /\ req' = req
<1> DEFINE u == pending[t].user
           q == [Idle EXCEPT !.pc = "verify", !.user = u, !.tok = t, !.row = user[u]]
<1>1. u \in Users /\ user[u] \in UserRows /\ Free(r)
  BY TypeFacts DEF BeginVerify, Challenges
<1>2. \/ Go(r, q) /\ user[u].active /\ pending' = pending
      \/ Drop(t) /\ req' = req
  BY DEF BeginVerify
<1> HIDE DEF u
<1>3. /\ q \in Handlers /\ q.pc = "verify" /\ q.user = u /\ q.op = "none" /\ q.code = None
      /\ q.write = FALSE /\ q.tok = t
  BY <1>1, NoUserType DEF Idle, Handlers, Points, RoleName, Names
<1> HIDE DEF q
<1> QED
  BY <1>1, <1>2, <1>3, StartMoves DEF u

LEMMA OpenVerifiedMoves ==
    ASSUME TypeInv, NEW r \in Requests, OpenVerified(r)
    PROVE  /\ req[r].pc = "passed" /\ req[r].user \in Users /\ req[r].tok \in Tokens
           /\ \E t \in Tokens \ issued :
                 /\ issued' = issued \cup {t}
                 /\ session' = [session EXCEPT ![t] = [user |-> req[r].user, factor |-> TRUE,
                                                       held |-> FALSE, overtaken |-> FALSE]]
                 /\ Moves(r, "answer", req[r].user, "none", req[r].code, FALSE)
                 /\ req'[r].tok = t
<1>1. PICK t \in Fresh :
         /\ issued' = issued \cup {t}
         /\ Open(t, req[r].user, TRUE, FALSE, FALSE)
         /\ Go(r, [Idle EXCEPT !.pc = "answer", !.user = req[r].user, !.tok = t,
                               !.code = req[r].code])
  BY DEF OpenVerified
<1>2. /\ req[r].pc = "passed" /\ t \in Tokens /\ t \notin issued
      /\ req[r].user \in Users /\ req[r].tok \in Tokens /\ req[r].code \in Codes \cup {None}
  BY HasUser, FreshType DEF OpenVerified, At, Handlers
<1> DEFINE q == [Idle EXCEPT !.pc = "answer", !.user = req[r].user, !.tok = t,
                             !.code = req[r].code]
<1>3. /\ q \in Handlers /\ q.pc = "answer" /\ q.user = req[r].user /\ q.op = "none"
      /\ q.code = req[r].code /\ q.write = FALSE /\ q.tok = t
  BY <1>2, NoUserType DEF Idle, Handlers, Points, RoleName, Names
<1>4. Go(r, q)
  BY <1>1
<1> HIDE DEF q
<1>5. Moves(r, "answer", req[r].user, "none", req[r].code, FALSE) /\ req'[r].tok = t
  BY <1>3, <1>4, StartMoves
<1> QED
  BY <1>1, <1>2, <1>5 DEF Open

LEMMA BeginEnrolmentMoves ==
    ASSUME TypeInv, NEW r \in Requests, NEW t \in Tokens, NEW op \in {"enroll", "confirm"},
           BeginEnrolment(r, t, op)
    PROVE  LET u == session[t].user IN
           /\ u \in Users /\ Free(r) /\ user[u].active
           /\ Moves(r, op, u, "none", None, FALSE) /\ req'[r].tok = None
<1> DEFINE u == session[t].user
           q == [Idle EXCEPT !.pc = op, !.user = u, !.row = user[u]]
<1>1. u \in Users /\ user[u] \in UserRows /\ Free(r) /\ user[u].active
  BY TypeFacts DEF BeginEnrolment, CurrentUser, Logins
<1>2. Go(r, q)
  BY DEF BeginEnrolment
<1> HIDE DEF u
<1>3. /\ q \in Handlers /\ q.pc = op /\ q.user = u /\ q.op = "none" /\ q.code = None
      /\ q.write = FALSE /\ q.tok = None
  BY <1>1, NoUserType DEF Idle, Handlers, Points, RoleName, Names
<1> HIDE DEF q
<1> QED
  BY <1>1, <1>2, <1>3, StartMoves DEF u

LEMMA BeginSetupEnrolmentMoves ==
    ASSUME TypeInv, NEW r \in Requests, NEW t \in Tokens, NEW op \in {"enroll", "confirm"},
           BeginSetupEnrolment(r, t, op)
    PROVE  LET u == pending[t].user IN
           /\ u \in Users /\ Free(r)
           /\ \/ /\ Moves(r, op, u, "none", None, FALSE) /\ req'[r].tok = t
                 /\ user[u].active /\ pending' = pending
              \/ Drop(t) /\ req' = req
<1> DEFINE u == pending[t].user
           q == [Idle EXCEPT !.pc = op, !.user = u, !.row = user[u], !.tok = t]
<1>1. u \in Users /\ user[u] \in UserRows /\ Free(r)
  BY TypeFacts DEF BeginSetupEnrolment, Challenges
<1>2. \/ Go(r, q) /\ user[u].active /\ pending' = pending
      \/ Drop(t) /\ req' = req
  BY DEF BeginSetupEnrolment
<1> HIDE DEF u
<1>3. /\ q \in Handlers /\ q.pc = op /\ q.user = u /\ q.op = "none" /\ q.code = None
      /\ q.write = FALSE /\ q.tok = t
  BY <1>1, NoUserType DEF Idle, Handlers, Points, RoleName, Names
<1> HIDE DEF q
<1> QED
  BY <1>1, <1>2, <1>3, StartMoves DEF u

LEMMA BeginSetupMoves ==
    ASSUME TypeInv, NEW r \in Requests, NEW u \in Users, NEW boot \in Nat,
           BeginSetup(r, u, boot)
    PROVE  Moves(r, "setup", u, "none", None, FALSE) /\ Free(r) /\ ~Locked(SetupKey)
<1> DEFINE q == [Idle EXCEPT !.pc = "setup", !.user = u, !.attempts = boot]
<1>1. /\ q \in Handlers /\ q.pc = "setup" /\ q.user = u /\ q.op = "none" /\ q.code = None
      /\ q.write = FALSE
  BY NoUserType DEF Idle, Handlers, Points, RoleName, Names
<1>2. Go(r, q) /\ Free(r) /\ ~Locked(SetupKey)
  BY DEF BeginSetup
<1> HIDE DEF q
<1> QED
  BY <1>1, <1>2, StartMoves

LEMMA BootstrapMoves ==
    ASSUME TypeInv, NEW r \in Requests, CreateBootstrapAdmin(r)
    PROVE  /\ req[r].pc = "setup" /\ req[r].user \in Users /\ setupLock = None
           /\ \/ /\ Moves(r, "idle", None, "none", None, FALSE)
                 /\ setupLock' = setupLock
                 /\ UNCHANGED countVars \/ ClearFailures(SetupKey)
              \/ /\ Moves(r, "rejected", SetupKey, "none", None, FALSE)
                 /\ setupLock' = setupLock
                 /\ tried' = [tried EXCEPT ![SetupKey] = @ + 1]
                 /\ UNCHANGED <<fails, expires>>
              \/ /\ setup.admin # None
                 /\ Moves(r, "bootstrap", setup.admin, "none", None, FALSE)
                 /\ setupLock' = r
                 /\ ClearFailures(SetupKey)
              \/ /\ setup.admin = None
                 /\ ~user[req[r].user].exists /\ ~Inserting(req[r].user)
                 /\ Moves(r, "bootstrap", req[r].user, "none", None, TRUE)
                 /\ setupLock' = r
                 /\ ClearFailures(SetupKey)
<1> DEFINE u == req[r].user
           a == setup.admin
           p == [Idle EXCEPT !.pc = "bootstrap", !.user = a]
           q == [Idle EXCEPT !.pc = "bootstrap", !.user = u, !.write = TRUE]
<1>1. /\ req[r].pc = "setup" /\ u \in Users /\ setupLock = None
      /\ a \in Users \cup {None}
  BY TypeFacts, HasUser DEF CreateBootstrapAdmin, At, SetupUnlocked, SetupRows
<1>2. \/ Finish(r) /\ UNCHANGED countVars /\ setupLock' = setupLock
      \/ Reject(r, SetupKey) /\ UNCHANGED <<fails, expires, setupLock>>
      \/ a # None /\ Go(r, p) /\ setupLock' = r /\ ClearFailures(SetupKey)
      \/ /\ a = None /\ ~user[u].exists /\ ~Inserting(u)
         /\ Go(r, q) /\ setupLock' = r /\ ClearFailures(SetupKey)
      \/ Finish(r) /\ setupLock' = setupLock /\ ClearFailures(SetupKey)
  BY DEF CreateBootstrapAdmin, Reuses, countVars
<1> HIDE DEF a, u
<1>3. a # None => /\ p \in Handlers /\ p.pc = "bootstrap" /\ p.user = a /\ p.op = "none"
                  /\ p.code = None /\ p.write = FALSE
  BY <1>1, NoUserType DEF Idle, Handlers, Points, RoleName, Names
<1>4. /\ q \in Handlers /\ q.pc = "bootstrap" /\ q.user = u /\ q.op = "none"
      /\ q.code = None /\ q.write = TRUE
  BY <1>1, NoUserType DEF Idle, Handlers, Points, RoleName, Names
<1> HIDE DEF p, q
<1>5. CASE Finish(r) /\ setupLock' = setupLock /\ (UNCHANGED countVars \/ ClearFailures(SetupKey))
  <2>1. Moves(r, "idle", None, "none", None, FALSE)
    BY <1>5, FinishMoves
  <2> QED
    BY <1>1, <1>5, <2>1 DEF u
<1>6. CASE Reject(r, SetupKey) /\ UNCHANGED <<fails, expires, setupLock>>
  <2>1. Moves(r, "rejected", SetupKey, "none", None, FALSE)
    BY <1>6, RejectMoves DEF Names
  <2> QED
    BY <1>1, <1>6, <2>1 DEF u, Reject
<1>7. CASE a # None /\ Go(r, p) /\ setupLock' = r /\ ClearFailures(SetupKey)
  <2>1. Moves(r, "bootstrap", a, "none", None, FALSE)
    BY <1>3, <1>7, StartMoves
  <2> QED
    BY <1>1, <1>7, <2>1 DEF u, a
<1>8. CASE /\ a = None /\ ~user[u].exists /\ ~Inserting(u)
           /\ Go(r, q) /\ setupLock' = r /\ ClearFailures(SetupKey)
  <2>1. Moves(r, "bootstrap", u, "none", None, TRUE)
    BY <1>4, <1>8, StartMoves
  <2> QED
    BY <1>1, <1>8, <2>1 DEF u, a
<1> QED
  BY <1>2, <1>5, <1>6, <1>7, <1>8

LEMMA BeginFinishMoves ==
    ASSUME TypeInv, NEW r \in Requests, NEW t \in Tokens, BeginFinish(r, t)
    PROVE  LET u == pending[t].user IN
           /\ u \in Users /\ Free(r)
           /\ \/ /\ Moves(r, "finish", u, "none", None, FALSE) /\ req'[r].tok = t
                 /\ user[u].active /\ pending' = pending
              \/ Drop(t) /\ req' = req
<1> DEFINE u == pending[t].user
           q == [Idle EXCEPT !.pc = "finish", !.user = u, !.row = user[u], !.tok = t]
<1>1. u \in Users /\ user[u] \in UserRows /\ Free(r)
  BY TypeFacts DEF BeginFinish, Challenges
<1>2. \/ Go(r, q) /\ user[u].active /\ pending' = pending
      \/ Drop(t) /\ req' = req
  BY DEF BeginFinish
<1> HIDE DEF u
<1>3. /\ q \in Handlers /\ q.pc = "finish" /\ q.user = u /\ q.op = "none" /\ q.code = None
      /\ q.write = FALSE /\ q.tok = t
  BY <1>1, NoUserType DEF Idle, Handlers, Points, RoleName, Names
<1> HIDE DEF q
<1> QED
  BY <1>1, <1>2, <1>3, StartMoves DEF u

LEMMA CompleteBootstrapMoves ==
    ASSUME TypeInv, NEW r \in Requests, NEW c, CompleteBootstrap(r, c)
    PROVE  LET u == req[r].user IN
           /\ req[r].pc = "finish" /\ u \in Users /\ req[r].tok \in Tokens /\ setupLock = None
           /\ \/ /\ setup.admin = u /\ CodesFree(r, u)
                 /\ codeLock' = [codeLock EXCEPT ![u] = r]
                 /\ setupLock' = r
                 /\ Drop(req[r].tok)
                 /\ Moves(r, "initialize", u, "none", None, FALSE)
                 /\ \E t \in Tokens \ issued :
                       /\ issued' = issued \cup {t}
                       /\ session' = [session EXCEPT ![t] = [user |-> u, factor |-> TRUE,
                                                             held |-> FALSE, overtaken |-> FALSE]]
                       /\ req'[r].tok = t
              \/ /\ Moves(r, "idle", None, "none", None, FALSE)
                 /\ UNCHANGED <<codeLock, session, pending, issued, setupLock>>
<1> DEFINE u == req[r].user
<1>1. req[r].pc = "finish" /\ u \in Users /\ req[r].tok \in Tokens /\ setupLock = None
  BY HasUser DEF CompleteBootstrap, At
<1>2. \/ /\ setup.admin = u /\ CodesFree(r, u)
         /\ codeLock' = [codeLock EXCEPT ![u] = r]
         /\ setupLock' = r
         /\ Drop(req[r].tok)
         /\ \E t \in Fresh :
               /\ issued' = issued \cup {t}
               /\ Open(t, u, TRUE, FALSE, FALSE)
               /\ Go(r, [Idle EXCEPT !.pc = "initialize", !.user = u, !.tok = t])
      \/ Finish(r) /\ UNCHANGED <<codeLock, session, pending, issued, setupLock>>
  BY DEF CompleteBootstrap
<1>3. ASSUME NEW t \in Fresh,
             issued' = issued \cup {t},
             Open(t, u, TRUE, FALSE, FALSE),
             Go(r, [Idle EXCEPT !.pc = "initialize", !.user = u, !.tok = t])
      PROVE  /\ Moves(r, "initialize", u, "none", None, FALSE)
             /\ t \in Tokens \ issued
             /\ session' = [session EXCEPT ![t] = [user |-> u, factor |-> TRUE,
                                                   held |-> FALSE, overtaken |-> FALSE]]
             /\ req'[r].tok = t
  <2> DEFINE q == [Idle EXCEPT !.pc = "initialize", !.user = u, !.tok = t]
  <2>1. t \in Tokens /\ t \notin issued
    BY FreshType
  <2>2. Go(r, q)
    BY <1>3
  <2> HIDE DEF u
  <2>3. /\ q \in Handlers /\ q.pc = "initialize" /\ q.user = u /\ q.op = "none" /\ q.code = None
        /\ q.write = FALSE /\ q.tok = t
    BY <1>1, <2>1, NoUserType DEF Idle, Handlers, Points, RoleName, Names
  <2> HIDE DEF q
  <2>4. Moves(r, "initialize", u, "none", None, FALSE) /\ req'[r].tok = t
    BY <2>2, <2>3, StartMoves
  <2> QED
    BY <1>3, <2>1, <2>4 DEF Open
<1>4. CASE Finish(r) /\ UNCHANGED <<codeLock, session, pending, issued, setupLock>>
  BY <1>1, <1>4, FinishMoves
<1> QED
  BY <1>1, <1>2, <1>3, <1>4

LEMMA BeginResetSelfMoves ==
    ASSUME TypeInv, NEW r \in Requests, NEW t \in Tokens, NEW c \in Secrets \cup Codes,
           BeginResetSelf(r, t, c)
    PROVE  LET u == session[t].user IN
           /\ u \in Users /\ user[u].active /\ Free(r)
           /\ req'[r].row = user[u]
           /\ \/ /\ Moves(r, "revoke", u, "reset", None, FALSE)
                 /\ codeLock' = codeLock
              \/ /\ Moves(r, "revoke", u, "reset", c, FALSE)
                 /\ CodesFree(r, u) /\ c \in user[u].codes
                 /\ codeLock' = [codeLock EXCEPT ![u] = r]
<1> DEFINE u == session[t].user
           totp == user[u].secret # None /\ c = user[u].secret
           q == [Idle EXCEPT !.pc = "revoke", !.op = "reset", !.user = u, !.row = user[u],
                             !.code = IF totp THEN None ELSE c]
<1>1. u \in Users /\ user[u] \in UserRows /\ user[u].active /\ Free(r)
  BY TypeFacts DEF BeginResetSelf, CurrentUser, Logins
<1>2. /\ Go(r, q)
      /\ \/ totp /\ codeLock' = codeLock
         \/ /\ ~totp /\ CodesFree(r, u) /\ c \in user[u].codes
            /\ codeLock' = [codeLock EXCEPT ![u] = r]
  BY DEF BeginResetSelf
<1>3. ~totp => c \in Codes
  BY <1>1, <1>2 DEF UserRows
<1> HIDE DEF totp
<1>4. /\ q \in Handlers /\ q.pc = "revoke" /\ q.user = u /\ q.op = "reset"
      /\ q.code = IF totp THEN None ELSE c
      /\ q.write = FALSE /\ q.row = user[u]
  BY <1>1, <1>3, NoUserType DEF Idle, Handlers, Points, RoleName, Names, AdminOps
<1> HIDE DEF q
<1> QED
  BY <1>1, <1>2, <1>4, StartMoves

LEMMA BeginAdminMoves ==
    ASSUME TypeInv, NEW r \in Requests, NEW t \in Tokens, NEW op \in AdminOps, NEW u \in Users,
           NEW role \in RoleName, BeginAdmin(r, t, op, u, role)
    PROVE  /\ Moves(r, IF Revokes(op, user[u], role) THEN "revoke" ELSE "commit", u, op,
                    None, op = "create")
           /\ req'[r].row = user[u] /\ req'[r].role = role
           /\ Free(r) /\ r \in use.consoles
<1> DEFINE pc == IF Revokes(op, user[u], role) THEN "revoke" ELSE "commit"
           q == [Idle EXCEPT !.pc = pc, !.op = op, !.user = u, !.row = user[u], !.role = role,
                             !.write = (op = "create")]
<1>1. Go(r, q) /\ Free(r) /\ r \in use.consoles
  BY DEF BeginAdmin
<1>2. pc \in {"revoke", "commit"} /\ user[u] \in UserRows
  BY TypeFacts
<1> HIDE DEF pc
<1>3. /\ q \in Handlers /\ q.pc = pc /\ q.user = u /\ q.op = op /\ q.code = None
      /\ q.write = (op = "create") /\ q.row = user[u] /\ q.role = role
  BY <1>2, NoUserType DEF Idle, Handlers, Points, RoleName, Names
<1> HIDE DEF q
<1> QED
  BY <1>1, <1>3, StartMoves DEF pc

-----------------------------------------------------------------------------
\* Type correctness.
LEMMA MovesType ==
    ASSUME TypeInv, NEW r \in Requests, NEW pc, NEW u, NEW op, NEW code, NEW write,
           Moves(r, pc, u, op, code, write),
           Shape(req'[r])
    PROVE  req' \in [Requests -> Handlers] /\ \A p \in Requests : Shape(req'[p])
  BY TypeFacts DEF Moves

\* A request at rest or turned away is well-formed.
LEMMA RestType ==
    ASSUME TypeInv, NEW r \in Requests, NEW pc \in {"idle", "rejected", "expire", "login", "ldap",
                                                    "setup", "enroll", "confirm"},
           NEW u, NEW op, Moves(r, pc, u, op, None, FALSE),
           pc = "idle" \/ (u \in Names /\ pc \in {"rejected", "expire"}) \/ u \in Users
    PROVE  req' \in [Requests -> Handlers] /\ \A p \in Requests : Shape(req'[p])
<1>1. Shape(req'[r])
  BY DEF Moves, Shape, Names
<1> QED
  BY <1>1, MovesType

LEMMA LoginType ==
    ASSUME TypeInv, NEW r \in Requests,
           \/ \E u \in Users : BeginLogin(r, u)
           \/ \E matches \in BOOLEAN : LocalAuthenticate(r, matches)
           \/ \E mapped \in SUBSET RoleName : LdapBinds(r, mapped)
           \/ LdapRefuses(r)
           \/ CompleteLogin(r),
           UNCHANGED <<setupVars, crashes, use>>
    PROVE  TypeInv'
<1> USE TypeFacts DEF loginVars, setupVars, countVars
<1>1. ASSUME NEW u \in Users, BeginLogin(r, u)
      PROVE  TypeInv'
  <2>1. Moves(r, "login", u, "none", None, FALSE)
    BY <1>1, BeginLoginMoves
  <2>2. req' \in [Requests -> Handlers] /\ \A p \in Requests : Shape(req'[p])
    BY <2>1, RestType
  <2> QED
    BY <1>1, <2>2, KeepType DEF BeginLogin
<1>2. ASSUME NEW matches \in BOOLEAN, LocalAuthenticate(r, matches)
      PROVE  TypeInv'
  <2>1. tried' \in [Names -> Nat]
    <3>1. \/ tried' = tried
          \/ req[r].user \in Names /\ tried' = [tried EXCEPT ![req[r].user] = @ + 1]
      BY <1>2, LocalAuthenticateMoves
    <3> QED
      BY <3>1
  <2>2. Shape(req'[r])
    BY <1>2, LocalAuthenticateMoves DEF Moves, Shape
  <2>3. req' \in [Requests -> Handlers] /\ \A p \in Requests : Shape(req'[p])
    BY <1>2, <2>2, LocalAuthenticateMoves, MovesType
  <2> QED
    BY <1>2, <2>1, <2>3, KeepType DEF LocalAuthenticate
<1>3. ASSUME NEW mapped \in SUBSET RoleName, LdapBinds(r, mapped)
      PROVE  TypeInv'
  <2>1. tried' \in [Names -> Nat]
    <3>1. \/ tried' = tried
          \/ req[r].user \in Names /\ tried' = [tried EXCEPT ![req[r].user] = @ + 1]
      BY <1>3, LdapBindsMoves
    <3> QED
      BY <3>1
  <2>2. Shape(req'[r])
    BY <1>3, LdapBindsMoves DEF Moves, Shape
  <2>3. req' \in [Requests -> Handlers] /\ \A p \in Requests : Shape(req'[p])
    BY <1>3, <2>2, LdapBindsMoves, MovesType
  <2> QED
    BY <1>3, <2>1, <2>3, KeepType DEF LdapBinds
<1>4. CASE LdapRefuses(r)
  <2>1. req[r].user \in Names
    BY <1>4, HasUser DEF LdapRefuses, Free, At
  <2>2. Moves(r, "rejected", req[r].user, "none", None, FALSE)
    BY <1>4, <2>1, RejectMoves DEF LdapRefuses
  <2>3. req' \in [Requests -> Handlers] /\ \A p \in Requests : Shape(req'[p])
    BY <2>1, <2>2, RestType
  <2>4. tried' \in [Names -> Nat]
    BY <1>4, <2>1 DEF LdapRefuses, Reject
  <2> QED
    BY <1>4, <2>3, <2>4, KeepType DEF LdapRefuses
<1>5. CASE CompleteLogin(r)
  <2> DEFINE u == req[r].user
             late == req[r].overtaken \/ Changing(u)
  <2>1. u \in Users /\ u \in Names /\ req[r] \in Handlers
    BY <1>5, HasUser DEF CompleteLogin, At, Names
  <2>2. req' \in [Requests -> Handlers] /\ \A p \in Requests : Shape(req'[p])
    BY <1>5, FinishType DEF CompleteLogin
  <2>3. user' \in [Users -> UserRows]
    <3>1. [user[u] EXCEPT !.role = req[r].row.role] \in UserRows /\ req[r].row \in UserRows
      BY <2>1 DEF Handlers, UserRows
    <3> QED
      BY <1>5, <2>1, <3>1 DEF CompleteLogin
  <2>4. PICK t \in Fresh :
          /\ issued' = issued \cup {t}
          /\ \/ pending' = [pending EXCEPT ![t] = [user |-> u, attempts |-> 0]] /\ session' = session
             \/ Open(t, u, FALSE, TRUE, late) /\ pending' = pending
    BY <1>5 DEF CompleteLogin
  <2>5. late \in BOOLEAN /\ t \in Tokens
    BY <2>1, FreshType DEF Handlers, Changing
  <2> HIDE DEF late
  <2>6. session' \in [Tokens -> Logins \cup {None}]
    <3>1. CASE session' = session
      BY <3>1
    <3>2. CASE Open(t, u, FALSE, TRUE, late)
      BY <2>1, <2>5, <3>2 DEF Open, Logins
    <3> QED
      BY <2>4, <3>1, <3>2
  <2>7. pending' \in [Tokens -> Challenges \cup {None}]
    BY <2>1, <2>4, <2>5, NewChallenge
  <2>8. fails' \in [Names -> Nat] /\ expires' \in [Names -> BOOLEAN] /\ tried' \in [Names -> Nat]
    BY <1>5, <2>1, ClearType DEF CompleteLogin
  <2>9. issued' \subseteq Tokens \cup Codes
    BY <2>4, <2>5
  <2> QED
    BY <1>5, <2>2, <2>3, <2>6, <2>7, <2>8, <2>9, KeepType DEF CompleteLogin
<1> QED
  BY <1>1, <1>2, <1>3, <1>4, <1>5

LEMMA CounterType ==
    ASSUME TypeInv, NEW r \in Requests,
           CountFailure(r) \/ SetExpiry(r),
           UNCHANGED <<loginVars, setupVars, crashes, use>>
    PROVE  TypeInv'
<1> USE TypeFacts DEF loginVars, setupVars
<1>1. CASE CountFailure(r)
  <2>1. req[r].user \in Names /\ fails' = [fails EXCEPT ![req[r].user] = @ + 1]
    BY <1>1, CountFailureMoves
  <2>2. fails' \in [Names -> Nat]
    BY <2>1
  <2>3. req' \in [Requests -> Handlers] /\ \A p \in Requests : Shape(req'[p])
    <3>1. CASE fails[req[r].user] = 0
      BY <1>1, <3>1, CountFailureMoves, RestType
    <3>2. CASE fails[req[r].user] # 0
      BY <1>1, <3>2, CountFailureMoves, RestType
    <3> QED
      BY <3>1, <3>2
  <2> QED
    BY <1>1, <2>2, <2>3, KeepType DEF CountFailure
<1>2. CASE SetExpiry(r)
  <2>1. req[r].user \in Names
    BY <1>2, HasUser DEF SetExpiry, At, Free
  <2>2. expires' \in [Names -> BOOLEAN]
    BY <1>2, <2>1 DEF SetExpiry
  <2>3. req' \in [Requests -> Handlers] /\ \A p \in Requests : Shape(req'[p])
    BY <1>2, FinishType DEF SetExpiry
  <2> QED
    BY <1>2, <2>2, <2>3, KeepType DEF SetExpiry
<1> QED
  BY <1>1, <1>2

LEMMA FactorType ==
    ASSUME TypeInv, NEW r \in Requests,
           \/ \E t \in Tokens : BeginVerify(r, t)
           \/ \E c \in Secrets \cup Codes \cup {None} : CheckFactor(r, c)
           \/ ReadAttempts(r)
           \/ WriteAttempts(r)
           \/ OpenVerified(r)
           \/ CommitVerified(r),
           UNCHANGED <<setupVars, crashes, use>>
    PROVE  TypeInv'
<1> USE TypeFacts DEF loginVars, setupVars, countVars
<1>1. ASSUME NEW t \in Tokens, BeginVerify(r, t)
      PROVE  TypeInv'
  <2> DEFINE u == pending[t].user
  <2>1. CASE Moves(r, "verify", u, "none", None, FALSE) /\ req'[r].tok = t /\ pending' = pending
    <3>1. Shape(req'[r])
      BY <1>1, <2>1, BeginVerifyMoves DEF Moves, Shape, Names
    <3>2. req' \in [Requests -> Handlers] /\ \A p \in Requests : Shape(req'[p])
      BY <2>1, <3>1, MovesType
    <3> QED
      BY <1>1, <2>1, <3>2, KeepType DEF BeginVerify
  <2>2. CASE Drop(t) /\ req' = req
    BY <1>1, <2>2, DropType, KeepType DEF BeginVerify
  <2> QED
    BY <1>1, <2>1, <2>2, BeginVerifyMoves
<1>2. ASSUME NEW c \in Secrets \cup Codes \cup {None}, CheckFactor(r, c)
      PROVE  TypeInv'
  <2>0. req[r].user \in Users /\ req[r].tok \in Tokens
    BY <1>2, HasUser DEF CheckFactor, At
  <2>1. Shape(req'[r])
    BY <1>2, <2>0, CheckFactorMoves DEF Moves, Shape, Names
  <2>2. req' \in [Requests -> Handlers] /\ \A p \in Requests : Shape(req'[p])
    BY <1>2, <2>1, CheckFactorMoves, MovesType
  <2>3. codeLock' \in [Users -> Requests \cup {None}]
    BY <1>2, <2>0, CheckFactorMoves
  <2> QED
    BY <1>2, <2>2, <2>3, KeepType DEF CheckFactor
<1>3. CASE ReadAttempts(r)
  <2>1. Shape(req'[r])
    BY <1>3, ReadAttemptsMoves DEF Moves, Shape, Names
  <2>2. req' \in [Requests -> Handlers] /\ \A p \in Requests : Shape(req'[p])
    BY <1>3, <2>1, ReadAttemptsMoves, MovesType
  <2>3. pending' \in [Tokens -> Challenges \cup {None}]
    BY <1>3, ReadAttemptsMoves, DropType
  <2> QED
    BY <1>3, <2>2, <2>3, KeepType DEF ReadAttempts
<1>4. CASE WriteAttempts(r)
  <2>1. req' \in [Requests -> Handlers] /\ \A p \in Requests : Shape(req'[p])
    BY <1>4, FinishType DEF WriteAttempts
  <2>2. req[r].tok \in Tokens /\ req[r].user \in Users
          /\ req[r].attempts \in 0 .. MaxMfaAttempts - 1
    BY <1>4 DEF WriteAttempts, At, Shape
  <2>3. pending' \in [Tokens -> Challenges \cup {None}]
    BY <1>4, <2>2 DEF WriteAttempts, Challenges
  <2> QED
    BY <1>4, <2>1, <2>3, KeepType DEF WriteAttempts
<1>5. CASE OpenVerified(r)
  <2>1. PICK t \in Tokens \ issued :
           /\ issued' = issued \cup {t}
           /\ session' = [session EXCEPT ![t] = [user |-> req[r].user, factor |-> TRUE,
                                                 held |-> FALSE, overtaken |-> FALSE]]
           /\ Moves(r, "answer", req[r].user, "none", req[r].code, FALSE)
           /\ req'[r].tok = t
    BY <1>5, OpenVerifiedMoves
  <2>2. req[r].user \in Users /\ req[r].tok \in Tokens
    BY <1>5, OpenVerifiedMoves
  <2>3. Shape(req'[r])
    BY <2>1, <2>2 DEF Moves, Shape, Names
  <2>4. req' \in [Requests -> Handlers] /\ \A p \in Requests : Shape(req'[p])
    BY <2>1, <2>3, MovesType
  <2>5. session' \in [Tokens -> Logins \cup {None}]
    BY <2>1, <2>2 DEF Logins
  <2>6. pending' \in [Tokens -> Challenges \cup {None}]
    BY <1>5, <2>2, DropType DEF OpenVerified
  <2>7. issued' \subseteq Tokens \cup Codes
    BY <2>1
  <2> QED
    BY <1>5, <2>4, <2>5, <2>6, <2>7, KeepType DEF OpenVerified
<1>6. CASE CommitVerified(r)
  <2>1. req[r].tok \in Tokens /\ req[r].user \in Users
    BY <1>6, HasUser DEF CommitVerified, At
  <2>2. req' \in [Requests -> Handlers] /\ \A p \in Requests : Shape(req'[p])
    BY <1>6, FinishType DEF CommitVerified
  <2>3. user' \in [Users -> UserRows]
    BY <1>6, <2>1, SpendType DEF CommitVerified
  <2>4. codeLock' \in [Users -> Requests \cup {None}]
    BY <1>6, <2>1 DEF CommitVerified
  <2>5. session' \in [Tokens -> Logins \cup {None}]
    BY <1>6, <2>1, HoldType DEF CommitVerified
  <2>6. redeemed' \in [Codes -> Nat]
    BY <1>6 DEF CommitVerified
  <2> QED
    BY <1>6, <2>2, <2>3, <2>4, <2>5, <2>6, KeepType DEF CommitVerified
<1> QED
  BY <1>1, <1>2, <1>3, <1>4, <1>5, <1>6

LEMMA SecretType ==
    ASSUME user \in [Users -> UserRows], NEW u \in Users, NEW s \in Secrets,
           user' = [user EXCEPT ![u].secret = s]
    PROVE  /\ user' \in [Users -> UserRows]
           /\ \A v \in Users : v # u => user'[v] = user[v]
           /\ user'[u].exists = user[u].exists /\ user'[u].local = user[u].local
           /\ user'[u].role = user[u].role /\ user'[u].active = user[u].active
           /\ user'[u].codes = user[u].codes
<1> DEFINE row == [user[u] EXCEPT !.secret = s]
<1>1. /\ row \in UserRows
      /\ row.exists = user[u].exists /\ row.local = user[u].local
      /\ row.role = user[u].role /\ row.active = user[u].active
      /\ row.codes = user[u].codes
  BY DEF UserRows
<1>2. user' = [user EXCEPT ![u] = row]
  OBVIOUS
<1> HIDE DEF row
<1> QED
  BY <1>1, <1>2

LEMMA EnrolmentType ==
    ASSUME TypeInv, NEW r \in Requests,
           \/ \E t \in Tokens, op \in {"enroll", "confirm"} :
                 BeginEnrolment(r, t, op) \/ BeginSetupEnrolment(r, t, op)
           \/ CommitSecret(r)
           \/ \E c \in Secrets \cup {None} : CommitEnrolment(r, c) \/ RefuseEnrolment(r, c)
           \/ \E t \in Tokens, c \in Secrets \cup Codes : BeginResetSelf(r, t, c),
           UNCHANGED <<setupVars, crashes, use>>
    PROVE  TypeInv'
<1> USE TypeFacts DEF loginVars, setupVars, countVars
<1>1. ASSUME NEW t \in Tokens, NEW op \in {"enroll", "confirm"}, BeginEnrolment(r, t, op)
      PROVE  TypeInv'
  <2>1. req' \in [Requests -> Handlers] /\ \A p \in Requests : Shape(req'[p])
    BY <1>1, BeginEnrolmentMoves, RestType
  <2> QED
    BY <1>1, <2>1, KeepType DEF BeginEnrolment
<1>2. ASSUME NEW t \in Tokens, NEW op \in {"enroll", "confirm"}, BeginSetupEnrolment(r, t, op)
      PROVE  TypeInv'
  <2>1. CASE Moves(r, op, pending[t].user, "none", None, FALSE) /\ pending' = pending
    <3>1. req' \in [Requests -> Handlers] /\ \A p \in Requests : Shape(req'[p])
      BY <1>2, <2>1, BeginSetupEnrolmentMoves, RestType
    <3> QED
      BY <1>2, <2>1, <3>1, KeepType DEF BeginSetupEnrolment
  <2>2. CASE Drop(t) /\ req' = req
    BY <1>2, <2>2, DropType, KeepType DEF BeginSetupEnrolment
  <2> QED
    BY <1>2, <2>1, <2>2, BeginSetupEnrolmentMoves
<1>3. CASE CommitSecret(r)
  <2>1. req[r].user \in Users
    BY <1>3, HasUser DEF CommitSecret, At
  <2>2. user' \in [Users -> UserRows]
    BY <1>3, <2>1, SecretType DEF CommitSecret
  <2>3. req' \in [Requests -> Handlers] /\ \A p \in Requests : Shape(req'[p])
    BY <1>3, FinishType DEF CommitSecret
  <2> QED
    BY <1>3, <2>2, <2>3, KeepType DEF CommitSecret
<1>4. ASSUME NEW c \in Secrets \cup {None}, CommitEnrolment(r, c)
      PROVE  TypeInv'
  <2>1. req[r].user \in Users /\ req[r] \in Handlers
    BY <1>4, HasUser DEF CommitEnrolment, At
  <2>2. req' \in [Requests -> Handlers] /\ \A p \in Requests : Shape(req'[p])
    BY <1>4, FinishType DEF CommitEnrolment
  <2>3. PICK k \in FreshCodes :
           /\ user' = [user EXCEPT ![req[r].user] = Enrolled(@, k)]
           /\ \/ issued' = issued \cup {k} /\ UNCHANGED <<session, pending>>
              \/ /\ req[r].tok # None /\ Drop(req[r].tok)
                 /\ \E t \in Fresh : /\ issued' = issued \cup {k, t}
                                     /\ Open(t, req[r].user, TRUE, TRUE, FALSE)
    BY <1>4 DEF CommitEnrolment
  <2>4. k \in Codes
    BY FreshType
  <2>5. user' \in [Users -> UserRows]
    BY <2>1, <2>3, <2>4, EnrolledType
  <2>6. /\ issued' \subseteq Tokens \cup Codes
        /\ session' \in [Tokens -> Logins \cup {None}]
        /\ pending' \in [Tokens -> Challenges \cup {None}]
    <3>1. CASE issued' = issued \cup {k} /\ UNCHANGED <<session, pending>>
      BY <2>4, <3>1
    <3>2. ASSUME req[r].tok # None, Drop(req[r].tok), NEW t \in Fresh,
                 issued' = issued \cup {k, t}, Open(t, req[r].user, TRUE, TRUE, FALSE)
          PROVE  <2>6!2 /\ <2>6!1 /\ <2>6!3
      <4>1. t \in Tokens /\ req[r].tok \in Tokens
        BY <2>1, <3>2, FreshType DEF Handlers
      <4>2. session' \in [Tokens -> Logins \cup {None}]
        BY <2>1, <3>2, <4>1 DEF Open, Logins
      <4> QED
        BY <2>4, <3>2, <4>1, <4>2, DropType
    <3> QED
      BY <2>3, <3>1, <3>2
  <2> QED
    BY <1>4, <2>2, <2>5, <2>6, KeepType DEF CommitEnrolment
<1>5. ASSUME NEW c \in Secrets \cup {None}, RefuseEnrolment(r, c)
      PROVE  TypeInv'
  <2>1. req' \in [Requests -> Handlers] /\ \A p \in Requests : Shape(req'[p])
    BY <1>5, FinishType DEF RefuseEnrolment
  <2> QED
    BY <1>5, <2>1, KeepType DEF RefuseEnrolment
<1>6. ASSUME NEW t \in Tokens, NEW c \in Secrets \cup Codes, BeginResetSelf(r, t, c)
      PROVE  TypeInv'
  <2>0. session[t].user \in Users
    BY <1>6, BeginResetSelfMoves
  <2>1. Shape(req'[r])
    BY <1>6, BeginResetSelfMoves DEF Moves, Shape, Names
  <2>2. req' \in [Requests -> Handlers] /\ \A p \in Requests : Shape(req'[p])
    BY <1>6, <2>1, BeginResetSelfMoves, MovesType
  <2>3. codeLock' \in [Users -> Requests \cup {None}]
    BY <1>6, <2>0, BeginResetSelfMoves
  <2> QED
    BY <1>6, <2>2, <2>3, KeepType DEF BeginResetSelf
<1> QED
  BY <1>1, <1>2, <1>3, <1>4, <1>5, <1>6

LEMMA AdminType ==
    ASSUME TypeInv, NEW r \in Requests, AdminStep(r), UNCHANGED <<setupVars, crashes, use>>
    PROVE  TypeInv'
<1> USE TypeFacts DEF loginVars, setupVars, countVars
<1>1. ASSUME NEW t \in Tokens, NEW op \in AdminOps, NEW u \in Users, NEW role \in RoleName,
             BeginAdmin(r, t, op, u, role)
      PROVE  TypeInv'
  <2>0. op = "create" => ~Revokes(op, user[u], role)
    BY DEF Revokes
  <2>1. Shape(req'[r])
    <3>1. /\ req'[r].user = u /\ req'[r].op = op /\ req'[r].code = None
          /\ req'[r].pc = IF Revokes(op, user[u], role) THEN "revoke" ELSE "commit"
          /\ req'[r].write = (op = "create")
      BY <1>1, BeginAdminMoves DEF Moves
    <3> QED
      BY <2>0, <3>1 DEF Shape, Names
  <2>2. req' \in [Requests -> Handlers] /\ \A p \in Requests : Shape(req'[p])
    BY <1>1, <2>1, BeginAdminMoves, MovesType
  <2> QED
    BY <1>1, <2>2, KeepType DEF BeginAdmin
<1>2. CASE RevokeSessions(r)
  <2>0. req[r].user \in Users /\ req[r].user \in Names
    BY <1>2, RevokeSessionsMoves DEF Names
  <2>1. Shape(req'[r])
    BY <1>2, RevokeSessionsMoves DEF Moves, Shape, Names
  <2>2. req' \in [Requests -> Handlers] /\ \A p \in Requests : Shape(req'[p])
    BY <1>2, <2>1, RevokeSessionsMoves, MovesType
  <2>3. codeLock' \in [Users -> Requests \cup {None}]
    BY <1>2, <2>0 DEF RevokeSessions
  <2>4. session' \in [Tokens -> Logins \cup {None}]
    BY <1>2 DEF RevokeSessions, RevokeAllSessions
  <2>5. fails' \in [Names -> Nat] /\ expires' \in [Names -> BOOLEAN] /\ tried' \in [Names -> Nat]
    BY <1>2, <2>0, LimitAssumption DEF RevokeSessions, ForceLock
  <2> QED
    BY <1>2, <2>2, <2>3, <2>4, <2>5, KeepType DEF RevokeSessions
<1>3. CASE CommitAdmin(r)
  <2>0. req[r].user \in Users /\ req[r].user \in Names /\ req[r] \in Handlers
          /\ req[r].row \in UserRows /\ req[r].role \in RoleName
    BY <1>3, CommitAdminMoves DEF Names, Handlers
  <2>1. req' \in [Requests -> Handlers] /\ \A p \in Requests : Shape(req'[p])
    BY <1>3, CommitAdminMoves, IdleType DEF Shape
  <2>2. user' \in [Users -> UserRows]
    <3>1. req[r].op \in AdminOps \/ req[r].op = "none"
      BY <2>0 DEF Handlers
    <3>2. Written(req[r].op, req[r].row, user[req[r].user], req[r].role) \in UserRows
      <4>1. CASE req[r].op = "none"
        BY <2>0, <4>1 DEF Written
      <4>2. user[req[r].user] \in UserRows
        BY <2>0
      <4> QED
        BY <2>0, <3>1, <4>1, <4>2, WrittenType
    <3> QED
      BY <1>3, <2>0, <3>2 DEF CommitAdmin
  <2>3. codeLock' \in [Users -> Requests \cup {None}]
    BY <1>3, <2>0 DEF CommitAdmin
  <2>4. fails' \in [Names -> Nat] /\ expires' \in [Names -> BOOLEAN] /\ tried' \in [Names -> Nat]
    BY <1>3, <2>0, ClearType DEF CommitAdmin
  <2>5. redeemed' \in [Codes -> Nat]
    BY <1>3 DEF CommitAdmin
  <2> QED
    BY <1>3, <2>1, <2>2, <2>3, <2>4, <2>5, KeepType DEF CommitAdmin
<1>4. "USER" \in RoleName /\ use.grants \subseteq RoleName
        /\ use.admin \ {"role", "create", "ldap", "breakglass"} \subseteq AdminOps
        /\ use.admin \cap {"role", "create"} \subseteq AdminOps
  BY DEF RoleName, Uses, AdminOps
<1> QED
  BY <1>1, <1>2, <1>3, <1>4 DEF AdminStep

LEMMA BreakGlassType ==
    ASSUME user \in [Users -> UserRows], NEW u \in Users, NEW enable \in BOOLEAN,
           user' = [user EXCEPT ![u].active = @ \/ enable]
    PROVE  /\ user' \in [Users -> UserRows]
           /\ \A v \in Users : v # u => user'[v] = user[v]
           /\ user'[u].exists = user[u].exists /\ user'[u].local = user[u].local
           /\ user'[u].role = user[u].role /\ user'[u].codes = user[u].codes
           /\ user[u].active => user'[u].active
<1> DEFINE row == [user[u] EXCEPT !.active = user[u].active \/ enable]
<1>1. /\ row \in UserRows
      /\ row.exists = user[u].exists /\ row.local = user[u].local
      /\ row.role = user[u].role /\ row.codes = user[u].codes
      /\ user[u].active => row.active
  BY DEF UserRows
<1>2. user' = [user EXCEPT ![u] = row]
  OBVIOUS
<1> HIDE DEF row
<1> QED
  BY <1>1, <1>2

LEMMA SetupType ==
    ASSUME TypeInv, NEW r \in Requests, SetupStep(r), UNCHANGED <<crashes, use>>
    PROVE  TypeInv'
<1> USE TypeFacts DEF loginVars, setupVars, countVars
<1>1. ASSUME NEW u \in Users, NEW boot \in 1 .. use.boots, BeginSetup(r, u, boot)
      PROVE  TypeInv'
  <2>1. boot \in Nat
    BY DEF Uses
  <2>2. req' \in [Requests -> Handlers] /\ \A p \in Requests : Shape(req'[p])
    BY <1>1, <2>1, BeginSetupMoves, RestType
  <2> QED
    BY <1>1, <2>2, KeepType DEF BeginSetup
<1>2. CASE CreateBootstrapAdmin(r)
  <2>1. SetupKey \in Names /\ setup.admin \in Users \cup {None}
    BY DEF Names, SetupRows
  <2>2. Shape(req'[r])
    BY <1>2, <2>1, BootstrapMoves DEF Moves, Shape, Names
  <2>3. req' \in [Requests -> Handlers] /\ \A p \in Requests : Shape(req'[p])
    BY <1>2, <2>2, BootstrapMoves, MovesType
  <2>4. fails' \in [Names -> Nat] /\ expires' \in [Names -> BOOLEAN] /\ tried' \in [Names -> Nat]
    <3>1. \/ UNCHANGED countVars
          \/ ClearFailures(SetupKey)
          \/ tried' = [tried EXCEPT ![SetupKey] = @ + 1] /\ UNCHANGED <<fails, expires>>
      BY <1>2, BootstrapMoves
    <3> QED
      BY <2>1, <3>1, ClearType
  <2>5. setupLock' \in Requests \cup {None}
    BY <1>2, BootstrapMoves
  <2> QED
    BY <1>2, <2>3, <2>4, <2>5, KeepType DEF CreateBootstrapAdmin
<1>3. CASE CommitBootstrapAdmin(r)
  <2>0. req[r].user \in Users /\ req[r].write \in BOOLEAN
    BY <1>3, HasUser DEF CommitBootstrapAdmin, At, Handlers
  <2>1. req' \in [Requests -> Handlers] /\ \A p \in Requests : Shape(req'[p])
    BY <1>3, FinishType DEF CommitBootstrapAdmin
  <2>2. user' \in [Users -> UserRows]
    <3>1. NewUser(TRUE, "ADMIN") \in UserRows
      BY NewUserType DEF RoleName
    <3> QED
      BY <1>3, <2>0, <3>1 DEF CommitBootstrapAdmin
  <2>3. PICK t \in Fresh :
          /\ issued' = issued \cup {t}
          /\ pending' = [pending EXCEPT ![t] = [user |-> req[r].user, attempts |-> 0]]
    BY <1>3 DEF CommitBootstrapAdmin
  <2>4. issued' \subseteq Tokens \cup Codes /\ pending' \in [Tokens -> Challenges \cup {None}]
    BY <2>0, <2>3, FreshType, NewChallenge
  <2>5. bootstraps' \in Nat /\ setup' \in SetupRows
    BY <1>3, <2>0 DEF CommitBootstrapAdmin, SetupRows
  <2> QED
    BY <1>3, <2>1, <2>2, <2>4, <2>5, KeepType DEF CommitBootstrapAdmin
<1>4. ASSUME NEW t \in Tokens, BeginFinish(r, t)
      PROVE  TypeInv'
  <2> DEFINE u == pending[t].user
  <2>1. CASE Moves(r, "finish", u, "none", None, FALSE) /\ req'[r].tok = t /\ pending' = pending
    <3>1. Shape(req'[r])
      BY <1>4, <2>1, BeginFinishMoves DEF Moves, Shape, Names
    <3>2. req' \in [Requests -> Handlers] /\ \A p \in Requests : Shape(req'[p])
      BY <2>1, <3>1, MovesType
    <3> QED
      BY <1>4, <2>1, <3>2, KeepType DEF BeginFinish
  <2>2. CASE Drop(t) /\ req' = req
    BY <1>4, <2>2, DropType, KeepType DEF BeginFinish
  <2> QED
    BY <1>4, <2>1, <2>2, BeginFinishMoves
<1>5. ASSUME NEW c \in Secrets \cup {None}, CompleteBootstrap(r, c)
      PROVE  TypeInv'
  <2>1. CASE /\ codeLock' = [codeLock EXCEPT ![req[r].user] = r]
             /\ setupLock' = r
             /\ Drop(req[r].tok)
             /\ Moves(r, "initialize", req[r].user, "none", None, FALSE)
             /\ \E t \in Tokens \ issued :
                   /\ issued' = issued \cup {t}
                   /\ session' = [session EXCEPT ![t] = [user |-> req[r].user, factor |-> TRUE,
                                                         held |-> FALSE, overtaken |-> FALSE]]
                   /\ req'[r].tok = t
    <3>0. req[r].user \in Users /\ req[r].tok \in Tokens
      BY <1>5, CompleteBootstrapMoves
    <3>1. PICK t \in Tokens :
                   /\ issued' = issued \cup {t}
                   /\ session' = [session EXCEPT ![t] = [user |-> req[r].user, factor |-> TRUE,
                                                         held |-> FALSE, overtaken |-> FALSE]]
                   /\ req'[r].tok = t
      BY <2>1
    <3>2. Shape(req'[r])
      BY <2>1, <3>0, <3>1 DEF Moves, Shape, Names
    <3>3. req' \in [Requests -> Handlers] /\ \A p \in Requests : Shape(req'[p])
      BY <2>1, <3>2, MovesType
    <3>4. session' \in [Tokens -> Logins \cup {None}] /\ issued' \subseteq Tokens \cup Codes
      BY <3>0, <3>1 DEF Logins
    <3>5. pending' \in [Tokens -> Challenges \cup {None}]
      BY <2>1, <3>0, DropType
    <3>6. codeLock' \in [Users -> Requests \cup {None}]
      BY <2>1, <3>0
    <3> QED
      BY <1>5, <2>1, <3>3, <3>4, <3>5, <3>6, KeepType DEF CompleteBootstrap
  <2>2. CASE /\ Moves(r, "idle", None, "none", None, FALSE)
             /\ UNCHANGED <<codeLock, session, pending, issued, setupLock>>
    <3>1. req' \in [Requests -> Handlers] /\ \A p \in Requests : Shape(req'[p])
      BY <2>2, RestType
    <3> QED
      BY <1>5, <2>2, <3>1, KeepType DEF CompleteBootstrap
  <2> QED
    BY <1>5, <2>1, <2>2, CompleteBootstrapMoves
<1>6. CASE CommitInitialized(r)
  <2>0. req[r].user \in Users /\ req[r].tok \in Tokens
    BY <1>6, HasUser DEF CommitInitialized, At
  <2>1. req' \in [Requests -> Handlers] /\ \A p \in Requests : Shape(req'[p])
    BY <1>6, FinishType DEF CommitInitialized
  <2>2. user' \in [Users -> UserRows] /\ issued' \subseteq Tokens \cup Codes
    BY <1>6, <2>0, FreshType, EnrolledType DEF CommitInitialized
  <2>3. setup' \in SetupRows
    BY <1>6 DEF CommitInitialized, SetupRows
  <2>4. session' \in [Tokens -> Logins \cup {None}]
    BY <1>6, <2>0, HoldType DEF CommitInitialized
  <2>5. codeLock' \in [Users -> Requests \cup {None}]
    BY <1>6, <2>0 DEF CommitInitialized
  <2> QED
    BY <1>6, <2>1, <2>2, <2>3, <2>4, <2>5, KeepType DEF CommitInitialized
<1> QED
  BY <1>1, <1>2, <1>3, <1>4, <1>5, <1>6 DEF SetupStep

LEMMA OtherType ==
    ASSUME TypeInv, UNCHANGED use,
           \/ \E r \in Requests : Crash(r)
           \/ Direct /\ UNCHANGED <<setupVars, crashes>>
           \/ Expiry /\ UNCHANGED <<loginVars, setupVars, crashes>>
           \/ (RegenerateSetupToken \/ SetupTokenExpires) /\ UNCHANGED crashes
    PROVE  TypeInv'
<1> USE TypeFacts DEF loginVars, setupVars, countVars, storeVars
<1>1. ASSUME NEW r \in Requests, Crash(r)
      PROVE  TypeInv'
  <2>1. req' \in [Requests -> Handlers] /\ \A p \in Requests : Shape(req'[p])
    BY <1>1, FinishType DEF Crash
  <2>2. codeLock' \in [Users -> Requests \cup {None}] /\ setupLock' \in Requests \cup {None}
    BY <1>1 DEF Crash
  <2>3. crashes' \in Nat
    BY <1>1 DEF Crash
  <2> QED
    BY <1>1, <2>1, <2>2, <2>3, KeepType DEF Crash
<1>2. ASSUME NEW t \in Tokens, Logout(t) \/ ChangePassword(t), UNCHANGED <<setupVars, crashes>>
      PROVE  TypeInv'
  <2>1. session' \in [Tokens -> Logins \cup {None}]
    BY <1>2 DEF Logout, ChangePassword, RevokeAllSessions
  <2> QED
    BY <1>2, <2>1, KeepType DEF Logout, ChangePassword
<1>3. ASSUME NEW t \in Tokens, NEW enabled \in BOOLEAN, UpdateLdapConfig(t, enabled),
             UNCHANGED <<setupVars, crashes>>
      PROVE  TypeInv'
  <2>1. ldapRow' \in LdapRows
    BY <1>3 DEF UpdateLdapConfig, LdapRows
  <2> QED
    BY <1>3, <2>1, KeepType DEF UpdateLdapConfig
<1>4. ASSUME NEW u \in Users, NEW enable \in BOOLEAN, BreakGlass(u, enable),
             UNCHANGED <<setupVars, crashes>>
      PROVE  TypeInv'
  <2>1. user' \in [Users -> UserRows]
    BY <1>4, BreakGlassType DEF BreakGlass
  <2>2. fails' \in [Names -> Nat] /\ expires' \in [Names -> BOOLEAN] /\ tried' \in [Names -> Nat]
    BY <1>4, ClearType DEF BreakGlass, Names
  <2> QED
    BY <1>4, <2>1, <2>2, KeepType DEF BreakGlass
<1>5. ASSUME NEW n \in Names, WindowEnds(n), UNCHANGED <<loginVars, setupVars, crashes>>
      PROVE  TypeInv'
  <2>1. fails' \in [Names -> Nat] /\ expires' \in [Names -> BOOLEAN] /\ tried' \in [Names -> Nat]
    BY <1>5, ClearType DEF WindowEnds
  <2> QED
    BY <1>5, <2>1, KeepType DEF WindowEnds
<1>6. ASSUME NEW t \in Tokens, ChallengeExpires(t), UNCHANGED <<loginVars, setupVars, crashes>>
      PROVE  TypeInv'
  BY <1>6, DropType, KeepType DEF ChallengeExpires
<1>7. ASSUME NEW t \in Tokens, SessionExpires(t), UNCHANGED <<loginVars, setupVars, crashes>>
      PROVE  TypeInv'
  <2>1. session' \in [Tokens -> Logins \cup {None}]
    BY <1>7 DEF SessionExpires
  <2> QED
    BY <1>7, <2>1, KeepType DEF SessionExpires
<1>8. ASSUME RegenerateSetupToken \/ SetupTokenExpires, UNCHANGED crashes
      PROVE  TypeInv'
  <2>1. setup' \in SetupRows
    <3>1. setup.boots + 1 \in Nat
      BY DEF SetupRows
    <3>2. CASE RegenerateSetupToken
      <4> DEFINE n == setup.boots + 1
                 s1 == [setup EXCEPT !.boots = n]
                 s2 == [s1 EXCEPT !.token = n]
                 s3 == [s2 EXCEPT !.fresh = TRUE]
      <4>1. setup' = s3
        BY <3>2 DEF RegenerateSetupToken
      <4> HIDE DEF n
      <4>2. s1 \in SetupRows
        BY <3>1 DEF SetupRows, n
      <4> HIDE DEF s1
      <4>3. s2 \in SetupRows
        BY <3>1, <4>2 DEF SetupRows, n
      <4> HIDE DEF s2
      <4>4. s3 \in SetupRows
        BY <4>3 DEF SetupRows
      <4> QED
        BY <4>1, <4>4
    <3>3. CASE SetupTokenExpires
      BY <3>3 DEF SetupTokenExpires, SetupRows
    <3> QED
      BY <1>8, <3>2, <3>3
  <2> QED
    BY <1>8, <2>1, KeepType DEF RegenerateSetupToken, SetupTokenExpires
<1> QED
  BY <1>1, <1>2, <1>3, <1>4, <1>5, <1>6, <1>7, <1>8 DEF Direct, Expiry

LEMMA TypeInit == Init => TypeInv
<1> SUFFICES ASSUME NEW st \in Starts, InitFrom(st)
             PROVE  TypeInv
  BY DEF Init
<1> USE StartAssumption DEF InitFrom
<1>1. req \in [Requests -> Handlers] /\ \A r \in Requests : Shape(req[r])
  BY IdleType
<1>2. session \in [Tokens -> Logins \cup {None}]
  BY DEF Logins
<1>3. pending \in [Tokens -> Challenges \cup {None}]
  BY NewChallenge
<1>4. issued \subseteq Tokens \cup Codes
  <2>1. \A u \in Users : st.accounts[u].codes \subseteq Codes
    BY DEF UserRows
  <2> QED
    BY <2>1
<1>5. setup \in SetupRows
  BY DEF SetupRows
<1>6. /\ user \in [Users -> UserRows]
      /\ codeLock \in [Users -> Requests \cup {None}]
      /\ fails \in [Names -> Nat] /\ expires \in [Names -> BOOLEAN] /\ tried \in [Names -> Nat]
      /\ use \in Uses /\ ldapRow \in LdapRows /\ redeemed \in [Codes -> Nat]
      /\ setupLock \in Requests \cup {None} /\ bootstraps \in Nat /\ crashes \in Nat
  BY DEF LdapRows
<1> QED
  BY <1>1, <1>2, <1>3, <1>4, <1>5, <1>6 DEF TypeInv, TypeOK, StoreTypeOK

LEMMA TypeStep == TypeInv /\ [Next]_vars => TypeInv'
<1> SUFFICES ASSUME TypeInv, [Next]_vars
             PROVE  TypeInv'
  OBVIOUS
<1>1. CASE UNCHANGED vars
  BY <1>1 DEF vars, storeVars, loginVars, setupVars, TypeInv, TypeOK, StoreTypeOK, Shape
<1>2. ASSUME NEW r \in Requests, LoginStep(r), UNCHANGED <<setupVars, crashes, use>>
      PROVE  TypeInv'
  <2>1. use.callers \subseteq Users
    BY TypeFacts DEF Uses
  <2> QED
    BY <1>2, <2>1, LoginType, CounterType, FactorType, EnrolmentType DEF LoginStep
<1>3. ASSUME NEW r \in Requests, AdminStep(r), UNCHANGED <<setupVars, crashes, use>>
      PROVE  TypeInv'
  BY <1>3, AdminType
<1>4. ASSUME NEW r \in Requests, SetupStep(r), UNCHANGED <<crashes, use>>
      PROVE  TypeInv'
  BY <1>4, SetupType
<1> QED
  BY <1>1, <1>2, <1>3, <1>4, OtherType DEF Next, Act

\* Whatever logins, administrators, setup calls and dying requests do, every
\* row, session, challenge, counter and request stays of its type.
THEOREM IdentityTypes == Spec => []TypeOK
<1>1. TypeInv => TypeOK
  BY DEF TypeInv
<1> QED
  BY <1>1, TypeInit, TypeStep, PTL DEF Spec

-----------------------------------------------------------------------------
\* The steps, sorted by what they do to accounts.  A still step moves no
\* request and at most ends sessions, changes counters or the setup token.
Still ==
    /\ UNCHANGED <<user, codeLock, issued, req, redeemed, setupLock, bootstraps, crashes, use>>
    /\ setup'.admin = setup.admin /\ setup'.initialized = setup.initialized
    /\ \A t \in Tokens : session'[t] \in {session[t], None}

\* A quiet step of request r begins, counts or refuses something.
Quiet(r) ==
    /\ UNCHANGED <<user, codeLock, session, issued, redeemed, setupVars, crashes, use>>
    /\ \/ req' = req
       \/ \E pc, u, op :
             /\ Moves(r, pc, u, op, None, FALSE)
             /\ req[r].pc \notin {"verify", "passed", "answer", "revoke", "commit",
                                  "bootstrap", "initialize", "accepted"}
             /\ \/ pc \in {"idle", "rejected", "expire", "setup"}
                \/ pc \in {"verify", "enroll", "confirm", "finish"} /\ u \in Users /\ user[u].active
                \/ pc = "recount" /\ u = req[r].user /\ req[r].pc = "failed"
                \/ pc = "login" /\ u \in use.callers

LEMMA StillSteps ==
    ASSUME TypeInv,
           \/ UNCHANGED vars
           \/ Expiry /\ UNCHANGED <<loginVars, setupVars, crashes, use>>
           \/ \E t \in Tokens : (Logout(t) \/ ChangePassword(t)) /\ UNCHANGED <<setupVars, crashes, use>>
           \/ \E t \in Tokens, enabled \in BOOLEAN :
                 UpdateLdapConfig(t, enabled) /\ UNCHANGED <<setupVars, crashes, use>>
           \/ (RegenerateSetupToken \/ SetupTokenExpires) /\ UNCHANGED <<crashes, use>>
    PROVE  Still
<1> USE TypeFacts DEF Still, loginVars, setupVars, storeVars
<1>1. CASE UNCHANGED vars
  BY <1>1 DEF vars
<1>2. CASE Expiry /\ UNCHANGED <<loginVars, setupVars, crashes, use>>
  BY <1>2 DEF Expiry, WindowEnds, ChallengeExpires, SessionExpires
<1>3. ASSUME NEW t \in Tokens, Logout(t) \/ ChangePassword(t), UNCHANGED <<setupVars, crashes, use>>
      PROVE  Still
  BY <1>3 DEF Logout, ChangePassword, RevokeAllSessions
<1>4. ASSUME NEW t \in Tokens, NEW enabled \in BOOLEAN, UpdateLdapConfig(t, enabled),
             UNCHANGED <<setupVars, crashes, use>>
      PROVE  Still
  BY <1>4 DEF UpdateLdapConfig
<1>5. CASE (RegenerateSetupToken \/ SetupTokenExpires) /\ UNCHANGED <<crashes, use>>
  BY <1>5 DEF RegenerateSetupToken, SetupTokenExpires, SetupRows
<1> QED
  BY <1>1, <1>2, <1>3, <1>4, <1>5

LEMMA QuietSteps ==
    ASSUME TypeInv, NEW r \in Requests, UNCHANGED <<crashes, use>>,
           \/ /\ UNCHANGED setupVars
              /\ \/ \E u \in use.callers : BeginLogin(r, u)
                 \/ LdapRefuses(r)
                 \/ (CountFailure(r) \/ SetExpiry(r)) /\ UNCHANGED loginVars
                 \/ \E t \in Tokens : BeginVerify(r, t)
                 \/ ReadAttempts(r)
                 \/ WriteAttempts(r)
                 \/ \E t \in Tokens, op \in {"enroll", "confirm"} :
                       BeginEnrolment(r, t, op) \/ BeginSetupEnrolment(r, t, op)
                 \/ \E c \in Secrets \cup {None} : RefuseEnrolment(r, c)
           \/ \E u \in Users, boot \in Nat : BeginSetup(r, u, boot)
           \/ \E t \in Tokens : BeginFinish(r, t)
    PROVE  Quiet(r)
<1> USE DEF Quiet, loginVars, setupVars
<1>1. ASSUME UNCHANGED setupVars, NEW u \in use.callers, BeginLogin(r, u)
      PROVE  Quiet(r)
  <2>1. u \in Users
    BY TypeFacts DEF Uses
  <2>2. Moves(r, "login", u, "none", None, FALSE) /\ req[r].pc = "idle"
    BY <1>1, <2>1, BeginLoginMoves DEF BeginLogin, Free, At
  <2> QED
    BY <1>1, <2>2 DEF BeginLogin
<1>2. CASE UNCHANGED setupVars /\ LdapRefuses(r)
  <2>1. req[r].user \in Names /\ req[r].pc = "ldap"
    BY <1>2, HasUser DEF LdapRefuses, Free, At
  <2>2. Moves(r, "rejected", req[r].user, "none", None, FALSE)
    BY <1>2, <2>1, RejectMoves DEF LdapRefuses
  <2> QED
    BY <1>2, <2>1, <2>2 DEF LdapRefuses
<1>3. CASE UNCHANGED setupVars /\ CountFailure(r) /\ UNCHANGED loginVars
  <2>1. /\ req[r].pc = "rejected"
        /\ \/ Moves(r, "idle", None, "none", None, FALSE)
           \/ Moves(r, "expire", req[r].user, req[r].op, None, FALSE)
    BY <1>3, CountFailureMoves
  <2> QED
    BY <1>3, <2>1 DEF CountFailure
<1>4. CASE UNCHANGED setupVars /\ SetExpiry(r) /\ UNCHANGED loginVars
  <2>1. Moves(r, "idle", None, "none", None, FALSE) /\ req[r].pc = "expire"
    BY <1>4, FinishMoves DEF SetExpiry, At
  <2> QED
    BY <1>4, <2>1 DEF SetExpiry
<1>5. ASSUME UNCHANGED setupVars, NEW t \in Tokens, BeginVerify(r, t)
      PROVE  Quiet(r)
  <2>1. req[r].pc = "idle"
    BY <1>5 DEF BeginVerify, Free, At
  <2> QED
    BY <1>5, <2>1, BeginVerifyMoves DEF BeginVerify
<1>6. CASE UNCHANGED setupVars /\ ReadAttempts(r)
  <2>1. \/ Moves(r, "idle", None, "none", None, FALSE)
        \/ Moves(r, "recount", req[r].user, req[r].op, None, FALSE)
    BY <1>6, ReadAttemptsMoves
  <2>2. req[r].pc = "failed"
    BY <1>6, ReadAttemptsMoves
  <2> QED
    BY <1>6, <2>1, <2>2 DEF ReadAttempts
<1>7. CASE UNCHANGED setupVars /\ WriteAttempts(r)
  <2>1. Moves(r, "idle", None, "none", None, FALSE) /\ req[r].pc = "recount"
    BY <1>7, FinishMoves DEF WriteAttempts, At
  <2> QED
    BY <1>7, <2>1 DEF WriteAttempts
<1>8. ASSUME UNCHANGED setupVars, NEW t \in Tokens, NEW op \in {"enroll", "confirm"},
             BeginEnrolment(r, t, op)
      PROVE  Quiet(r)
  <2>1. req[r].pc = "idle"
    BY <1>8 DEF BeginEnrolment, Free, At
  <2> QED
    BY <1>8, <2>1, BeginEnrolmentMoves DEF BeginEnrolment
<1>9. ASSUME UNCHANGED setupVars, NEW t \in Tokens, NEW op \in {"enroll", "confirm"},
             BeginSetupEnrolment(r, t, op)
      PROVE  Quiet(r)
  <2>1. req[r].pc = "idle"
    BY <1>9 DEF BeginSetupEnrolment, Free, At
  <2> QED
    BY <1>9, <2>1, BeginSetupEnrolmentMoves DEF BeginSetupEnrolment
<1>10. ASSUME UNCHANGED setupVars, NEW c \in Secrets \cup {None}, RefuseEnrolment(r, c)
       PROVE  Quiet(r)
  <2>1. Moves(r, "idle", None, "none", None, FALSE) /\ req[r].pc = "confirm"
    BY <1>10, FinishMoves DEF RefuseEnrolment, At
  <2> QED
    BY <1>10, <2>1 DEF RefuseEnrolment
<1>11. ASSUME NEW u \in Users, NEW boot \in Nat, BeginSetup(r, u, boot)
       PROVE  Quiet(r)
  <2>1. Moves(r, "setup", u, "none", None, FALSE) /\ req[r].pc = "idle"
    BY <1>11, BeginSetupMoves DEF Free, At
  <2> QED
    BY <1>11, <2>1 DEF BeginSetup
<1>12. ASSUME NEW t \in Tokens, BeginFinish(r, t)
       PROVE  Quiet(r)
  <2>1. req[r].pc = "idle"
    BY <1>12 DEF BeginFinish, Free, At
  <2> QED
    BY <1>12, <2>1, BeginFinishMoves DEF BeginFinish
<1> QED
  BY <1>1, <1>2, <1>3, <1>4, <1>5, <1>6, <1>7, <1>8, <1>9, <1>10, <1>11, <1>12

\* The others, one by one.
Telling(r) ==
    \/ /\ UNCHANGED <<setupVars, crashes, use>>
       /\ \/ \E matches \in BOOLEAN : LocalAuthenticate(r, matches)
          \/ \E mapped \in SUBSET RoleName : LdapBinds(r, mapped)
          \/ CompleteLogin(r)
          \/ \E c \in Secrets \cup Codes \cup {None} : CheckFactor(r, c)
          \/ OpenVerified(r)
          \/ CommitVerified(r)
          \/ CommitSecret(r)
          \/ \E c \in Secrets \cup {None} : CommitEnrolment(r, c)
          \/ \E t \in Tokens, c \in Secrets \cup Codes : BeginResetSelf(r, t, c)
          \/ \E t \in Tokens, op \in AdminOps, u \in Users, role \in RoleName :
                BeginAdmin(r, t, op, u, role)
          \/ RevokeSessions(r)
          \/ CommitAdmin(r)
    \/ /\ UNCHANGED <<crashes, use>>
       /\ \/ CreateBootstrapAdmin(r)
          \/ CommitBootstrapAdmin(r)
          \/ \E c \in Secrets \cup {None} : CompleteBootstrap(r, c)
          \/ CommitInitialized(r)
    \/ Crash(r) /\ UNCHANGED use

LEMMA StepKinds ==
    ASSUME TypeInv, [Next]_vars
    PROVE  \/ Still
           \/ \E r \in Requests : Quiet(r) \/ Telling(r)
           \/ \E u \in Users, enable \in BOOLEAN :
                 BreakGlass(u, enable) /\ UNCHANGED <<setupVars, crashes, use>>
<1>1. CASE UNCHANGED vars
  BY <1>1, StillSteps
<1>2. ASSUME NEW r \in Requests, LoginStep(r), UNCHANGED <<setupVars, crashes, use>>
      PROVE  Quiet(r) \/ Telling(r)
  BY <1>2, QuietSteps DEF LoginStep, Telling
<1>3. ASSUME NEW r \in Requests, AdminStep(r), UNCHANGED <<setupVars, crashes, use>>
      PROVE  Telling(r)
  <2>1. "USER" \in RoleName /\ use.grants \subseteq RoleName
          /\ use.admin \ {"role", "create", "ldap", "breakglass"} \subseteq AdminOps
          /\ use.admin \cap {"role", "create"} \subseteq AdminOps
    BY TypeFacts DEF RoleName, Uses, AdminOps
  <2> QED
    BY <1>3, <2>1 DEF AdminStep, Telling
<1>4. ASSUME NEW r \in Requests, SetupStep(r), UNCHANGED <<crashes, use>>
      PROVE  Quiet(r) \/ Telling(r)
  <2>1. 1 .. use.boots \subseteq Nat
    BY TypeFacts DEF Uses
  <2> QED
    BY <1>4, <2>1, QuietSteps DEF SetupStep, Telling
<1>5. ASSUME NEW r \in Requests, Crash(r), UNCHANGED use
      PROVE  Telling(r)
  BY <1>5 DEF Telling
<1> QED
  BY <1>1, <1>2, <1>3, <1>4, <1>5, StillSteps DEF Next, Act, Direct

-----------------------------------------------------------------------------
\* One bootstrap administrator.  A step that leaves the setup row alone and
\* brings no request into a setup transaction keeps SetupInv.
LEMMA SetupFrame ==
    ASSUME SetupInv, NEW r \in Requests,
           \A q \in Requests : q # r => req'[q].pc = req[q].pc /\ req'[q].write = req[q].write,
           req'[r].pc \notin {"bootstrap", "initialize"},
           setup'.admin = setup.admin, UNCHANGED <<setupLock, bootstraps>>
    PROVE  SetupInv'
  BY DEF SetupInv, At, OneBootstrapAdmin

LEMMA SetupInvTelling ==
    ASSUME TypeInv, SetupInv, NEW r \in Requests, Telling(r)
    PROVE  SetupInv'
<1> USE DEF setupVars
<1>1. ASSUME NEW matches \in BOOLEAN, LocalAuthenticate(r, matches), UNCHANGED setupVars
      PROVE  SetupInv'
  BY <1>1, LocalAuthenticateMoves, SetupFrame DEF Moves
<1>2. ASSUME NEW mapped \in SUBSET RoleName, LdapBinds(r, mapped), UNCHANGED setupVars
      PROVE  SetupInv'
  BY <1>2, LdapBindsMoves, SetupFrame DEF Moves
<1>3. CASE UNCHANGED setupVars /\ (CompleteLogin(r) \/ CommitVerified(r) \/ CommitSecret(r)
                                     \/ \E c \in Secrets \cup {None} : CommitEnrolment(r, c))
  <2>1. Finish(r)
    BY <1>3 DEF CompleteLogin, CommitVerified, CommitSecret, CommitEnrolment
  <2> QED
    BY <1>3, <2>1, FinishMoves, SetupFrame DEF Moves
<1>4. ASSUME NEW c \in Secrets \cup Codes \cup {None}, CheckFactor(r, c), UNCHANGED setupVars
      PROVE  SetupInv'
  BY <1>4, CheckFactorMoves, SetupFrame DEF Moves
<1>5. CASE UNCHANGED setupVars /\ OpenVerified(r)
  BY <1>5, OpenVerifiedMoves, SetupFrame DEF Moves
<1>6. ASSUME NEW t \in Tokens, NEW c \in Secrets \cup Codes, BeginResetSelf(r, t, c),
             UNCHANGED setupVars
      PROVE  SetupInv'
  BY <1>6, BeginResetSelfMoves, SetupFrame DEF Moves
<1>7. ASSUME NEW t \in Tokens, NEW op \in AdminOps, NEW u \in Users, NEW role \in RoleName,
             BeginAdmin(r, t, op, u, role), UNCHANGED setupVars
      PROVE  SetupInv'
  BY <1>7, BeginAdminMoves, SetupFrame DEF Moves
<1>8. CASE UNCHANGED setupVars /\ RevokeSessions(r)
  BY <1>8, RevokeSessionsMoves, SetupFrame DEF Moves
<1>9. CASE UNCHANGED setupVars /\ CommitAdmin(r)
  BY <1>9, CommitAdminMoves, IdleFields, SetupFrame
<1>10. CASE CreateBootstrapAdmin(r)
  <2>1. UNCHANGED <<setup, bootstraps>> /\ setupLock = None
    BY <1>10, BootstrapMoves DEF CreateBootstrapAdmin
  <2>2. \A q \in Requests : req[q].pc \notin {"bootstrap", "initialize"}
    BY <2>1, NoneAssumption DEF SetupInv
  <2>3. CASE /\ \E pc \in {"idle", "rejected"}, u \in Names \cup {None} :
                   Moves(r, pc, u, "none", None, FALSE)
             /\ setupLock' = setupLock
    BY <2>1, <2>3, SetupFrame DEF Moves
  <2>4. CASE /\ Moves(r, "bootstrap", setup.admin, "none", None, FALSE) /\ setupLock' = r
             /\ setup.admin # None
    BY <2>1, <2>2, <2>4 DEF Moves, SetupInv, At, OneBootstrapAdmin
  <2>5. CASE /\ Moves(r, "bootstrap", req[r].user, "none", None, TRUE) /\ setupLock' = r
             /\ setup.admin = None
    BY <2>1, <2>2, <2>5 DEF Moves, SetupInv, At, OneBootstrapAdmin
  <2> QED
    BY <1>10, <2>3, <2>4, <2>5, BootstrapMoves DEF Names
<1>11. CASE CommitBootstrapAdmin(r)
  <2>1. req[r].user \in Users /\ req[r].pc = "bootstrap" /\ req[r].write \in BOOLEAN
    BY <1>11, HasUser DEF CommitBootstrapAdmin, At, Handlers
  <2>2. setupLock = r
    BY <2>1 DEF SetupInv
  <2>3. Moves(r, "idle", None, "none", None, FALSE)
    BY <1>11, FinishMoves DEF CommitBootstrapAdmin
  <2>4. \A q \in Requests : req'[q].pc \notin {"bootstrap", "initialize"}
    BY <2>2, <2>3 DEF Moves, SetupInv
  <2>5. setup'.admin = req[r].user /\ req[r].user # None
    BY <1>11, <2>1, TypeFacts, NoneAssumption DEF CommitBootstrapAdmin, SetupRows
  <2>6. bootstraps' <= 1
    <3>1. CASE req[r].write
      BY <1>11, <2>1, <3>1, TypeFacts DEF CommitBootstrapAdmin, SetupInv, At, OneBootstrapAdmin
    <3>2. CASE ~req[r].write
      BY <1>11, <3>2, TypeFacts DEF CommitBootstrapAdmin, SetupInv, OneBootstrapAdmin
    <3> QED
      BY <3>1, <3>2
  <2> QED
    BY <2>4, <2>5, <2>6 DEF SetupInv, At, OneBootstrapAdmin
<1>12. ASSUME NEW c \in Secrets \cup {None}, CompleteBootstrap(r, c)
       PROVE  SetupInv'
  <2>1. UNCHANGED <<setup, bootstraps>> /\ setupLock = None /\ req[r].user \in Users
    BY <1>12, CompleteBootstrapMoves DEF CompleteBootstrap
  <2>2. \A q \in Requests : req[q].pc \notin {"bootstrap", "initialize"}
    BY <2>1, NoneAssumption DEF SetupInv
  <2>3. CASE Moves(r, "idle", None, "none", None, FALSE) /\ setupLock' = setupLock
    BY <2>1, <2>3, SetupFrame DEF Moves
  <2>4. CASE /\ Moves(r, "initialize", req[r].user, "none", None, FALSE) /\ setupLock' = r
             /\ setup.admin = req[r].user
    BY <2>1, <2>2, <2>4, NoneAssumption DEF Moves, SetupInv, At, OneBootstrapAdmin
  <2> QED
    BY <1>12, <2>3, <2>4, CompleteBootstrapMoves
<1>13. CASE CommitInitialized(r)
  <2>1. setupLock = r
    BY <1>13 DEF CommitInitialized, SetupInv, At
  <2>2. Moves(r, "idle", None, "none", None, FALSE)
    BY <1>13, FinishMoves DEF CommitInitialized
  <2>3. \A q \in Requests : req'[q].pc \notin {"bootstrap", "initialize"}
    BY <2>1, <2>2 DEF Moves, SetupInv
  <2>4. setup'.admin = setup.admin /\ bootstraps' = bootstraps
    BY <1>13, TypeFacts DEF CommitInitialized, SetupRows
  <2> QED
    BY <2>3, <2>4 DEF SetupInv, At, OneBootstrapAdmin
<1>14. CASE Crash(r)
  <2>1. Moves(r, "idle", None, "none", None, FALSE)
    BY <1>14, FinishMoves DEF Crash
  <2> QED
    BY <1>14, <2>1 DEF Crash, Moves, SetupInv, At, OneBootstrapAdmin
<1> QED
  BY <1>1, <1>2, <1>3, <1>4, <1>5, <1>6, <1>7, <1>8, <1>9, <1>10, <1>11, <1>12, <1>13, <1>14
     DEF Telling

LEMMA SetupInit == Init => SetupInv
  BY IdleFields DEF Init, InitFrom, SetupInv, At, OneBootstrapAdmin

LEMMA SetupInvStep == TypeInv /\ SetupInv /\ [Next]_vars => SetupInv'
<1> SUFFICES ASSUME TypeInv, SetupInv, [Next]_vars
             PROVE  SetupInv'
  OBVIOUS
<1> USE DEF setupVars
<1>1. CASE Still
  BY <1>1 DEF Still, SetupInv, At, OneBootstrapAdmin
<1>2. ASSUME NEW r \in Requests, Quiet(r)
      PROVE  SetupInv'
  <2>1. CASE req' = req
    BY <1>2, <2>1 DEF Quiet, SetupInv, At, OneBootstrapAdmin
  <2>2. ASSUME NEW pc, NEW u, NEW op, Moves(r, pc, u, op, None, FALSE),
               pc \in {"idle", "rejected", "expire", "setup", "verify", "enroll", "confirm",
                       "finish", "recount", "login"}
        PROVE  SetupInv'
    BY <1>2, <2>2, SetupFrame DEF Quiet, Moves
  <2> QED
    BY <1>2, <2>1, <2>2 DEF Quiet
<1>3. ASSUME NEW u \in Users, NEW enable \in BOOLEAN, BreakGlass(u, enable),
             UNCHANGED <<setupVars, crashes, use>>
      PROVE  SetupInv'
  BY <1>3 DEF BreakGlass, SetupInv, At, OneBootstrapAdmin
<1> QED
  BY <1>1, <1>2, <1>3, SetupInvTelling, StepKinds

\* First-run setup creates one administrator: however setup calls interleave,
\* whichever tokens are renewed and wherever a request dies, the locked
\* system_state row lets create_bootstrap_admin insert once.
THEOREM BootstrapOnce == Spec => []OneBootstrapAdmin
<1>1. SetupInv => OneBootstrapAdmin
  BY DEF SetupInv
<1> QED
  BY <1>1, SetupInit, TypeInit, TypeStep, SetupInvStep, PTL DEF Spec

-----------------------------------------------------------------------------
\* Accounts.  The parts of a request that RequestThere speaks about.
SameRequest(q) ==
    /\ req'[q].pc = req[q].pc /\ req'[q].user = req[q].user /\ req'[q].op = req[q].op
    /\ req'[q].row = req[q].row /\ req'[q].write = req[q].write

\* No row comes, goes or gets a password.
SameAccounts ==
    /\ user' \in [Users -> UserRows]
    /\ \A u \in Users : user'[u].exists = user[u].exists /\ user'[u].local = user[u].local

LEMMA AccountFacts ==
    ASSUME TypeInv, NEW r \in Requests
    PROVE  /\ req[r].pc \notin {"idle", "rejected", "expire"} => req[r].user \in Users
           /\ req[r].write => req[r].user \in Users
           /\ req[r].write \in BOOLEAN
           /\ req[r].row \in UserRows
  BY TypeFacts DEF Shape, Handlers

\* A step that inserts no row: the request that moves must fit the accounts.
LEMMA AccountFrame ==
    ASSUME TypeInv, AccountInv, NEW r \in Requests,
           SameAccounts, RowsThere', NamedThere',
           \A q \in Requests : q # r => SameRequest(q),
           RequestThere(r)',
           req'[r].write => user[req'[r].user].exists \/ ~Inserting(req'[r].user),
           req'[r].write \in BOOLEAN,
           req'[r].write => req'[r].user \in Users
    PROVE  AccountInv'
<1>1. ASSUME NEW q \in Requests, q # r
      PROVE  RequestThere(q)'
  <2>1. RequestThere(q)
    BY DEF AccountInv
  <2>2. SameRequest(q) /\ req'[q].user = req[q].user
    BY <1>1 DEF SameRequest
  <2>3. CASE req[q].user \in Users
    <3>1. /\ user'[req[q].user].exists = user[req[q].user].exists
          /\ user'[req[q].user].local = user[req[q].user].local
      BY <2>3 DEF SameAccounts
    <3> QED
      BY <2>1, <2>2, <3>1 DEF RequestThere, At, SameRequest
  <2>4. CASE req[q].pc \in {"idle", "rejected", "expire"}
    BY <2>2, <2>4 DEF RequestThere, At, SameRequest
  <2> QED
    BY <2>3, <2>4, AccountFacts
<1>2. InsertsAlone'
  <2> SUFFICES ASSUME NEW p \in Requests, NEW q \in Requests, p # q, req'[p].write, req'[q].write,
                      req'[p].user = req'[q].user
               PROVE  user'[req'[p].user].exists
    BY DEF InsertsAlone
  <2>1. req'[p].user \in Users
    BY AccountFacts DEF SameRequest
  <2>2. CASE p # r /\ q # r
    BY <2>1, <2>2 DEF AccountInv, InsertsAlone, SameRequest, SameAccounts
  <2>3. CASE p = r
    BY <2>1, <2>3 DEF Inserting, SameRequest, SameAccounts
  <2>4. CASE q = r
    BY <2>1, <2>4 DEF Inserting, SameRequest, SameAccounts
  <2> QED
    BY <2>2, <2>3, <2>4
<1> QED
  BY <1>1, <1>2 DEF AccountInv

\* A step that inserts the row of the request it finishes.
LEMMA AccountInsert ==
    ASSUME TypeInv, AccountInv, NEW r \in Requests, NEW row \in UserRows,
           req[r].write, ~user[req[r].user].exists,
           user' = [user EXCEPT ![req[r].user] = row], row.exists,
           NamedThere',
           \A q \in Requests : q # r => SameRequest(q),
           req'[r].pc = "idle", req'[r].write = FALSE
    PROVE  AccountInv'
<1> DEFINE u == req[r].user
<1>1. u \in Users /\ user \in [Users -> UserRows]
  BY TypeFacts, AccountFacts
<1>2. RowsThere'
  BY <1>1 DEF AccountInv, RowsThere
<1>3. ASSUME NEW q \in Requests, q # r
      PROVE  RequestThere(q)' /\ (req[q].write => req[q].user # u)
  <2>1. RequestThere(q)
    BY DEF AccountInv
  <2>2. req[q].write => req[q].user # u
    BY <1>3 DEF AccountInv, InsertsAlone
  <2>3. CASE req[q].user = u
    BY <1>1, <1>3, <2>1, <2>2, <2>3, AccountFacts DEF RequestThere, At, SameRequest
  <2>4. CASE req[q].user # u
    BY <1>1, <1>3, <2>1, <2>4, AccountFacts DEF RequestThere, At, SameRequest
  <2> QED
    BY <2>2, <2>3, <2>4
<1>4. RequestThere(r)'
  BY DEF RequestThere, At
<1>5. InsertsAlone'
  <2> SUFFICES ASSUME NEW p \in Requests, NEW q \in Requests, p # q, req'[p].write, req'[q].write,
                      req'[p].user = req'[q].user
               PROVE  user'[req'[p].user].exists
    BY DEF InsertsAlone
  <2>1. p # r /\ q # r
    OBVIOUS
  <2>2. user[req[p].user].exists /\ req[p].user \in Users
    BY <2>1, AccountFacts DEF AccountInv, InsertsAlone, SameRequest
  <2> QED
    BY <1>1, <2>1, <2>2 DEF SameRequest
<1> QED
  BY <1>2, <1>3, <1>4, <1>5 DEF AccountInv

\* Steps that leave the users table alone.
LEMMA AccountMoves ==
    ASSUME TypeInv, AccountInv, NEW r \in Requests, NEW pc, NEW u, NEW op, NEW code,
           Moves(r, pc, u, op, code, FALSE),
           user' = user, setup'.admin = setup.admin,
           \A t \in Tokens : session'[t] # None =>
               session'[t] = session[t] \/ user[session'[t].user].exists,
           \/ pc \in {"idle", "rejected", "expire", "login", "setup"}
           \/ /\ pc \in {"verify", "passed", "failed", "recount", "answer", "enroll", "confirm",
                         "revoke", "finish", "initialize", "bootstrap", "commit"}
              /\ user[u].exists /\ op # "create"
    PROVE  AccountInv'
<1>1. SameAccounts /\ RowsThere'
  BY TypeFacts DEF SameAccounts, AccountInv, RowsThere
<1>2. NamedThere'
  BY DEF AccountInv, NamedThere
<1>3. RequestThere(r)'
  BY DEF Moves, RequestThere, At
<1>4. \A q \in Requests : q # r => SameRequest(q)
  BY DEF Moves, SameRequest
<1>5. req'[r].write = FALSE
  BY DEF Moves
<1> QED
  BY <1>1, <1>2, <1>3, <1>4, <1>5, AccountFrame

LEMMA LoginAccount ==
    ASSUME TypeInv, AccountInv, NEW r \in Requests, UNCHANGED setupVars,
           \/ \E matches \in BOOLEAN : LocalAuthenticate(r, matches)
           \/ \E mapped \in SUBSET RoleName : LdapBinds(r, mapped)
           \/ CompleteLogin(r)
    PROVE  AccountInv'
<1> USE DEF setupVars
<1>1. ASSUME NEW matches \in BOOLEAN, LocalAuthenticate(r, matches)
      PROVE  AccountInv'
  <2> DEFINE u == req[r].user
  <2>1. UNCHANGED <<user, session>> /\ u \in Users
    BY <1>1, LocalAuthenticateMoves DEF LocalAuthenticate
  <2>2. SameAccounts /\ RowsThere' /\ NamedThere'
    BY <2>1, TypeFacts DEF SameAccounts, AccountInv, RowsThere, NamedThere
  <2>3. CASE /\ Moves(r, "accepted", u, req[r].op, None, FALSE)
             /\ user[u].exists
    <3>1. RequestThere(r)'
      BY <2>1, <2>3 DEF Moves, RequestThere, At
    <3>2. \A q \in Requests : q # r => SameRequest(q)
      BY <2>3 DEF Moves, SameRequest
    <3>3. req'[r].write = FALSE
      BY <2>3 DEF Moves
    <3> QED
      BY <2>2, <3>1, <3>2, <3>3, AccountFrame
  <2>4. CASE Moves(r, "rejected", u, "none", None, FALSE)
    BY <2>1, <2>4, AccountMoves
  <2>5. CASE /\ Moves(r, "ldap", u, req[r].op, None, FALSE)
             /\ req'[r].row = user[u]
             /\ ~(user[u].exists /\ user[u].local)
    <3>1. RequestThere(r)'
      BY <2>1, <2>5 DEF Moves, RequestThere, At
    <3>2. \A q \in Requests : q # r => SameRequest(q)
      BY <2>5 DEF Moves, SameRequest
    <3>3. req'[r].write = FALSE
      BY <2>5 DEF Moves
    <3> QED
      BY <2>2, <3>1, <3>2, <3>3, AccountFrame
  <2> QED
    BY <1>1, <2>3, <2>4, <2>5, LocalAuthenticateMoves
<1>2. ASSUME NEW mapped \in SUBSET RoleName, LdapBinds(r, mapped)
      PROVE  AccountInv'
  <2> DEFINE u == req[r].user
             row == IF req[r].row.exists THEN req[r].row ELSE user[u]
  <2>1. UNCHANGED <<user, session>> /\ u \in Users /\ req[r].pc = "ldap"
    BY <1>2, LdapBindsMoves DEF LdapBinds
  <2>2. SameAccounts /\ RowsThere' /\ NamedThere'
    BY <2>1, TypeFacts DEF SameAccounts, AccountInv, RowsThere, NamedThere
  <2>r. RequestThere(r)
    BY DEF AccountInv
  <2>3. ASSUME row.exists, NEW write \in BOOLEAN, Moves(r, "accepted", u, req[r].op, None, write),
               write => ~row.local
        PROVE  AccountInv'
    <3>0. user[u].exists /\ (write => ~user[u].local)
      BY <2>1, <2>r, <2>3 DEF RequestThere, At
    <3>1. RequestThere(r)'
      BY <2>1, <2>3, <3>0 DEF Moves, RequestThere, At
    <3>2. \A q \in Requests : q # r => SameRequest(q)
      BY <2>3 DEF Moves, SameRequest
    <3>3. req'[r].write \in BOOLEAN /\ req'[r].user = u
      BY <2>3 DEF Moves
    <3> QED
      BY <2>1, <2>2, <3>0, <3>1, <3>2, <3>3, AccountFrame
  <2>4. CASE Moves(r, "rejected", u, "none", None, FALSE)
    BY <2>1, <2>4, AccountMoves
  <2>5. ASSUME ~row.exists, ~Inserting(u), Moves(r, "accepted", u, req[r].op, None, TRUE),
               req'[r].row = NewUser(FALSE, req'[r].row.role)
        PROVE  AccountInv'
    <3>0. ~user[u].exists
      BY <2>5
    <3>1. RequestThere(r)'
      BY <2>1, <2>5, <3>0 DEF Moves, RequestThere, At
    <3>2. \A q \in Requests : q # r => SameRequest(q)
      BY <2>5 DEF Moves, SameRequest
    <3>3. req'[r].write = TRUE /\ req'[r].user = u
      BY <2>5 DEF Moves
    <3> QED
      BY <2>1, <2>2, <2>5, <3>1, <3>2, <3>3, AccountFrame
  <2>6. CASE Moves(r, "idle", None, "none", None, FALSE)
    BY <2>1, <2>6, AccountMoves
  <2> QED
    BY <1>2, <2>3, <2>4, <2>5, <2>6, LdapBindsMoves
<1>3. CASE CompleteLogin(r)
  <2> DEFINE u == req[r].user
             row == req[r].row
  <2>1. u \in Users /\ req[r].pc = "accepted" /\ row \in UserRows
    BY <1>3, AccountFacts DEF CompleteLogin, At
  <2>2. Moves(r, "idle", None, "none", None, FALSE)
    BY <1>3, FinishMoves DEF CompleteLogin
  <2>3. \A q \in Requests : q # r => SameRequest(q)
    BY <2>2 DEF Moves, SameRequest
  <2>4. user' = [user EXCEPT ![u] = IF ~req[r].write THEN @
                                    ELSE IF @.exists THEN [@ EXCEPT !.role = row.role]
                                    ELSE row]
    BY <1>3 DEF CompleteLogin
  <2>5. RequestThere(r)
    BY DEF AccountInv
  <2>6. \A t \in Tokens : session'[t] # None => session'[t] = session[t] \/ session'[t].user = u
    <3>1. session' = session \/ \E t \in Tokens : \E late : Open(t, u, FALSE, TRUE, late)
      BY <1>3, FreshType DEF CompleteLogin
    <3> QED
      BY <3>1, TypeFacts DEF Open
  <2>7. CASE req[r].write /\ ~user[u].exists
    <3>1. user' = [user EXCEPT ![u] = row]
      BY <2>1, <2>4, <2>7
    <3>2. row.exists
      <4>1. row = NewUser(FALSE, row.role) /\ row.role \in RoleName
        BY <2>1, <2>5, <2>7 DEF RequestThere, At, UserRows
      <4> QED
        BY <4>1, NewUserType
    <3>3. \A v \in Users : user[v].exists => user'[v].exists
      BY <2>1, <3>1, <3>2, TypeFacts
    <3>4. user'[u].exists
      BY <2>1, <3>1, <3>2, TypeFacts
    <3>5. NamedThere'
      BY <2>6, <3>3, <3>4, TypeFacts DEF NamedThere, AccountInv, SetupRows, Logins
    <3> QED
      BY <2>1, <2>2, <2>3, <2>7, <3>1, <3>2, <3>5, AccountInsert DEF Moves
  <2>8. CASE ~(req[r].write /\ ~user[u].exists)
    <3>1. user[u].exists
      BY <2>1, <2>5, <2>8, AccountFacts DEF RequestThere, At
    <3>2. /\ [user[u] EXCEPT !.role = row.role] \in UserRows
          /\ [user[u] EXCEPT !.role = row.role].exists = user[u].exists
          /\ [user[u] EXCEPT !.role = row.role].local = user[u].local
      BY <2>1, TypeFacts DEF UserRows
    <3>3. SameAccounts /\ \A v \in Users : v # u => user'[v] = user[v]
      BY <2>1, <2>4, <3>1, <3>2, TypeFacts DEF SameAccounts
    <3>4. RowsThere' /\ NamedThere'
      BY <2>1, <2>6, <3>1, <3>3, TypeFacts DEF SameAccounts, RowsThere, NamedThere, AccountInv,
         SetupRows, Logins
    <3>5. RequestThere(r)' /\ req'[r].write = FALSE
      BY <2>2 DEF Moves, RequestThere, At
    <3> QED
      BY <2>3, <3>3, <3>4, <3>5, AccountFrame
  <2> QED
    BY <2>7, <2>8
<1> QED
  BY <1>1, <1>2, <1>3

\* A token that reaches its client changes nothing else about its session.
LEMMA HeldSame ==
    ASSUME TypeInv, NEW t \in Tokens,
           session' = [session EXCEPT ![t] = IF @ = None THEN None ELSE [@ EXCEPT !.held = TRUE]]
    PROVE  \A s \in Tokens : session'[s] # None =>
               /\ session[s] # None /\ session'[s].user = session[s].user
               /\ session'[s].factor = session[s].factor
               /\ session'[s].overtaken = session[s].overtaken
  BY TypeFacts DEF Logins

\* A commit that changes the row of an account that is there.
LEMMA AccountUpdate ==
    ASSUME TypeInv, AccountInv, NEW r \in Requests, NEW u \in Users,
           user[u].exists, user' \in [Users -> UserRows],
           \A v \in Users : v # u => user'[v] = user[v],
           user'[u].exists = user[u].exists, user'[u].local = user[u].local,
           \A q \in Requests : q # r => SameRequest(q),
           req'[r].pc = "idle", req'[r].write = FALSE,
           setup'.admin = setup.admin,
           \A t \in Tokens : session'[t] # None =>
               \/ session[t] # None /\ session'[t].user = session[t].user
               \/ session'[t].user = u
    PROVE  AccountInv'
<1>1. SameAccounts
  BY DEF SameAccounts
<1>2. RowsThere' /\ NamedThere'
  BY <1>1, TypeFacts DEF SameAccounts, RowsThere, NamedThere, AccountInv, SetupRows, Logins
<1>3. RequestThere(r)'
  BY DEF RequestThere, At
<1> QED
  BY <1>1, <1>2, <1>3, AccountFrame

LEMMA FactorAccount ==
    ASSUME TypeInv, AccountInv, NEW r \in Requests, UNCHANGED setupVars,
           \/ \E c \in Secrets \cup Codes \cup {None} : CheckFactor(r, c)
           \/ OpenVerified(r)
           \/ CommitVerified(r)
           \/ CommitSecret(r)
           \/ \E c \in Secrets \cup {None} : CommitEnrolment(r, c)
           \/ \E t \in Tokens, c \in Secrets \cup Codes : BeginResetSelf(r, t, c)
    PROVE  AccountInv'
<1> USE DEF setupVars
<1> DEFINE u == req[r].user
<1>r. RequestThere(r)
  BY DEF AccountInv
<1>1. ASSUME NEW c \in Secrets \cup Codes \cup {None}, CheckFactor(r, c)
      PROVE  AccountInv'
  <2>1. UNCHANGED <<user, session>> /\ user[u].exists
    BY <1>1, <1>r, CheckFactorMoves DEF CheckFactor, RequestThere
  <2>2. req[r].op # "create" \/ req[r].op = "create"
    OBVIOUS
  <2>3. \E pc \in {"passed", "failed"}, code \in {c, None} :
           Moves(r, pc, u, req[r].op, code, FALSE)
    BY <1>1, CheckFactorMoves
  <2>4. RequestThere(r)' /\ req'[r].write = FALSE
    BY <2>1, <2>3 DEF Moves, RequestThere, At
  <2>5. \A q \in Requests : q # r => SameRequest(q)
    BY <2>3 DEF Moves, SameRequest
  <2>6. SameAccounts /\ RowsThere' /\ NamedThere'
    BY <2>1, TypeFacts DEF SameAccounts, AccountInv, RowsThere, NamedThere
  <2> QED
    BY <2>4, <2>5, <2>6, AccountFrame
<1>2. CASE OpenVerified(r)
  <2>1. user' = user /\ user[u].exists /\ u \in Users
    BY <1>2, <1>r, OpenVerifiedMoves DEF OpenVerified, RequestThere
  <2>2. PICK t \in Tokens :
           /\ session' = [session EXCEPT ![t] = [user |-> u, factor |-> TRUE,
                                                 held |-> FALSE, overtaken |-> FALSE]]
           /\ Moves(r, "answer", u, "none", req[r].code, FALSE)
    BY <1>2, OpenVerifiedMoves
  <2>3. \A s \in Tokens : session'[s] # None =>
            session'[s] = session[s] \/ user[session'[s].user].exists
    BY <2>1, <2>2, TypeFacts
  <2> QED
    BY <2>1, <2>2, <2>3, AccountMoves
<1>3. CASE CommitVerified(r)
  <2>1. u \in Users /\ user[u].exists /\ req[r].tok \in Tokens
    BY <1>3, <1>r, HasUser DEF CommitVerified, At, RequestThere
  <2>2. /\ user' \in [Users -> UserRows]
        /\ \A v \in Users : v # u => user'[v] = user[v]
        /\ user'[u].exists = user[u].exists /\ user'[u].local = user[u].local
    BY <1>3, <2>1, TypeFacts, SpendType DEF CommitVerified
  <2>3. Moves(r, "idle", None, "none", None, FALSE)
    BY <1>3, FinishMoves DEF CommitVerified
  <2>4. \A t \in Tokens : session'[t] # None => session[t] # None /\ session'[t].user = session[t].user
    BY <1>3, <2>1, HeldSame DEF CommitVerified
  <2>5. \A q \in Requests : q # r => SameRequest(q)
    BY <2>3 DEF Moves, SameRequest
  <2> QED
    BY <2>1, <2>2, <2>3, <2>4, <2>5, AccountUpdate DEF Moves
<1>4. CASE CommitSecret(r)
  <2>1. u \in Users /\ user[u].exists
    BY <1>4, <1>r, HasUser DEF CommitSecret, At, RequestThere
  <2>2. /\ user' \in [Users -> UserRows]
        /\ \A v \in Users : v # u => user'[v] = user[v]
        /\ user'[u].exists = user[u].exists /\ user'[u].local = user[u].local
    BY <1>4, <2>1, TypeFacts, SecretType DEF CommitSecret
  <2>3. Moves(r, "idle", None, "none", None, FALSE) /\ session' = session
    BY <1>4, FinishMoves DEF CommitSecret
  <2>4. \A q \in Requests : q # r => SameRequest(q)
    BY <2>3 DEF Moves, SameRequest
  <2> QED
    BY <2>1, <2>2, <2>3, <2>4, AccountUpdate DEF Moves
<1>5. ASSUME NEW c \in Secrets \cup {None}, CommitEnrolment(r, c)
      PROVE  AccountInv'
  <2>1. u \in Users /\ user[u].exists
    BY <1>5, <1>r, HasUser DEF CommitEnrolment, At, RequestThere
  <2>2. /\ user' \in [Users -> UserRows]
        /\ \A v \in Users : v # u => user'[v] = user[v]
        /\ user'[u].exists = user[u].exists /\ user'[u].local = user[u].local
    <3>1. PICK k \in FreshCodes : user' = [user EXCEPT ![u] = Enrolled(@, k)]
      BY <1>5 DEF CommitEnrolment
    <3>2. k \in Codes /\ user[u] \in UserRows
      BY <2>1, TypeFacts, FreshType
    <3> QED
      BY <2>1, <3>1, <3>2, TypeFacts, EnrolledType
  <2>3. Moves(r, "idle", None, "none", None, FALSE)
    BY <1>5, FinishMoves DEF CommitEnrolment
  <2>4. session' = session \/ \E t \in Tokens : Open(t, u, TRUE, TRUE, FALSE)
    BY <1>5, FreshType DEF CommitEnrolment
  <2>5. \A t \in Tokens : session'[t] # None =>
            (session[t] # None /\ session'[t].user = session[t].user) \/ session'[t].user = u
    BY <2>4, TypeFacts DEF Open
  <2>6. \A q \in Requests : q # r => SameRequest(q)
    BY <2>3 DEF Moves, SameRequest
  <2> QED
    BY <2>1, <2>2, <2>3, <2>5, <2>6, AccountUpdate DEF Moves
<1>6. ASSUME NEW t \in Tokens, NEW c \in Secrets \cup Codes, BeginResetSelf(r, t, c)
      PROVE  AccountInv'
  <2>1. user[session[t].user].exists /\ UNCHANGED <<user, session>>
    BY <1>6, BeginResetSelfMoves, NoUserType DEF AccountInv, RowsThere, BeginResetSelf
  <2> QED
    BY <1>6, <2>1, BeginResetSelfMoves, AccountMoves
<1> QED
  BY <1>1, <1>2, <1>3, <1>4, <1>5, <1>6

LEMMA AdminAccount ==
    ASSUME TypeInv, AccountInv, NEW r \in Requests, UNCHANGED setupVars,
           \/ \E t \in Tokens, op \in AdminOps, u \in Users, role \in RoleName :
                 BeginAdmin(r, t, op, u, role)
           \/ RevokeSessions(r)
           \/ CommitAdmin(r)
    PROVE  AccountInv'
<1> USE DEF setupVars
<1>r. RequestThere(r)
  BY DEF AccountInv
<1>1. ASSUME NEW t \in Tokens, NEW op \in AdminOps, NEW u \in Users, NEW role \in RoleName,
             BeginAdmin(r, t, op, u, role)
      PROVE  AccountInv'
  <2>1. UNCHANGED <<user, session>> /\ Permits(op, session[t].user, u, role)
    BY <1>1 DEF BeginAdmin
  <2>2. IF op = "create" THEN ~user[u].exists /\ ~Inserting(u) ELSE user[u].exists
    BY <2>1 DEF Permits
  <2>3. op = "create" => ~Revokes(op, user[u], role)
    BY DEF Revokes
  <2>4. /\ req'[r].user = u /\ req'[r].op = op
        /\ req'[r].pc = IF Revokes(op, user[u], role) THEN "revoke" ELSE "commit"
        /\ req'[r].write = (op = "create")
        /\ \A q \in Requests : q # r => SameRequest(q)
    BY <1>1, BeginAdminMoves DEF Moves, SameRequest
  <2>5. RequestThere(r)'
    BY <2>1, <2>2, <2>3, <2>4 DEF RequestThere, At
  <2>6. SameAccounts /\ RowsThere' /\ NamedThere'
    BY <2>1, TypeFacts DEF SameAccounts, AccountInv, RowsThere, NamedThere
  <2> QED
    BY <2>2, <2>4, <2>5, <2>6, AccountFrame
<1>2. CASE RevokeSessions(r)
  <2>1. /\ user' = user /\ user[req[r].user].exists /\ req[r].op # "create"
        /\ Moves(r, "commit", req[r].user, req[r].op, req[r].code, FALSE)
    BY <1>2, <1>r, RevokeSessionsMoves DEF RevokeSessions, RequestThere, At
  <2>2. \A t \in Tokens : session'[t] # None => session'[t] = session[t]
    BY <1>2 DEF RevokeSessions, RevokeAllSessions
  <2> QED
    BY <2>1, <2>2, AccountMoves
<1>3. CASE CommitAdmin(r)
  <2> DEFINE u == req[r].user
             row == Written(req[r].op, req[r].row, user[u], req[r].role)
  <2>1. /\ u \in Users /\ req[r].pc = "commit" /\ req[r].row \in UserRows
        /\ req[r].role \in RoleName /\ req[r].op \in AdminOps \cup {"none"}
        /\ user[u] \in UserRows
    BY <1>3, CommitAdminMoves, TypeFacts DEF Handlers
  <2>2. \A q \in Requests : q # r => SameRequest(q)
    BY <1>3, CommitAdminMoves DEF SameRequest
  <2>3. req'[r].pc = "idle" /\ req'[r].write = FALSE
    BY <1>3, CommitAdminMoves, IdleFields
  <2>4. user' = [user EXCEPT ![u] = row] /\ session' = session
    BY <1>3 DEF CommitAdmin
  <2>5. CASE req[r].op = "create"
    <3>1. req[r].write /\ ~user[u].exists
      BY <1>r, <2>1, <2>5, AccountFacts DEF RequestThere, At
    <3>2. row \in UserRows /\ row.exists
      <4>1. row = NewUser(TRUE, req[r].role)
        BY <2>5 DEF Written
      <4> QED
        BY <2>1, <4>1, NewUserType
    <3>3. \A v \in Users : user[v].exists => user'[v].exists
      BY <2>1, <2>4, <3>2, TypeFacts
    <3>4. NamedThere'
      BY <2>4, <3>3, TypeFacts DEF NamedThere, AccountInv, SetupRows, Logins
    <3> HIDE DEF row
    <3> QED
      BY <2>2, <2>3, <2>4, <3>1, <3>2, <3>4, AccountInsert
  <2>6. CASE req[r].op # "create"
    <3>1. user[u].exists
      BY <1>r, <2>1, <2>6, AccountFacts DEF RequestThere, At
    <3>2. row \in UserRows /\ row.exists = user[u].exists /\ row.local = user[u].local
      <4>1. CASE req[r].op = "none"
        BY <2>1, <4>1 DEF Written
      <4>2. CASE req[r].op \in AdminOps
        BY <2>1, <2>6, <4>2, WrittenType, WrittenKeeps
      <4> QED
        BY <2>1, <4>1, <4>2
    <3> HIDE DEF row
    <3>3. /\ user' \in [Users -> UserRows]
          /\ \A v \in Users : v # u => user'[v] = user[v]
          /\ user'[u].exists = user[u].exists /\ user'[u].local = user[u].local
      BY <2>1, <2>4, <3>2, TypeFacts
    <3> QED
      BY <2>1, <2>2, <2>3, <2>4, <3>1, <3>3, AccountUpdate
  <2> QED
    BY <2>5, <2>6
<1> QED
  BY <1>1, <1>2, <1>3

LEMMA SetupAccount ==
    ASSUME TypeInv, SetupInv, AccountInv, NEW r \in Requests,
           \/ CreateBootstrapAdmin(r)
           \/ CommitBootstrapAdmin(r)
           \/ \E c \in Secrets \cup {None} : CompleteBootstrap(r, c)
           \/ CommitInitialized(r)
    PROVE  AccountInv'
<1> DEFINE u == req[r].user
<1>r. RequestThere(r)
  BY DEF AccountInv
<1>1. CASE CreateBootstrapAdmin(r)
  <2>1. UNCHANGED <<user, session, setup>> /\ u \in Users
    BY <1>1, BootstrapMoves DEF CreateBootstrapAdmin
  <2>2. SameAccounts /\ RowsThere' /\ NamedThere'
    BY <2>1, TypeFacts DEF SameAccounts, AccountInv, RowsThere, NamedThere
  <2>3. CASE \E pc \in {"idle", "rejected"}, n \in Names \cup {None} :
                Moves(r, pc, n, "none", None, FALSE)
    BY <2>1, <2>3, AccountMoves
  <2>4. CASE setup.admin # None /\ Moves(r, "bootstrap", setup.admin, "none", None, FALSE)
    <3>1. user[setup.admin].exists
      BY <2>4 DEF AccountInv, NamedThere
    <3> QED
      BY <2>1, <2>4, <3>1, AccountMoves
  <2>5. CASE /\ ~user[u].exists /\ ~Inserting(u)
             /\ Moves(r, "bootstrap", u, "none", None, TRUE)
    <3>1. RequestThere(r)'
      BY <2>1, <2>5 DEF Moves, RequestThere, At
    <3>2. \A q \in Requests : q # r => SameRequest(q)
      BY <2>5 DEF Moves, SameRequest
    <3>3. req'[r].write = TRUE /\ req'[r].user = u
      BY <2>5 DEF Moves
    <3> QED
      BY <2>1, <2>2, <2>5, <3>1, <3>2, <3>3, AccountFrame
  <2> QED
    BY <1>1, <2>3, <2>4, <2>5, BootstrapMoves DEF Names
<1>2. CASE CommitBootstrapAdmin(r)
  <2>1. /\ u \in Users /\ req[r].pc = "bootstrap" /\ req[r].write \in BOOLEAN
        /\ user[u].exists = ~req[r].write
    BY <1>2, <1>r, AccountFacts, TypeFacts DEF CommitBootstrapAdmin, At, RequestThere, UserRows
  <2>2. Moves(r, "idle", None, "none", None, FALSE) /\ session' = session
    BY <1>2, FinishMoves DEF CommitBootstrapAdmin
  <2>3. \A q \in Requests : q # r => SameRequest(q)
    BY <2>2 DEF Moves, SameRequest
  <2>4. setup'.admin = u
    BY <1>2, TypeFacts DEF CommitBootstrapAdmin, SetupRows
  <2>5. CASE req[r].write
    <3> DEFINE row == NewUser(TRUE, "ADMIN")
    <3>1. user' = [user EXCEPT ![u] = row]
      BY <1>2, <2>5 DEF CommitBootstrapAdmin
    <3>2. row \in UserRows /\ row.exists
      BY DEF NewUser, UserRows, RoleName
    <3> HIDE DEF row
    <3>3. user'[u].exists /\ \A v \in Users : user[v].exists => user'[v].exists
      BY <2>1, <3>1, <3>2, TypeFacts
    <3>4. NamedThere'
      BY <2>1, <2>2, <2>4, <3>3, TypeFacts DEF NamedThere, AccountInv, Logins
    <3> QED
      BY <2>1, <2>2, <2>3, <2>5, <3>1, <3>2, <3>4, AccountInsert DEF Moves
  <2>6. CASE ~req[r].write
    <3>1. user' = user
      BY <1>2, <2>6, TypeFacts DEF CommitBootstrapAdmin
    <3>2. SameAccounts /\ RowsThere' /\ NamedThere'
      BY <2>1, <2>2, <2>4, <2>6, <3>1, TypeFacts DEF SameAccounts, AccountInv, RowsThere, NamedThere
    <3>3. RequestThere(r)' /\ req'[r].write = FALSE
      BY <2>2 DEF Moves, RequestThere, At
    <3> QED
      BY <2>3, <3>2, <3>3, AccountFrame
  <2> QED
    BY <2>1, <2>5, <2>6
<1>3. ASSUME NEW c \in Secrets \cup {None}, CompleteBootstrap(r, c)
      PROVE  AccountInv'
  <2>1. UNCHANGED <<user, setup>> /\ u \in Users /\ user[u].exists
    BY <1>3, <1>r, CompleteBootstrapMoves DEF CompleteBootstrap, RequestThere
  <2>2. CASE Moves(r, "idle", None, "none", None, FALSE) /\ session' = session
    BY <2>1, <2>2, AccountMoves
  <2>3. CASE /\ Moves(r, "initialize", u, "none", None, FALSE)
             /\ \E t \in Tokens \ issued :
                   session' = [session EXCEPT ![t] = [user |-> u, factor |-> TRUE,
                                                      held |-> FALSE, overtaken |-> FALSE]]
    <3>1. \A s \in Tokens : session'[s] # None =>
              session'[s] = session[s] \/ user[session'[s].user].exists
      BY <2>1, <2>3, TypeFacts
    <3> QED
      BY <2>1, <2>3, <3>1, AccountMoves
  <2> QED
    BY <1>3, <2>2, <2>3, CompleteBootstrapMoves
<1>4. CASE CommitInitialized(r)
  <2>1. u \in Users /\ user[u].exists /\ req[r].tok \in Tokens
    BY <1>4, <1>r, HasUser DEF CommitInitialized, At, RequestThere
  <2>2. /\ user' \in [Users -> UserRows]
        /\ \A v \in Users : v # u => user'[v] = user[v]
        /\ user'[u].exists = user[u].exists /\ user'[u].local = user[u].local
    <3>1. PICK k \in FreshCodes : user' = [user EXCEPT ![u] = Enrolled(@, k)]
      BY <1>4 DEF CommitInitialized
    <3>2. k \in Codes /\ user[u] \in UserRows
      BY <2>1, TypeFacts, FreshType
    <3> QED
      BY <2>1, <3>1, <3>2, TypeFacts, EnrolledType
  <2>3. Moves(r, "idle", None, "none", None, FALSE)
    BY <1>4, FinishMoves DEF CommitInitialized
  <2>4. \A t \in Tokens : session'[t] # None => session[t] # None /\ session'[t].user = session[t].user
    BY <1>4, <2>1, HeldSame DEF CommitInitialized
  <2>5. \A q \in Requests : q # r => SameRequest(q)
    BY <2>3 DEF Moves, SameRequest
  <2>6. setup'.admin = setup.admin
    BY <1>4, TypeFacts DEF CommitInitialized, SetupRows
  <2> QED
    BY <2>1, <2>2, <2>3, <2>4, <2>5, <2>6, AccountUpdate DEF Moves
<1> QED
  BY <1>1, <1>2, <1>3, <1>4

LEMMA AccountInit == Init => AccountInv
<1> SUFFICES ASSUME NEW st \in Starts, InitFrom(st)
             PROVE  AccountInv
  BY DEF Init
<1>1. RowsThere
  BY StartAssumption DEF InitFrom, RowsThere
<1>2. NamedThere
  BY <1>1, StartAssumption, NoUserType DEF InitFrom, RowsThere, NamedThere
<1>3. \A r \in Requests : RequestThere(r)
  BY IdleFields DEF InitFrom, RequestThere, At
<1>4. InsertsAlone
  BY IdleFields DEF InitFrom, InsertsAlone
<1> QED
  BY <1>1, <1>2, <1>3, <1>4 DEF AccountInv

LEMMA AccountStep == TypeInv /\ SetupInv /\ AccountInv /\ [Next]_vars => AccountInv'
<1> SUFFICES ASSUME TypeInv, SetupInv, AccountInv, [Next]_vars
             PROVE  AccountInv'
  OBVIOUS
<1> USE DEF setupVars
<1>1. CASE Still
  <2>1. /\ user' = user /\ req' = req /\ setup'.admin = setup.admin
        /\ \A t \in Tokens : session'[t] # None => session'[t] = session[t]
    BY <1>1 DEF Still
  <2> QED
    BY <2>1 DEF AccountInv, RowsThere, NamedThere, RequestThere, InsertsAlone, At
<1>2. ASSUME NEW r \in Requests, Quiet(r)
      PROVE  AccountInv'
  <2>1. UNCHANGED <<user, session, setup>>
    BY <1>2 DEF Quiet
  <2>2. CASE req' = req
    BY <2>1, <2>2 DEF AccountInv, RowsThere, NamedThere, RequestThere, InsertsAlone, At
  <2>3. ASSUME NEW pc, NEW u, NEW op, Moves(r, pc, u, op, None, FALSE),
               \/ pc \in {"idle", "rejected", "expire", "setup", "login"}
               \/ pc \in {"verify", "enroll", "confirm", "finish"} /\ u \in Users /\ user[u].active
               \/ pc = "recount" /\ u = req[r].user /\ req[r].pc = "failed"
        PROVE  AccountInv'
    <3>1. CASE pc \in {"idle", "rejected", "expire", "setup", "login"}
      BY <2>1, <2>3, <3>1, AccountMoves
    <3>2. CASE pc \in {"verify", "enroll", "confirm", "finish", "recount"}
      <4>1. user[u].exists
        BY <2>3, <3>2, NoUserType DEF AccountInv, RowsThere, RequestThere
      <4>2. CASE op # "create"
        BY <2>1, <2>3, <3>2, <4>1, <4>2, AccountMoves
      <4>3. CASE op = "create"
        <5>1. RequestThere(r)' /\ req'[r].write = FALSE
          BY <2>1, <2>3, <3>2, <4>1 DEF Moves, RequestThere, At
        <5>2. \A q \in Requests : q # r => SameRequest(q)
          BY <2>3 DEF Moves, SameRequest
        <5>3. SameAccounts /\ RowsThere' /\ NamedThere'
          BY <2>1, TypeFacts DEF SameAccounts, AccountInv, RowsThere, NamedThere
        <5> QED
          BY <5>1, <5>2, <5>3, AccountFrame
      <4> QED
        BY <4>2, <4>3
    <3> QED
      BY <2>3, <3>1, <3>2
  <2> QED
    BY <1>2, <2>2, <2>3 DEF Quiet
<1>3. ASSUME NEW r \in Requests, Telling(r)
      PROVE  AccountInv'
  <2>1. CASE Crash(r)
    <3>1. Moves(r, "idle", None, "none", None, FALSE) /\ UNCHANGED <<user, session, setup>>
      BY <2>1, FinishMoves DEF Crash
    <3> QED
      BY <3>1, AccountMoves
  <2> QED
    BY <1>3, <2>1, LoginAccount, FactorAccount, AdminAccount, SetupAccount DEF Telling
<1>4. ASSUME NEW u \in Users, NEW enable \in BOOLEAN, BreakGlass(u, enable),
             UNCHANGED <<setupVars, crashes, use>>
      PROVE  AccountInv'
  <2>1. /\ user[u].exists /\ UNCHANGED <<req, session, setup>>
        /\ user' = [user EXCEPT ![u].active = @ \/ enable]
    BY <1>4 DEF BreakGlass
  <2>2. SameAccounts /\ \A v \in Users : v # u => user'[v] = user[v]
    BY <2>1, TypeFacts, BreakGlassType DEF SameAccounts
  <2>3. RowsThere' /\ NamedThere'
    BY <2>1, <2>2, TypeFacts DEF SameAccounts, RowsThere, NamedThere, AccountInv, SetupRows, Logins
  <2>4. InsertsAlone'
    BY <2>1, <2>2, AccountFacts DEF InsertsAlone, SameAccounts, AccountInv
  <2>5. ASSUME NEW q \in Requests
        PROVE  RequestThere(q)'
    <3>1. RequestThere(q)
      BY DEF AccountInv
    <3>2. CASE req[q].pc \in {"idle", "rejected", "expire"}
      BY <2>1, <3>2 DEF RequestThere, At
    <3>3. CASE req[q].user \in Users
      BY <2>1, <2>2, <3>1, <3>3 DEF RequestThere, At, SameAccounts
    <3> QED
      BY <3>2, <3>3, AccountFacts
  <2> QED
    BY <2>3, <2>4, <2>5 DEF AccountInv
<1> QED
  BY <1>1, <1>2, <1>3, <1>4, StepKinds

-----------------------------------------------------------------------------
\* What a step does to the role of an account.
LEMMA RoleStep ==
    ASSUME TypeInv, SetupInv, AccountInv, [Next]_vars,
           NEW u \in Users, user[u].exists, user[u].local, user'[u].role # user[u].role
    PROVE  \E r \in Requests : At(r, "commit") /\ req[r].op = "role" /\ req[r].user = u
<1>1. PICK r \in Requests : Telling(r) /\ user' # user
  <2>1. ~Still /\ \A r \in Requests : ~Quiet(r)
    BY DEF Still, Quiet
  <2>2. ASSUME NEW v \in Users, NEW enable \in BOOLEAN, BreakGlass(v, enable)
        PROVE  FALSE
    BY <2>2, BreakGlassType, TypeFacts DEF BreakGlass
  <2> QED
    BY <2>1, <2>2, StepKinds
<1> DEFINE v == req[r].user
<1>r. RequestThere(r)
  BY DEF AccountInv
<1>2. CASE CompleteLogin(r)
  <2>1. v \in Users /\ req[r].pc = "accepted" /\ req[r].row \in UserRows
    BY <1>2, AccountFacts DEF CompleteLogin, At
  <2>2. user' = [user EXCEPT ![v] = IF ~req[r].write THEN @
                                    ELSE IF @.exists THEN [@ EXCEPT !.role = req[r].row.role]
                                    ELSE req[r].row]
    BY <1>2 DEF CompleteLogin
  <2>3. v = u
    BY <2>1, <2>2, TypeFacts
  <2>4. req[r].write
    BY <2>1, <2>2, <2>3, TypeFacts
  <2>5. ~user[u].local
    BY <1>r, <2>1, <2>3, <2>4 DEF RequestThere, At
  <2> QED
    BY <2>5
<1>3. CASE CommitVerified(r)
  <2>1. v \in Users
    BY <1>3, HasUser DEF CommitVerified, At
  <2> QED
    BY <1>3, <2>1, TypeFacts, SpendType DEF CommitVerified
<1>4. CASE CommitSecret(r)
  <2>1. v \in Users
    BY <1>4, HasUser DEF CommitSecret, At
  <2> QED
    BY <1>4, <2>1, TypeFacts, SecretType DEF CommitSecret
<1>5. CASE (\E c \in Secrets \cup {None} : CommitEnrolment(r, c)) \/ CommitInitialized(r)
  <2>1. v \in Users
    BY <1>5, HasUser DEF CommitEnrolment, CommitInitialized, At
  <2>2. PICK k \in FreshCodes : user' = [user EXCEPT ![v] = Enrolled(@, k)]
    BY <1>5 DEF CommitEnrolment, CommitInitialized
  <2>3. k \in Codes /\ user[v] \in UserRows
    BY <2>1, TypeFacts, FreshType
  <2> QED
    BY <2>1, <2>2, <2>3, TypeFacts, EnrolledType
<1>6. CASE CommitAdmin(r)
  <2>1. /\ v \in Users /\ req[r].pc = "commit" /\ req[r].row \in UserRows
        /\ req[r].role \in RoleName /\ req[r].op \in AdminOps \cup {"none"}
        /\ user[v] \in UserRows
    BY <1>6, CommitAdminMoves, TypeFacts DEF Handlers
  <2>2. user' = [user EXCEPT ![v] = Written(req[r].op, req[r].row, user[v], req[r].role)]
    BY <1>6 DEF CommitAdmin
  <2>3. v = u
    BY <2>1, <2>2, TypeFacts
  <2>4. req[r].op # "create"
    BY <1>r, <2>1, <2>3, AccountFacts DEF RequestThere, At
  <2>5. req[r].op # "none"
    BY <2>1, <2>2, <2>3, TypeFacts DEF Written
  <2>6. req[r].op = "role"
    BY <2>1, <2>2, <2>3, <2>4, <2>5, TypeFacts, WrittenRole
  <2> QED
    BY <2>1, <2>3, <2>6 DEF At
<1>7. CASE CommitBootstrapAdmin(r)
  <2>1. v \in Users /\ req[r].pc = "bootstrap"
    BY <1>7, HasUser DEF CommitBootstrapAdmin, At
  <2>2. user' = [user EXCEPT ![v] = IF req[r].write THEN NewUser(TRUE, "ADMIN") ELSE @]
    BY <1>7 DEF CommitBootstrapAdmin
  <2>3. v = u /\ req[r].write
    BY <2>1, <2>2, TypeFacts
  <2> QED
    BY <1>r, <2>1, <2>3 DEF RequestThere, At
<1>8. CASE \/ \E matches \in BOOLEAN : LocalAuthenticate(r, matches)
           \/ \E mapped \in SUBSET RoleName : LdapBinds(r, mapped)
           \/ \E c \in Secrets \cup Codes \cup {None} : CheckFactor(r, c)
           \/ OpenVerified(r) \/ RevokeSessions(r) \/ CreateBootstrapAdmin(r) \/ Crash(r)
  BY <1>1, <1>8 DEF LocalAuthenticate, LdapBinds, CheckFactor, OpenVerified, RevokeSessions,
     CreateBootstrapAdmin, Crash
<1>9. CASE \/ \E t \in Tokens, c \in Secrets \cup Codes : BeginResetSelf(r, t, c)
           \/ \E t \in Tokens, op \in AdminOps, w \in Users, role \in RoleName :
                 BeginAdmin(r, t, op, w, role)
           \/ \E c \in Secrets \cup {None} : CompleteBootstrap(r, c)
  BY <1>1, <1>9 DEF BeginResetSelf, BeginAdmin, CompleteBootstrap
<1> QED
  BY <1>1, <1>2, <1>3, <1>4, <1>5, <1>6, <1>7, <1>8, <1>9 DEF Telling

\* The role of an account with a local password is changed by change_role
\* and by nothing else: not by a directory login, not by the account being
\* created while one waits for the directory, not by setup.
THEOREM LocalRolesAdministered == Spec => LocalRoleAdministered
<1> DEFINE Inv == TypeInv /\ SetupInv /\ AccountInv
           Kept == \A u \in Users :
                      user[u].exists /\ user[u].local /\ user'[u].role # user[u].role =>
                          \E r \in Requests : At(r, "commit") /\ req[r].op = "role" /\ req[r].user = u
<1>1. Init => Inv
  BY TypeInit, SetupInit, AccountInit
<1>2. Inv /\ [Next]_vars => Inv'
  BY TypeStep, SetupInvStep, AccountStep
<1>3. Inv /\ [Next]_vars => [Kept]_vars
  BY RoleStep
<1> QED
  BY <1>1, <1>2, <1>3, PTL DEF Spec, LocalRoleAdministered

-----------------------------------------------------------------------------
\* Recovery codes.  A request that presents one, or deletes an account's,
\* keeps it and keeps the lock.
HoldsOn(q) ==
    /\ req'[q].code \in {req[q].code, None}
    /\ req'[q].code # None =>
          req'[q].user = req[q].user /\ codeLock'[req[q].user] = q
    /\ req'[q].pc = "initialize" \/ (req'[q].pc = "commit" /\ req'[q].op = "reset") =>
          codeLock'[req'[q].user] = q

\* A step of request r takes no lock from another.
LocksKept(r) ==
    \A u \in Users, q \in Requests : q # r /\ codeLock[u] = q => codeLock'[u] = q

LEMMA OthersHold ==
    ASSUME TypeInv, CodeInv, NEW r \in Requests, LocksKept(r),
           \A q \in Requests : q # r => SameRequest(q) /\ req'[q].code = req[q].code
    PROVE  \A q \in Requests : q # r => HoldsOn(q)
<1> SUFFICES ASSUME NEW q \in Requests, q # r
             PROVE  HoldsOn(q)
  OBVIOUS
<1>1. CodeClaimed(q)
  BY DEF CodeInv
<1>2. SameRequest(q) /\ req'[q].code = req[q].code
  OBVIOUS
<1>3. /\ req[q].code # None => req[q].user \in Users
      /\ req[q].pc \in {"initialize", "commit"} => req[q].user \in Users
  BY TypeFacts DEF Shape
<1> QED
  BY <1>1, <1>2, <1>3 DEF HoldsOn, CodeClaimed, At, SameRequest, LocksKept

\* The locks a step of r takes, releases or leaves.
LEMMA LockKept ==
    ASSUME TypeInv, NEW r \in Requests,
           \/ codeLock' = codeLock
           \/ \E u \in Users : CodesFree(r, u) /\ codeLock' = [codeLock EXCEPT ![u] = r]
           \/ \E u \in Users : codeLock' = [codeLock EXCEPT ![u] = IF @ = r THEN None ELSE @]
           \/ codeLock' = [u \in Users |-> IF codeLock[u] = r THEN None ELSE codeLock[u]]
    PROVE  LocksKept(r)
  BY TypeFacts, NoneAssumption DEF LocksKept, CodesFree

\* A step that presents and redeems nothing: codes go, or the new ones K come
\* to one account.
LEMMA CodeFrame ==
    ASSUME TypeInv, CodeInv, NEW u, NEW K, K \cap issued = {},
           user' \in [Users -> UserRows],
           \A v \in Users : v # u => user'[v].codes \subseteq user[v].codes,
           u \in Users => user'[u].codes \subseteq user[u].codes \cup K,
           issued \cup K \subseteq issued', redeemed' = redeemed,
           \A q \in Requests : HoldsOn(q)
    PROVE  CodeInv'
<1>1. CodesApart'
  <2>0. CodesApart
    BY DEF CodeInv
  <2>1. ASSUME NEW v \in Users, NEW w \in Users, v # w, NEW x, x \in user'[v].codes, x \in user'[w].codes
        PROVE  FALSE
    BY <2>0, <2>1 DEF CodesApart
  <2>2. ASSUME NEW v \in Users
        PROVE  user'[v].codes \subseteq issued'
    BY <2>0 DEF CodesApart
  <2> QED
    BY <2>1, <2>2 DEF CodesApart
<1>2. ASSUME NEW q \in Requests
      PROVE  CodeClaimed(q)'
  <2>1. CodeClaimed(q) /\ HoldsOn(q)
    BY DEF CodeInv
  <2>2. ASSUME req'[q].code # None
        PROVE  /\ codeLock'[req'[q].user] = q
               /\ req'[q].code \in issued' /\ redeemed'[req'[q].code] = 0
               /\ \A v \in Users : req'[q].code \in user'[v].codes => v = req'[q].user
               /\ \A p \in Requests : req'[p].code = req'[q].code => p = q
    <3>1. req'[q].code = req[q].code /\ req[q].code # None /\ req'[q].user = req[q].user
      BY <2>1, <2>2 DEF HoldsOn
    <3>2. req[q].code \in issued /\ redeemed[req[q].code] = 0
      BY <2>1, <3>1 DEF CodeClaimed
    <3>3. \A v \in Users : req[q].code \in user'[v].codes => v = req[q].user
      BY <2>1, <3>1, <3>2 DEF CodeClaimed
    <3>4. \A p \in Requests : req'[p].code = req[q].code => p = q
      BY <2>1, <3>1 DEF CodeClaimed, HoldsOn
    <3> QED
      BY <2>1, <2>2, <3>1, <3>2, <3>3, <3>4 DEF HoldsOn
  <2> QED
    BY <2>1, <2>2 DEF CodeClaimed, At, HoldsOn
<1>3. ASSUME NEW c \in Codes
      PROVE  CodeSpent(c)'
  <2>1. CodeSpent(c)
    BY DEF CodeInv
  <2>2. c # None
    BY NoneAssumption
  <2> QED
    BY <2>1, <2>2 DEF CodeSpent, HoldsOn
<1> QED
  BY <1>1, <1>2, <1>3 DEF CodeInv

LEMMA CodeKept ==
    ASSUME TypeInv, CodeInv,
           user' \in [Users -> UserRows],
           \A v \in Users : user'[v].codes \subseteq user[v].codes,
           issued \subseteq issued', redeemed' = redeemed,
           \A q \in Requests : HoldsOn(q)
    PROVE  CodeInv'
<1> DEFINE K == {}
<1>1. /\ K \cap issued = {} /\ issued \cup K \subseteq issued'
      /\ \A v \in Users : user'[v].codes \subseteq user[v].codes \cup K
  OBVIOUS
<1> HIDE DEF K
<1>2. \A v \in Users : v # None => user'[v].codes \subseteq user[v].codes
  OBVIOUS
<1> QED
  BY <1>1, <1>2, CodeFrame

\* Request r takes the lock and presents a code it finds unused.
LEMMA CodePresented ==
    ASSUME TypeInv, CodeInv, NEW r \in Requests, NEW u \in Users, NEW c,
           c \in user[u].codes, CodesFree(r, u), req[r].code = None,
           user' = user, issued' = issued, redeemed' = redeemed,
           codeLock' = [codeLock EXCEPT ![u] = r],
           \A q \in Requests : q # r => SameRequest(q) /\ req'[q].code = req[q].code,
           req'[r].code = c, req'[r].user = u, req'[r].pc \in {"passed", "revoke"}
    PROVE  CodeInv'
<1>1. \A q \in Requests : q # r => HoldsOn(q)
  BY LockKept, OthersHold
<1>2. c \in Codes /\ c \in issued /\ redeemed[c] = 0
  <2>1. c \in Codes /\ c \in issued
    BY TypeFacts DEF CodeInv, CodesApart, UserRows
  <2>2. CodeSpent(c) /\ redeemed[c] \in Nat
    BY <2>1, TypeFacts DEF CodeInv
  <2> QED
    BY <2>1, <2>2 DEF CodeSpent
<1>3. c # None
  BY <1>2, NoneAssumption
<1>4. \A v \in Users : c \in user[v].codes => v = u
  BY DEF CodeInv, CodesApart
<1>5. \A q \in Requests : q # r => req[q].code # c
  <2> SUFFICES ASSUME NEW q \in Requests, q # r, req[q].code = c
               PROVE  FALSE
    OBVIOUS
  <2>1. CodeClaimed(q)
    BY DEF CodeInv
  <2>2. req[q].user = u /\ codeLock[u] = q
    BY <1>3, <2>1 DEF CodeClaimed
  <2> QED
    BY <2>2, NoneAssumption DEF CodesFree
<1>6. codeLock'[u] = r
  BY TypeFacts
<1>7. CodesApart'
  BY DEF CodeInv, CodesApart
<1>8. ASSUME NEW q \in Requests
      PROVE  CodeClaimed(q)'
  <2>1. CASE q = r
    <3>1. \A p \in Requests : req'[p].code = c => p = r
      BY <1>5
    <3> QED
      BY <1>2, <1>4, <1>6, <2>1, <3>1 DEF CodeClaimed, At
  <2>2. CASE q # r
    <3>1. CodeClaimed(q) /\ HoldsOn(q) /\ SameRequest(q) /\ req'[q].code = req[q].code
      BY <1>1, <2>2 DEF CodeInv
    <3>2. req[q].code # None => \A p \in Requests : req'[p].code = req[q].code => p = q
      BY <1>5, <2>2, <3>1 DEF CodeClaimed
    <3> QED
      BY <3>1, <3>2 DEF CodeClaimed, At, HoldsOn, SameRequest
  <2> QED
    BY <2>1, <2>2
<1>9. ASSUME NEW x \in Codes
      PROVE  CodeSpent(x)'
  <2>1. CodeSpent(x)
    BY DEF CodeInv
  <2>2. redeemed[x] = 1 => x # c
    BY <1>2
  <2> QED
    BY <2>1, <2>2 DEF CodeSpent
<1> QED
  BY <1>7, <1>8, <1>9 DEF CodeInv

\* Request r commits: the code it presented, if any, is gone and has let it
\* through.
LEMMA CodeRedeemed ==
    ASSUME TypeInv, CodeInv, NEW r \in Requests,
           user' \in [Users -> UserRows],
           \A v \in Users : user'[v].codes \subseteq user[v].codes,
           req[r].code # None => req[r].code \notin user'[req[r].user].codes,
           issued' = issued,
           redeemed' = [x \in Codes |-> redeemed[x] + IF x = req[r].code THEN 1 ELSE 0],
           req'[r].code = None, req'[r].pc = "idle",
           \A q \in Requests : q # r => HoldsOn(q)
    PROVE  CodeInv'
<1> DEFINE c == req[r].code
<1>0. HoldsOn(r)
  BY DEF HoldsOn
<1>1. CASE c = None
  <2>1. redeemed' = redeemed
    BY <1>1, TypeFacts, NoneAssumption
  <2> QED
    BY <1>0, <2>1, CodeKept
<1>2. CASE c # None
  <2>1. CodeClaimed(r)
    BY DEF CodeInv
  <2>2. c \in Codes
    BY <1>2, TypeFacts DEF Handlers
  <2>3. CodesApart'
    BY DEF CodeInv, CodesApart
  <2>4. \A q \in Requests : req'[q].code # c
    BY <1>2, <2>1 DEF CodeClaimed, HoldsOn
  <2>5. ASSUME NEW q \in Requests
        PROVE  CodeClaimed(q)'
    <3>1. CASE q = r
      BY <3>1 DEF CodeClaimed, At
    <3>2. CASE q # r
      <4>1. CodeClaimed(q) /\ HoldsOn(q)
        BY <3>2 DEF CodeInv
      <4>2. ASSUME req'[q].code # None
            PROVE  /\ codeLock'[req'[q].user] = q
                   /\ req'[q].code \in issued' /\ redeemed'[req'[q].code] = 0
                   /\ \A v \in Users : req'[q].code \in user'[v].codes => v = req'[q].user
                   /\ \A p \in Requests : req'[p].code = req'[q].code => p = q
        <5>1. req'[q].code = req[q].code /\ req[q].code # None /\ req'[q].user = req[q].user
          BY <4>1, <4>2 DEF HoldsOn
        <5>2. req[q].code \in issued /\ redeemed[req[q].code] = 0 /\ req[q].code \in Codes
          BY <4>1, <5>1, TypeFacts DEF CodeClaimed, Handlers
        <5>3. redeemed'[req[q].code] = 0
          BY <2>4, <5>1, <5>2
        <5>4. \A p \in Requests : req'[p].code = req[q].code => p = q
          BY <1>0, <4>1, <5>1 DEF CodeClaimed, HoldsOn
        <5> QED
          BY <4>1, <4>2, <5>1, <5>2, <5>3, <5>4 DEF HoldsOn, CodeClaimed
      <4> QED
        BY <4>1, <4>2 DEF CodeClaimed, At, HoldsOn
    <3> QED
      BY <3>1, <3>2
  <2>6. ASSUME NEW x \in Codes
        PROVE  CodeSpent(x)'
    <3>1. CodeSpent(x) /\ redeemed[x] \in Nat
      BY TypeFacts DEF CodeInv
    <3>2. CASE x = c
      <4>1. redeemed'[x] = 1 /\ x \in issued
        BY <1>2, <2>1, <2>2, <3>2 DEF CodeClaimed
      <4>2. \A v \in Users : x \notin user'[v].codes
        BY <1>2, <2>1, <3>2 DEF CodeClaimed
      <4> QED
        BY <2>4, <3>2, <4>1, <4>2 DEF CodeSpent
    <3>3. CASE x # c
      <4>1. redeemed'[x] = redeemed[x]
        BY <3>1, <3>3
      <4>2. x # None
        BY NoneAssumption
      <4> QED
        BY <1>0, <3>1, <4>1, <4>2 DEF CodeSpent, HoldsOn
    <3> QED
      BY <3>2, <3>3
  <2> QED
    BY <2>3, <2>5, <2>6 DEF CodeInv
<1> QED
  BY <1>1, <1>2

\* A step of r after which it presents nothing and needs no lock.
LEMMA CodeMoves ==
    ASSUME TypeInv, CodeInv, NEW r \in Requests, NEW pc, NEW n, NEW op, NEW write,
           Moves(r, pc, n, op, None, write),
           pc # "initialize", ~(pc = "commit" /\ op = "reset"), LocksKept(r),
           user' \in [Users -> UserRows],
           \A v \in Users : user'[v].codes \subseteq user[v].codes,
           issued \subseteq issued', redeemed' = redeemed
    PROVE  CodeInv'
<1>1. \A q \in Requests : q # r => SameRequest(q) /\ req'[q].code = req[q].code
  BY DEF Moves, SameRequest
<1>2. HoldsOn(r)
  BY DEF Moves, HoldsOn
<1> QED
  BY <1>1, <1>2, OthersHold, CodeKept

\* Enrolment replaces the codes of account u by a new one.
LEMMA CodeDrawn ==
    ASSUME TypeInv, CodeInv, NEW r \in Requests, NEW u \in Users, NEW k \in FreshCodes,
           user' = [user EXCEPT ![u] = Enrolled(@, k)],
           issued \cup {k} \subseteq issued', redeemed' = redeemed,
           Moves(r, "idle", None, "none", None, FALSE), LocksKept(r)
    PROVE  CodeInv'
<1>1. \A q \in Requests : q # r => SameRequest(q) /\ req'[q].code = req[q].code
  BY DEF Moves, SameRequest
<1>2. HoldsOn(r)
  BY DEF Moves, HoldsOn
<1>3. k \in Codes /\ k \notin issued /\ user[u] \in UserRows
  BY FreshType, TypeFacts
<1>4. /\ user' \in [Users -> UserRows]
      /\ \A v \in Users : v # u => user'[v] = user[v]
      /\ user'[u].codes = {k}
  BY <1>3, TypeFacts, EnrolledType
<1> DEFINE K == {k}
<1>5. /\ K \cap issued = {} /\ issued \cup K \subseteq issued'
      /\ user'[u].codes \subseteq user[u].codes \cup K
      /\ \A v \in Users : v # u => user'[v].codes \subseteq user[v].codes
  BY <1>3, <1>4
<1> HIDE DEF K
<1>6. \A q \in Requests : HoldsOn(q)
  BY <1>1, <1>2, OthersHold
<1> QED
  BY <1>4, <1>5, <1>6, CodeFrame

LEMMA LoginCodes ==
    ASSUME TypeInv, AccountInv, CodeInv, NEW r \in Requests,
           \/ \E matches \in BOOLEAN : LocalAuthenticate(r, matches)
           \/ \E mapped \in SUBSET RoleName : LdapBinds(r, mapped)
           \/ CompleteLogin(r)
    PROVE  CodeInv'
<1> USE DEF loginVars
<1>1. ASSUME NEW matches \in BOOLEAN, LocalAuthenticate(r, matches)
      PROVE  CodeInv'
  <2>1. UNCHANGED <<user, codeLock, issued, redeemed>>
    BY <1>1 DEF LocalAuthenticate
  <2>2. \E pc \in {"accepted", "rejected", "ldap"}, n \in Names, op \in {req[r].op, "none"} :
           Moves(r, pc, n, op, None, FALSE)
    BY <1>1, LocalAuthenticateMoves
  <2> QED
    BY <2>1, <2>2, TypeFacts, LockKept, CodeMoves
<1>2. ASSUME NEW mapped \in SUBSET RoleName, LdapBinds(r, mapped)
      PROVE  CodeInv'
  <2>1. UNCHANGED <<user, codeLock, issued, redeemed>>
    BY <1>2 DEF LdapBinds
  <2>2. \E pc \in {"accepted", "rejected", "idle"}, n \in Names \cup {None},
           op \in {req[r].op, "none"}, write \in BOOLEAN :
              Moves(r, pc, n, op, None, write)
    BY <1>2, LdapBindsMoves
  <2> QED
    BY <2>1, <2>2, TypeFacts, LockKept, CodeMoves
<1>3. CASE CompleteLogin(r)
  <2> DEFINE u == req[r].user
             row == req[r].row
  <2>1. u \in Users /\ req[r].pc = "accepted" /\ row \in UserRows /\ user[u] \in UserRows
    BY <1>3, AccountFacts, TypeFacts DEF CompleteLogin, At
  <2>2. Moves(r, "idle", None, "none", None, FALSE) /\ UNCHANGED <<codeLock, redeemed>>
    BY <1>3, FinishMoves DEF CompleteLogin
  <2>3. user' = [user EXCEPT ![u] = IF ~req[r].write THEN @
                                    ELSE IF @.exists THEN [@ EXCEPT !.role = row.role]
                                    ELSE row]
    BY <1>3 DEF CompleteLogin
  <2>4. issued \subseteq issued'
    BY <1>3 DEF CompleteLogin
  <2>5. req[r].write /\ ~user[u].exists => row.codes = {}
    <3>1. RequestThere(r)
      BY DEF AccountInv
    <3>2. req[r].write /\ ~user[u].exists => row = NewUser(FALSE, row.role)
      BY <2>1, <3>1 DEF RequestThere, At
    <3> QED
      BY <2>1, <3>2 DEF UserRows, NewUser
  <2>6. /\ [user[u] EXCEPT !.role = row.role] \in UserRows
        /\ [user[u] EXCEPT !.role = row.role].codes = user[u].codes
    BY <2>1 DEF UserRows
  <2>7. user' \in [Users -> UserRows]
    BY <2>1, <2>3, <2>6, TypeFacts
  <2>8. \A v \in Users : user'[v].codes \subseteq user[v].codes
    BY <2>1, <2>3, <2>5, <2>6, TypeFacts
  <2> QED
    BY <2>2, <2>4, <2>7, <2>8, LockKept, CodeMoves
<1> QED
  BY <1>1, <1>2, <1>3

LEMMA FactorCodes ==
    ASSUME TypeInv, CodeInv, NEW r \in Requests,
           \/ \E c \in Secrets \cup Codes \cup {None} : CheckFactor(r, c)
           \/ OpenVerified(r)
           \/ CommitVerified(r)
           \/ CommitSecret(r)
           \/ \E c \in Secrets \cup {None} : CommitEnrolment(r, c)
           \/ \E t \in Tokens, c \in Secrets \cup Codes : BeginResetSelf(r, t, c)
    PROVE  CodeInv'
<1> USE DEF loginVars
<1> DEFINE u == req[r].user
<1>1. ASSUME NEW c \in Secrets \cup Codes \cup {None}, CheckFactor(r, c)
      PROVE  CodeInv'
  <2>1. UNCHANGED <<user, issued, redeemed>> /\ u \in Users /\ req[r].pc = "verify"
    BY <1>1, CheckFactorMoves DEF CheckFactor
  <2>2. CASE /\ \E pc \in {"passed", "failed"} : Moves(r, pc, u, req[r].op, None, FALSE)
             /\ codeLock' = codeLock
    BY <2>1, <2>2, TypeFacts, LockKept, CodeMoves
  <2>3. CASE /\ Moves(r, "passed", u, req[r].op, c, FALSE)
             /\ CodesFree(r, u) /\ c \in user[u].codes
             /\ codeLock' = [codeLock EXCEPT ![u] = r]
    <3>1. \A q \in Requests : q # r => SameRequest(q) /\ req'[q].code = req[q].code
      BY <2>3 DEF Moves, SameRequest
    <3>2. req[r].code = None
      BY <2>1, HasUser
    <3>3. req'[r].code = c /\ req'[r].user = u /\ req'[r].pc = "passed"
      BY <2>3 DEF Moves
    <3> QED
      BY <2>1, <2>3, <3>1, <3>2, <3>3, CodePresented
  <2> QED
    BY <1>1, <2>2, <2>3, CheckFactorMoves
<1>2. CASE OpenVerified(r)
  <2>1. UNCHANGED <<user, codeLock, redeemed>> /\ issued \subseteq issued'
    BY <1>2 DEF OpenVerified
  <2>2. Moves(r, "answer", u, "none", req[r].code, FALSE)
    BY <1>2, OpenVerifiedMoves
  <2>3. \A q \in Requests : q # r => SameRequest(q) /\ req'[q].code = req[q].code
    BY <2>2 DEF Moves, SameRequest
  <2>4. CodeClaimed(r)
    BY DEF CodeInv
  <2>5. HoldsOn(r)
    BY <2>1, <2>2, <2>4 DEF Moves, HoldsOn, CodeClaimed
  <2>6. \A q \in Requests : HoldsOn(q)
    BY <2>1, <2>3, <2>5, LockKept, OthersHold
  <2> QED
    BY <2>1, <2>6, TypeFacts, CodeKept
<1>3. CASE CommitVerified(r)
  <2>1. u \in Users
    BY <1>3, HasUser DEF CommitVerified, At
  <2>2. /\ user' \in [Users -> UserRows]
        /\ \A v \in Users : v # u => user'[v] = user[v]
        /\ user'[u].codes = user[u].codes \ {req[r].code}
    BY <1>3, <2>1, TypeFacts, SpendType DEF CommitVerified
  <2>3. Moves(r, "idle", None, "none", None, FALSE)
    BY <1>3, FinishMoves DEF CommitVerified
  <2>4. \A q \in Requests : q # r => SameRequest(q) /\ req'[q].code = req[q].code
    BY <2>3 DEF Moves, SameRequest
  <2>5. codeLock' = [codeLock EXCEPT ![u] = IF @ = r THEN None ELSE @] /\ issued' = issued
    BY <1>3 DEF CommitVerified
  <2>6. \A q \in Requests : q # r => HoldsOn(q)
    BY <2>1, <2>4, <2>5, LockKept, OthersHold
  <2>7. redeemed' = [x \in Codes |-> redeemed[x] + IF x = req[r].code THEN 1 ELSE 0]
    BY <1>3 DEF CommitVerified
  <2>8. req'[r].code = None /\ req'[r].pc = "idle"
    BY <2>3 DEF Moves
  <2>9. /\ \A v \in Users : user'[v].codes \subseteq user[v].codes
        /\ req[r].code \notin user'[u].codes
    BY <2>2
  <2> QED
    BY <2>2, <2>5, <2>6, <2>7, <2>8, <2>9, CodeRedeemed
<1>4. CASE CommitSecret(r)
  <2>1. u \in Users
    BY <1>4, HasUser DEF CommitSecret, At
  <2>2. /\ user' \in [Users -> UserRows]
        /\ \A v \in Users : v # u => user'[v] = user[v]
        /\ user'[u].codes = user[u].codes
    BY <1>4, <2>1, TypeFacts, SecretType DEF CommitSecret
  <2>3. Moves(r, "idle", None, "none", None, FALSE) /\ UNCHANGED <<codeLock, issued, redeemed>>
    BY <1>4, FinishMoves DEF CommitSecret
  <2> QED
    BY <2>1, <2>2, <2>3, LockKept, CodeMoves
<1>5. ASSUME NEW c \in Secrets \cup {None}, CommitEnrolment(r, c)
      PROVE  CodeInv'
  <2>1. u \in Users
    BY <1>5, HasUser DEF CommitEnrolment, At
  <2>2. PICK k \in FreshCodes :
           /\ user' = [user EXCEPT ![u] = Enrolled(@, k)]
           /\ issued \cup {k} \subseteq issued'
    BY <1>5 DEF CommitEnrolment
  <2>3. Moves(r, "idle", None, "none", None, FALSE) /\ UNCHANGED <<codeLock, redeemed>>
    BY <1>5, FinishMoves DEF CommitEnrolment
  <2>4. LocksKept(r)
    BY <2>3, LockKept
  <2> QED
    BY <2>1, <2>2, <2>3, <2>4, CodeDrawn
<1>6. ASSUME NEW t \in Tokens, NEW c \in Secrets \cup Codes, BeginResetSelf(r, t, c)
      PROVE  CodeInv'
  <2> DEFINE v == session[t].user
  <2>1. UNCHANGED <<user, issued, redeemed>> /\ v \in Users /\ req[r].pc = "idle"
    BY <1>6, BeginResetSelfMoves DEF BeginResetSelf, Free, At
  <2>2. CASE Moves(r, "revoke", v, "reset", None, FALSE) /\ codeLock' = codeLock
    BY <2>1, <2>2, TypeFacts, LockKept, CodeMoves
  <2>3. CASE /\ Moves(r, "revoke", v, "reset", c, FALSE)
             /\ CodesFree(r, v) /\ c \in user[v].codes
             /\ codeLock' = [codeLock EXCEPT ![v] = r]
    <3>1. \A q \in Requests : q # r => SameRequest(q) /\ req'[q].code = req[q].code
      BY <2>3 DEF Moves, SameRequest
    <3>2. req[r].code = None
      BY <2>1, HasUser
    <3>3. req'[r].code = c /\ req'[r].user = v /\ req'[r].pc = "revoke"
      BY <2>3 DEF Moves
    <3> QED
      BY <2>1, <2>3, <3>1, <3>2, <3>3, CodePresented
  <2> QED
    BY <1>6, <2>2, <2>3, BeginResetSelfMoves
<1> QED
  BY <1>1, <1>2, <1>3, <1>4, <1>5, <1>6

LEMMA AdminCodes ==
    ASSUME TypeInv, CodeInv, NEW r \in Requests,
           \/ \E t \in Tokens, op \in AdminOps, u \in Users, role \in RoleName :
                 BeginAdmin(r, t, op, u, role)
           \/ RevokeSessions(r)
           \/ CommitAdmin(r)
    PROVE  CodeInv'
<1> USE DEF loginVars
<1>1. ASSUME NEW t \in Tokens, NEW op \in AdminOps, NEW u \in Users, NEW role \in RoleName,
             BeginAdmin(r, t, op, u, role)
      PROVE  CodeInv'
  <2>1. UNCHANGED <<user, codeLock, issued, redeemed>>
    BY <1>1 DEF BeginAdmin
  <2> DEFINE pc == IF Revokes(op, user[u], role) THEN "revoke" ELSE "commit"
  <2>2. pc # "initialize" /\ ~(pc = "commit" /\ op = "reset")
    BY DEF Revokes
  <2>3. Moves(r, pc, u, op, None, op = "create")
    BY <1>1, BeginAdminMoves
  <2> HIDE DEF pc
  <2> QED
    BY <2>1, <2>2, <2>3, TypeFacts, LockKept, CodeMoves
<1>2. CASE RevokeSessions(r)
  <2> DEFINE u == req[r].user
  <2>1. UNCHANGED <<user, issued, redeemed>> /\ u \in Users
    BY <1>2, RevokeSessionsMoves DEF RevokeSessions
  <2>2. Moves(r, "commit", u, req[r].op, req[r].code, FALSE)
    BY <1>2, RevokeSessionsMoves
  <2>3. IF req[r].op = "reset" THEN CodesFree(r, u) /\ codeLock' = [codeLock EXCEPT ![u] = r]
        ELSE codeLock' = codeLock
    BY <1>2 DEF RevokeSessions
  <2>4. LocksKept(r)
    BY <2>1, <2>3, LockKept
  <2>5. \A q \in Requests : q # r => SameRequest(q) /\ req'[q].code = req[q].code
    BY <2>2 DEF Moves, SameRequest
  <2>6. CodeClaimed(r)
    BY DEF CodeInv
  <2>7. HoldsOn(r)
    BY <2>1, <2>2, <2>3, <2>6, TypeFacts DEF Moves, HoldsOn, CodeClaimed
  <2>8. \A q \in Requests : HoldsOn(q)
    BY <2>4, <2>5, <2>7, OthersHold
  <2> QED
    BY <2>1, <2>8, TypeFacts, CodeKept
<1>3. CASE CommitAdmin(r)
  <2> DEFINE u == req[r].user
             row == Written(req[r].op, req[r].row, user[u], req[r].role)
  <2>1. /\ u \in Users /\ req[r].pc = "commit" /\ req[r].row \in UserRows
        /\ req[r].role \in RoleName /\ req[r].op \in AdminOps \cup {"none"}
        /\ user[u] \in UserRows
    BY <1>3, CommitAdminMoves, TypeFacts DEF Handlers
  <2>2. user' = [user EXCEPT ![u] = row] /\ issued' = issued
    BY <1>3 DEF CommitAdmin
  <2>3. row \in UserRows /\ row.codes \subseteq user[u].codes /\ (req[r].op = "reset" => row.codes = {})
    <3>1. CASE req[r].op = "none"
      BY <2>1, <3>1 DEF Written
    <3>2. CASE req[r].op \in AdminOps
      BY <2>1, <3>2, WrittenType, WrittenCodes
    <3> QED
      BY <2>1, <3>1, <3>2
  <2> HIDE DEF row
  <2>4. req[r].code # None => req[r].op = "reset"
    BY <2>1, TypeFacts DEF Shape
  <2>5. /\ user' \in [Users -> UserRows]
        /\ \A v \in Users : user'[v].codes \subseteq user[v].codes
        /\ req[r].code # None => req[r].code \notin user'[u].codes
    BY <2>1, <2>2, <2>3, <2>4, TypeFacts
  <2>6. \A q \in Requests : q # r => SameRequest(q) /\ req'[q].code = req[q].code
    BY <1>3, CommitAdminMoves DEF SameRequest
  <2>7. codeLock' = [codeLock EXCEPT ![u] = IF @ = r THEN None ELSE @]
    BY <1>3 DEF CommitAdmin
  <2>8. \A q \in Requests : q # r => HoldsOn(q)
    BY <2>1, <2>6, <2>7, LockKept, OthersHold
  <2>9. redeemed' = [x \in Codes |-> redeemed[x] + IF x = req[r].code THEN 1 ELSE 0]
    BY <1>3 DEF CommitAdmin
  <2>10. req'[r].code = None /\ req'[r].pc = "idle"
    BY <1>3, CommitAdminMoves, IdleFields
  <2> QED
    BY <2>2, <2>5, <2>8, <2>9, <2>10, CodeRedeemed
<1> QED
  BY <1>1, <1>2, <1>3

LEMMA SetupCodes ==
    ASSUME TypeInv, CodeInv, NEW r \in Requests,
           \/ CreateBootstrapAdmin(r)
           \/ CommitBootstrapAdmin(r)
           \/ \E c \in Secrets \cup {None} : CompleteBootstrap(r, c)
           \/ CommitInitialized(r)
           \/ Crash(r)
    PROVE  CodeInv'
<1> USE DEF loginVars
<1> DEFINE u == req[r].user
<1>1. CASE CreateBootstrapAdmin(r)
  <2>1. UNCHANGED <<user, codeLock, issued, redeemed>>
    BY <1>1 DEF CreateBootstrapAdmin
  <2>2. \E pc \in {"idle", "rejected", "bootstrap"}, n \in Names \cup {None}, write \in BOOLEAN :
           Moves(r, pc, n, "none", None, write)
    BY <1>1, BootstrapMoves, TypeFacts DEF Names, SetupRows
  <2> QED
    BY <2>1, <2>2, TypeFacts, LockKept, CodeMoves
<1>2. CASE CommitBootstrapAdmin(r)
  <2>1. u \in Users
    BY <1>2, HasUser DEF CommitBootstrapAdmin, At
  <2>2. user' = [user EXCEPT ![u] = IF req[r].write THEN NewUser(TRUE, "ADMIN") ELSE @]
    BY <1>2 DEF CommitBootstrapAdmin
  <2>3. NewUser(TRUE, "ADMIN") \in UserRows /\ NewUser(TRUE, "ADMIN").codes = {}
    BY DEF NewUser, UserRows, RoleName
  <2>4. user' \in [Users -> UserRows] /\ \A v \in Users : user'[v].codes \subseteq user[v].codes
    BY <2>1, <2>2, <2>3, TypeFacts
  <2>5. Moves(r, "idle", None, "none", None, FALSE) /\ UNCHANGED <<codeLock, redeemed>>
    BY <1>2, FinishMoves DEF CommitBootstrapAdmin
  <2>6. issued \subseteq issued'
    BY <1>2 DEF CommitBootstrapAdmin
  <2> QED
    BY <2>4, <2>5, <2>6, LockKept, CodeMoves
<1>3. ASSUME NEW c \in Secrets \cup {None}, CompleteBootstrap(r, c)
      PROVE  CodeInv'
  <2>1. UNCHANGED <<user, redeemed>> /\ u \in Users
    BY <1>3, CompleteBootstrapMoves DEF CompleteBootstrap
  <2>2. CASE Moves(r, "idle", None, "none", None, FALSE) /\ UNCHANGED <<codeLock, issued>>
    BY <2>1, <2>2, TypeFacts, LockKept, CodeMoves
  <2>3. CASE /\ Moves(r, "initialize", u, "none", None, FALSE)
             /\ CodesFree(r, u) /\ codeLock' = [codeLock EXCEPT ![u] = r]
             /\ issued \subseteq issued'
    <3>1. \A q \in Requests : q # r => SameRequest(q) /\ req'[q].code = req[q].code
      BY <2>3 DEF Moves, SameRequest
    <3>2. HoldsOn(r)
      BY <2>1, <2>3, TypeFacts DEF Moves, HoldsOn
    <3>3. \A q \in Requests : HoldsOn(q)
      BY <2>1, <2>3, <3>1, <3>2, LockKept, OthersHold
    <3> QED
      BY <2>1, <2>3, <3>3, TypeFacts, CodeKept
  <2> QED
    BY <1>3, <2>2, <2>3, CompleteBootstrapMoves
<1>4. CASE CommitInitialized(r)
  <2>1. u \in Users
    BY <1>4, HasUser DEF CommitInitialized, At
  <2>2. PICK k \in FreshCodes :
           /\ user' = [user EXCEPT ![u] = Enrolled(@, k)]
           /\ issued \cup {k} \subseteq issued'
    BY <1>4 DEF CommitInitialized
  <2>3. Moves(r, "idle", None, "none", None, FALSE) /\ redeemed' = redeemed
    BY <1>4, FinishMoves DEF CommitInitialized
  <2>4. codeLock[u] = r
    BY <1>4 DEF CommitInitialized, CodeInv, CodeClaimed
  <2>5. codeLock' = [codeLock EXCEPT ![u] = None]
    BY <1>4 DEF CommitInitialized
  <2>6. LocksKept(r)
    BY <2>1, <2>4, <2>5, TypeFacts DEF LocksKept
  <2> QED
    BY <2>1, <2>2, <2>3, <2>6, CodeDrawn
<1>5. CASE Crash(r)
  <2>1. Moves(r, "idle", None, "none", None, FALSE) /\ UNCHANGED <<user, issued, redeemed>>
    BY <1>5, FinishMoves DEF Crash
  <2>2. LocksKept(r)
    BY <1>5, LockKept DEF Crash
  <2> QED
    BY <2>1, <2>2, TypeFacts, CodeMoves
<1> QED
  BY <1>1, <1>2, <1>3, <1>4, <1>5

LEMMA CodeInit == Init => CodeInv
<1> SUFFICES ASSUME NEW st \in Starts, InitFrom(st)
             PROVE  CodeInv
  BY DEF Init
<1>1. CodesApart
  <2>1. \A v \in Users : user[v].codes \subseteq issued
    BY DEF InitFrom
  <2> QED
    BY <2>1, StartAssumption DEF InitFrom, CodesApart
<1>2. \A r \in Requests : CodeClaimed(r)
  BY IdleFields DEF InitFrom, CodeClaimed, At
<1>3. \A c \in Codes : CodeSpent(c)
  BY DEF InitFrom, CodeSpent
<1> QED
  BY <1>1, <1>2, <1>3 DEF CodeInv

LEMMA CodeStep == TypeInv /\ AccountInv /\ CodeInv /\ [Next]_vars => CodeInv'
<1> SUFFICES ASSUME TypeInv, AccountInv, CodeInv, [Next]_vars
             PROVE  CodeInv'
  OBVIOUS
<1>1. ASSUME UNCHANGED <<req, codeLock>>
      PROVE  \A q \in Requests : HoldsOn(q)
  BY <1>1 DEF CodeInv, CodeClaimed, HoldsOn, At
<1>2. CASE Still
  <2>1. UNCHANGED <<user, codeLock, issued, req, redeemed>>
    BY <1>2 DEF Still
  <2> QED
    BY <1>1, <2>1, TypeFacts, CodeKept
<1>3. ASSUME NEW r \in Requests, Quiet(r)
      PROVE  CodeInv'
  <2>1. UNCHANGED <<user, codeLock, issued, redeemed>>
    BY <1>3 DEF Quiet
  <2>2. CASE req' = req
    BY <1>1, <2>1, <2>2, TypeFacts, CodeKept
  <2>3. ASSUME NEW pc, NEW u, NEW op, Moves(r, pc, u, op, None, FALSE),
               pc \notin {"initialize", "commit"}
        PROVE  CodeInv'
    BY <2>1, <2>3, TypeFacts, LockKept, CodeMoves
  <2> QED
    BY <1>3, <2>2, <2>3 DEF Quiet
<1>4. ASSUME NEW r \in Requests, Telling(r)
      PROVE  CodeInv'
  BY <1>4, LoginCodes, FactorCodes, AdminCodes, SetupCodes DEF Telling
<1>5. ASSUME NEW u \in Users, NEW enable \in BOOLEAN, BreakGlass(u, enable)
      PROVE  CodeInv'
  <2>1. UNCHANGED <<codeLock, issued, req, redeemed>>
    BY <1>5 DEF BreakGlass, loginVars
  <2>2. user' \in [Users -> UserRows] /\ \A v \in Users : user'[v].codes \subseteq user[v].codes
    BY <1>5, TypeFacts, BreakGlassType DEF BreakGlass
  <2> QED
    BY <1>1, <2>1, <2>2, CodeKept
<1> QED
  BY <1>2, <1>3, <1>4, <1>5, StepKinds

\* A recovery code lets one request through: whoever replays it meets the row
\* locks verify_login_factor takes, and after a crash the code is either
\* unused and unredeemed or used and redeemed.
THEOREM RecoveryCodesOnce == Spec => []RecoveryCodeOnce
<1> DEFINE Inv == TypeInv /\ SetupInv /\ AccountInv /\ CodeInv
<1>1. Init => Inv
  BY TypeInit, SetupInit, AccountInit, CodeInit
<1>2. Inv /\ [Next]_vars => Inv'
  BY TypeStep, SetupInvStep, AccountStep, CodeStep
<1>3. Inv => RecoveryCodeOnce
  BY DEF CodeInv, CodeSpent, RecoveryCodeOnce
<1> QED
  BY <1>1, <1>2, <1>3, PTL DEF Spec

-----------------------------------------------------------------------------
\* The second factor.  A session that stays, or one opened with a factor.
SessionStays(t) ==
    session'[t] # None =>
        \/ session'[t].factor
        \/ /\ session[t] # None /\ session'[t].user = session[t].user
           /\ session'[t].factor = session[t].factor
           /\ session'[t].overtaken = session[t].overtaken

\* Where a second factor is mandatory after the step.
MandatoryNext(u) == user'[u].local /\ user'[u].role \in MfaMandatoryRoles

LEMMA FactorFrame ==
    ASSUME TypeInv, FactorInv,
           \A u \in Users : MandatoryNext(u) => Mandatory(u),
           \A t \in Tokens : SessionStays(t),
           \A q \in Requests : req'[q] = req[q] \/ (ReadStrict(q)' /\ RevokedFirst(q)')
    PROVE  FactorInv'
<1>1. ASSUME NEW q \in Requests, req'[q] = req[q]
      PROVE  ReadStrict(q)' /\ RevokedFirst(q)'
  <2>1. ReadStrict(q) /\ RevokedFirst(q)
    BY DEF FactorInv
  <2>2. req[q].pc = "accepted" => req[q].user \in Users
    BY AccountFacts
  <2>3. ReadStrict(q)'
    BY <1>1, <2>1, <2>2 DEF ReadStrict, At, Mandatory, MandatoryNext
  <2>4. RevokedFirst(q)'
    BY <1>1, <2>1 DEF RevokedFirst, SessionStays, At, ChangesRole
  <2> QED
    BY <2>3, <2>4
<1>2. SecondFactorHeld'
  <2> SUFFICES ASSUME NEW t \in Tokens, session'[t] # None, MandatoryNext(session'[t].user)
               PROVE  session'[t].factor \/ session'[t].overtaken
    BY DEF SecondFactorHeld, Mandatory, MandatoryNext
  <2>1. CASE session'[t].factor
    BY <2>1
  <2>2. CASE /\ session[t] # None /\ session'[t].user = session[t].user
             /\ session'[t].factor = session[t].factor
             /\ session'[t].overtaken = session[t].overtaken
    <3>1. session[t].user \in Users
      BY <2>2, TypeFacts DEF Logins
    <3> QED
      BY <2>2, <3>1 DEF FactorInv, SecondFactorHeld, Mandatory, MandatoryNext
  <2> QED
    BY <2>1, <2>2 DEF SessionStays
<1> QED
  BY <1>1, <1>2 DEF FactorInv

\* A step of r to where it has neither accepted a password nor is about to
\* commit, that makes no account stricter.
LEMMA FactorMoves ==
    ASSUME TypeInv, FactorInv, NEW r \in Requests, NEW pc, NEW n, NEW op, NEW code, NEW write,
           Moves(r, pc, n, op, code, write), pc \notin {"accepted", "commit"},
           \A u \in Users : MandatoryNext(u) => Mandatory(u),
           \A t \in Tokens : SessionStays(t)
    PROVE  FactorInv'
<1>1. ReadStrict(r)' /\ RevokedFirst(r)'
  BY DEF Moves, ReadStrict, RevokedFirst, At
<1>2. \A q \in Requests : q # r => req'[q] = req[q]
  BY DEF Moves
<1> QED
  BY <1>1, <1>2, FactorFrame

LEMMA LoginFactor ==
    ASSUME TypeInv, AccountInv, FactorInv, NEW r \in Requests,
           \/ \E matches \in BOOLEAN : LocalAuthenticate(r, matches)
           \/ \E mapped \in SUBSET RoleName : LdapBinds(r, mapped)
    PROVE  FactorInv'
<1> DEFINE u == req[r].user
<1>r. RequestThere(r)
  BY DEF AccountInv
<1>0. UNCHANGED <<user, session>>
  BY DEF LocalAuthenticate, LdapBinds
<1>1. (\A v \in Users : MandatoryNext(v) => Mandatory(v)) /\ \A t \in Tokens : SessionStays(t)
  BY <1>0 DEF Mandatory, MandatoryNext, SessionStays
<1>2. ASSUME NEW op, NEW write, Moves(r, "accepted", u, op, None, write),
             Mandatory(u) => req'[r].row.role \in MfaMandatoryRoles
      PROVE  FactorInv'
  <2>1. ReadStrict(r)' /\ RevokedFirst(r)'
    BY <1>0, <1>2 DEF Moves, ReadStrict, RevokedFirst, At, Mandatory, MandatoryNext
  <2>2. \A q \in Requests : q # r => req'[q] = req[q]
    BY <1>2 DEF Moves
  <2> QED
    BY <1>1, <2>1, <2>2, FactorFrame
<1>3. ASSUME NEW pc \in {"idle", "rejected", "ldap"}, NEW n, NEW op, Moves(r, pc, n, op, None, FALSE)
      PROVE  FactorInv'
  BY <1>1, <1>3, FactorMoves
<1>4. ASSUME NEW matches \in BOOLEAN, LocalAuthenticate(r, matches)
      PROVE  FactorInv'
  <2>1. CASE Moves(r, "accepted", u, req[r].op, None, FALSE) /\ req'[r].row = user[u]
    BY <1>2, <2>1 DEF Mandatory, MandatoryNext
  <2>2. CASE Moves(r, "rejected", u, "none", None, FALSE)
    BY <1>3, <2>2
  <2>3. CASE Moves(r, "ldap", u, req[r].op, None, FALSE)
    BY <1>3, <2>3
  <2> QED
    BY <1>4, <2>1, <2>2, <2>3, LocalAuthenticateMoves
<1>5. ASSUME NEW mapped \in SUBSET RoleName, LdapBinds(r, mapped)
      PROVE  FactorInv'
  <2> DEFINE row == IF req[r].row.exists THEN req[r].row ELSE user[u]
  <2>0. req[r].pc = "ldap" /\ u \in Users
    BY <1>5, LdapBindsMoves
  <2>1. ASSUME NEW write \in BOOLEAN, Moves(r, "accepted", u, req[r].op, None, write),
               write => ~row.local, ~write => req'[r].row.role = row.role
        PROVE  FactorInv'
    <3>1. Mandatory(u) => req'[r].row.role \in MfaMandatoryRoles
      BY <1>r, <2>0, <2>1 DEF RequestThere, At, Mandatory, MandatoryNext
    <3> QED
      BY <1>2, <2>1, <3>1
  <2>2. CASE Moves(r, "rejected", u, "none", None, FALSE)
    BY <1>3, <2>2
  <2>3. CASE ~row.exists /\ Moves(r, "accepted", u, req[r].op, None, TRUE)
    <3>1. user[u] = NoUser
      BY <2>0, <2>3 DEF AccountInv, RowsThere
    <3>2. ~Mandatory(u)
      BY <3>1, NoUserType DEF Mandatory, MandatoryNext
    <3> QED
      BY <1>2, <2>3, <3>2
  <2>4. CASE Moves(r, "idle", None, "none", None, FALSE)
    BY <1>3, <2>4
  <2> QED
    BY <1>5, <2>1, <2>2, <2>3, <2>4, LdapBindsMoves
<1> QED
  BY <1>4, <1>5

\* The password was accepted: a session without a second factor is opened
\* only where none is mandatory, or behind a change of role.
LEMMA CompleteLoginFactor ==
    ASSUME TypeInv, AccountInv, FactorInv, NEW r \in Requests, CompleteLogin(r)
    PROVE  FactorInv'
<1> DEFINE u == req[r].user
           row == req[r].row
           late == req[r].overtaken \/ Changing(u)
<1>1. /\ u \in Users /\ req[r].pc = "accepted" /\ row \in UserRows
      /\ user[u] \in UserRows /\ req[r].write \in BOOLEAN
  BY AccountFacts, TypeFacts DEF CompleteLogin, At
<1>2. Moves(r, "idle", None, "none", None, FALSE)
  BY FinishMoves DEF CompleteLogin
<1>3. user' = [user EXCEPT ![u] = IF ~req[r].write THEN @
                                  ELSE IF @.exists THEN [@ EXCEPT !.role = row.role]
                                  ELSE row]
  BY DEF CompleteLogin
<1>r. RequestThere(r)
  BY DEF AccountInv
<1>4. /\ [user[u] EXCEPT !.role = row.role].local = user[u].local
      /\ \A v \in Users : v # u => user'[v] = user[v]
  BY <1>1, <1>3, TypeFacts DEF UserRows
<1>5. \A v \in Users : MandatoryNext(v) => Mandatory(v)
  <2>1. MandatoryNext(u) => Mandatory(u)
    <3>1. CASE ~req[r].write
      BY <1>1, <1>3, <3>1, TypeFacts DEF Mandatory, MandatoryNext
    <3>2. CASE req[r].write /\ user[u].exists
      <4>1. ~user[u].local
        BY <1>1, <1>r, <3>2 DEF RequestThere, At
      <4>2. ~user'[u].local
        BY <1>1, <1>3, <1>4, <3>2, <4>1, TypeFacts
      <4> QED
        BY <4>2 DEF Mandatory, MandatoryNext
    <3>3. CASE req[r].write /\ ~user[u].exists
      <4>1. row = NewUser(FALSE, row.role) /\ row.role \in RoleName
        BY <1>1, <1>r, <3>3 DEF RequestThere, At, UserRows
      <4>2. ~row.local
        BY <4>1 DEF NewUser
      <4>3. user'[u] = row
        BY <1>1, <1>3, <3>3, TypeFacts
      <4> QED
        BY <4>2, <4>3 DEF Mandatory, MandatoryNext
    <3> QED
      BY <1>1, <3>1, <3>2, <3>3
  <2> QED
    BY <1>4, <2>1 DEF Mandatory, MandatoryNext
<1>6. CASE session' = session
  <2>1. \A t \in Tokens : SessionStays(t)
    BY <1>6 DEF SessionStays
  <2>2. "idle" \notin {"accepted", "commit"}
    OBVIOUS
  <2> HIDE DEF u, row, late
  <2> QED
    BY <1>2, <1>5, <2>1, <2>2, FactorMoves
<1>7. ASSUME NEW t \in Tokens, ~NeedsSecondFactor(row),
             session' = [session EXCEPT ![t] = [user |-> u, factor |-> FALSE, held |-> TRUE,
                                                overtaken |-> late]]
      PROVE  FactorInv'
  <2>1. /\ session'[t].user = u /\ session'[t].overtaken = late
        /\ \A s \in Tokens : s # t => session'[s] = session[s]
    BY <1>7, TypeFacts
  <2>2. Mandatory(u) => late
    BY <1>1, <1>7 DEF FactorInv, ReadStrict, At, NeedsSecondFactor
  <2> HIDE DEF late
  <2>3. SecondFactorHeld'
    <3> SUFFICES ASSUME NEW s \in Tokens, session'[s] # None, MandatoryNext(session'[s].user)
                 PROVE  session'[s].factor \/ session'[s].overtaken
      BY DEF SecondFactorHeld, Mandatory, MandatoryNext
    <3>1. CASE s = t
      BY <1>1, <1>5, <2>1, <2>2, <3>1
    <3>2. CASE s # t
      <4>1. session[s].user \in Users /\ session'[s] = session[s]
        BY <2>1, <3>2, TypeFacts DEF Logins
      <4> QED
        BY <1>5, <4>1 DEF FactorInv, SecondFactorHeld, Mandatory, MandatoryNext
    <3> QED
      BY <3>1, <3>2
  <2>4. ASSUME NEW q \in Requests
        PROVE  ReadStrict(q)' /\ RevokedFirst(q)'
    <3>1. CASE q = r
      BY <1>2, <3>1 DEF Moves, ReadStrict, RevokedFirst, At
    <3>2. CASE q # r
      <4>1. req'[q] = req[q] /\ ReadStrict(q) /\ RevokedFirst(q)
        BY <1>2, <3>2 DEF Moves, FactorInv
      <4>2. req[q].pc = "accepted" => req[q].user \in Users
        BY AccountFacts
      <4>3. ReadStrict(q)'
        BY <1>5, <4>1, <4>2 DEF ReadStrict, At, Mandatory, MandatoryNext
      <4>4. req[q].user = u /\ At(q, "commit") /\ ChangesRole(q) => late
        BY DEF late, Changing
      <4>5. RevokedFirst(q)'
        <5> SUFFICES ASSUME NEW s \in Tokens, At(q, "commit"), ChangesRole(q),
                            session'[s] # None, session'[s].user = req[q].user
                     PROVE  session'[s].factor \/ session'[s].overtaken
          BY <4>1 DEF RevokedFirst, At, ChangesRole
        <5>1. CASE s = t
          BY <2>1, <4>4, <5>1
        <5>2. CASE s # t
          BY <2>1, <4>1, <5>2 DEF RevokedFirst
        <5> QED
          BY <5>1, <5>2
      <4> QED
        BY <4>3, <4>5
    <3> QED
      BY <3>1, <3>2
  <2> QED
    BY <2>3, <2>4 DEF FactorInv
<1>8. \/ session' = session
      \/ \E t \in Tokens :
            /\ ~NeedsSecondFactor(row)
            /\ session' = [session EXCEPT ![t] = [user |-> u, factor |-> FALSE, held |-> TRUE,
                                                  overtaken |-> late]]
  BY FreshType DEF CompleteLogin, Open
<1> QED
  BY <1>6, <1>7, <1>8

LEMMA AdminFactor ==
    ASSUME TypeInv, AccountInv, FactorInv, NEW r \in Requests,
           \/ \E t \in Tokens, op \in AdminOps, u \in Users, role \in RoleName :
                 BeginAdmin(r, t, op, u, role)
           \/ RevokeSessions(r)
           \/ CommitAdmin(r)
    PROVE  FactorInv'
<1>1. ASSUME NEW t \in Tokens, NEW op \in AdminOps, NEW u \in Users, NEW role \in RoleName,
             BeginAdmin(r, t, op, u, role)
      PROVE  FactorInv'
  <2>1. UNCHANGED <<user, session>>
    BY <1>1 DEF BeginAdmin
  <2>2. (\A v \in Users : MandatoryNext(v) => Mandatory(v)) /\ \A s \in Tokens : SessionStays(s)
    BY <2>1 DEF Mandatory, MandatoryNext, SessionStays
  <2>3. /\ req'[r].pc = IF Revokes(op, user[u], role) THEN "revoke" ELSE "commit"
        /\ req'[r].op = op /\ req'[r].row = user[u] /\ req'[r].role = role
        /\ \A q \in Requests : q # r => req'[q] = req[q]
    BY <1>1, BeginAdminMoves DEF Moves
  <2>4. ReadStrict(r)' /\ RevokedFirst(r)'
    BY <2>3 DEF ReadStrict, RevokedFirst, At, ChangesRole, Revokes
  <2> QED
    BY <2>2, <2>3, <2>4, FactorFrame
<1>2. CASE RevokeSessions(r)
  <2> DEFINE u == req[r].user
  <2>1. user' = user /\ Moves(r, "commit", u, req[r].op, req[r].code, FALSE)
    BY <1>2, RevokeSessionsMoves DEF RevokeSessions
  <2>2. session' = [s \in Tokens |-> IF s \in SessionsOf(u) THEN None ELSE session[s]]
    BY <1>2 DEF RevokeSessions, RevokeAllSessions
  <2>3. \A v \in Users : MandatoryNext(v) => Mandatory(v)
    BY <2>1 DEF Mandatory, MandatoryNext
  <2>4. \A s \in Tokens : SessionStays(s)
    BY <2>2 DEF SessionStays
  <2>5. ReadStrict(r)' /\ RevokedFirst(r)'
    <3>1. req'[r].pc = "commit" /\ req'[r].user = u
      BY <2>1 DEF Moves
    <3>2. \A s \in Tokens : session'[s] # None => session'[s].user # u
      BY <2>2 DEF SessionsOf
    <3> QED
      BY <3>1, <3>2 DEF ReadStrict, RevokedFirst, At
  <2>6. \A q \in Requests : q # r => req'[q] = req[q]
    BY <2>1 DEF Moves
  <2> QED
    BY <2>3, <2>4, <2>5, <2>6, FactorFrame
<1>3. CASE CommitAdmin(r)
  <2> DEFINE u == req[r].user
             row == Written(req[r].op, req[r].row, user[u], req[r].role)
  <2>1. /\ u \in Users /\ req[r].pc = "commit" /\ req[r].row \in UserRows
        /\ req[r].role \in RoleName /\ req[r].op \in AdminOps \cup {"none"}
        /\ user[u] \in UserRows
    BY <1>3, CommitAdminMoves, TypeFacts DEF Handlers
  <2>2. user' = [user EXCEPT ![u] = row] /\ session' = session
    BY <1>3 DEF CommitAdmin
  <2>3. /\ req'[r] = Idle
        /\ \A q \in Requests : q # r =>
              /\ req'[q].pc = req[q].pc /\ req'[q].user = req[q].user
              /\ req'[q].op = req[q].op /\ req'[q].row = req[q].row
              /\ req'[q].role = req[q].role
              /\ req'[q].overtaken = (req[q].overtaken \/ (req[q].user = u /\ ChangesRole(r)))
    BY <1>3, CommitAdminMoves
  <2>4. user'[u] = row /\ \A v \in Users : v # u => user'[v] = user[v]
    BY <2>1, <2>2, TypeFacts
  <2>r. RequestThere(r)
    BY DEF AccountInv
  \* The account is inserted: nobody is logged in or logging in to it.
  <2>5. ASSUME req[r].op = "create"
        PROVE  /\ \A t \in Tokens : session[t] # None => session[t].user # u
               /\ \A q \in Requests : q # r /\ At(q, "accepted") => req[q].user # u
    <3>1. req[r].write /\ ~user[u].exists
      BY <2>1, <2>5, <2>r, AccountFacts DEF RequestThere, At
    <3>2. \A t \in Tokens : session[t] # None => session[t].user # u
      BY <3>1 DEF AccountInv, NamedThere
    <3>3. ASSUME NEW q \in Requests, q # r, At(q, "accepted"), req[q].user = u
          PROVE  FALSE
      <4>1. RequestThere(q)
        BY DEF AccountInv
      <4>2. req[q].write
        BY <3>1, <3>3, <4>1, AccountFacts DEF RequestThere
      <4> QED
        BY <3>1, <3>3, <4>2 DEF AccountInv, InsertsAlone
    <3> QED
      BY <3>2, <3>3
  \* The role stays: the account is no stricter than before.
  <2>6. ASSUME req[r].op # "create", ~ChangesRole(r)
        PROVE  MandatoryNext(u) => Mandatory(u)
    <3>1. CASE req[r].op = "none"
      BY <2>4, <3>1 DEF Written, Mandatory, MandatoryNext
    <3>2. CASE req[r].op \in AdminOps
      <4>1. row.local = user[u].local
        BY <2>1, <2>6, <3>2, WrittenKeeps
      <4>2. row.role = user[u].role
        BY <2>1, <2>6, <3>2, WrittenRole DEF ChangesRole
      <4> HIDE DEF row
      <4> QED
        BY <2>4, <4>1, <4>2 DEF Mandatory, MandatoryNext
    <3> QED
      BY <2>1, <3>1, <3>2
  <2> HIDE DEF row
  <2>7. SecondFactorHeld'
    <3> SUFFICES ASSUME NEW t \in Tokens, session[t] # None, MandatoryNext(session[t].user)
                 PROVE  session[t].factor \/ session[t].overtaken
      BY <2>2 DEF SecondFactorHeld, MandatoryNext
    <3>0. session[t].user \in Users
      BY TypeFacts DEF Logins
    <3>1. CASE Mandatory(session[t].user)
      BY <3>1 DEF FactorInv, SecondFactorHeld, Mandatory
    <3>2. CASE ~Mandatory(session[t].user)
      <4>1. session[t].user = u
        BY <2>4, <3>0, <3>2 DEF Mandatory, MandatoryNext
      <4>2. ChangesRole(r)
        BY <2>5, <2>6, <3>2, <4>1
      <4> QED
        BY <2>1, <4>1, <4>2 DEF FactorInv, RevokedFirst, At
    <3> QED
      BY <3>1, <3>2
  <2>8. ASSUME NEW q \in Requests
        PROVE  ReadStrict(q)' /\ RevokedFirst(q)'
    <3>1. CASE q = r
      BY <2>3, <3>1, IdleFields DEF ReadStrict, RevokedFirst, At
    <3>2. CASE q # r
      <4>1. ReadStrict(q) /\ RevokedFirst(q)
        BY DEF FactorInv
      <4>2. RevokedFirst(q)'
        BY <2>2, <2>3, <3>2, <4>1 DEF RevokedFirst, At, ChangesRole
      <4>3. ASSUME At(q, "accepted"), MandatoryNext(req[q].user)
            PROVE  req[q].row.role \in MfaMandatoryRoles \/ req'[q].overtaken
        <5>1. req[q].user \in Users
          BY <4>3, AccountFacts DEF At
        <5>2. CASE Mandatory(req[q].user)
          BY <2>3, <3>2, <4>1, <4>3, <5>2 DEF ReadStrict
        <5>3. CASE ~Mandatory(req[q].user)
          <6>1. req[q].user = u
            BY <2>4, <4>3, <5>1, <5>3 DEF Mandatory, MandatoryNext
          <6>2. ChangesRole(r)
            BY <2>5, <2>6, <3>2, <4>3, <5>3, <6>1
          <6> QED
            BY <2>3, <3>2, <6>1, <6>2
        <5> QED
          BY <5>2, <5>3
      <4>4. ReadStrict(q)'
        BY <2>3, <3>2, <4>3 DEF ReadStrict, At, Mandatory, MandatoryNext
      <4> QED
        BY <4>2, <4>4
    <3> QED
      BY <3>1, <3>2
  <2> QED
    BY <2>7, <2>8 DEF FactorInv
<1> QED
  BY <1>1, <1>2, <1>3

\* The same for a step that leaves passwords and roles alone.
LEMMA FactorKept ==
    ASSUME TypeInv, FactorInv, NEW r \in Requests,
           \A q \in Requests : q # r => req'[q] = req[q],
           req'[r].pc \notin {"accepted", "commit"},
           \A v \in Users : user'[v].local = user[v].local /\ user'[v].role = user[v].role,
           \A t \in Tokens : SessionStays(t)
    PROVE  FactorInv'
<1>1. ReadStrict(r)' /\ RevokedFirst(r)'
  BY DEF ReadStrict, RevokedFirst, At
<1>2. \A v \in Users : MandatoryNext(v) => Mandatory(v)
  BY DEF Mandatory, MandatoryNext
<1> QED
  BY <1>1, <1>2, FactorFrame

LEMMA FactorChecked ==
    ASSUME TypeInv, FactorInv, NEW r \in Requests,
           \/ \E c \in Secrets \cup Codes \cup {None} : CheckFactor(r, c)
           \/ OpenVerified(r)
           \/ CommitVerified(r)
           \/ CommitSecret(r)
           \/ \E c \in Secrets \cup {None} : CommitEnrolment(r, c)
           \/ \E t \in Tokens, c \in Secrets \cup Codes : BeginResetSelf(r, t, c)
    PROVE  FactorInv'
<1> DEFINE u == req[r].user
<1>2. ASSUME session' = session
      PROVE  \A s \in Tokens : SessionStays(s)
  BY <1>2 DEF SessionStays
<1>3. ASSUME NEW c \in Secrets \cup Codes \cup {None}, CheckFactor(r, c)
      PROVE  FactorInv'
  <2>1. UNCHANGED <<user, session>>
    BY <1>3 DEF CheckFactor
  <2>2. \E pc \in {"passed", "failed"}, code \in {None, c} : Moves(r, pc, u, req[r].op, code, FALSE)
    BY <1>3, CheckFactorMoves
  <2> QED
    BY <1>2, <2>1, <2>2, FactorKept DEF Moves
<1>4. CASE OpenVerified(r)
  <2>1. user' = user
    BY <1>4 DEF OpenVerified
  <2>2. PICK t \in Tokens :
           /\ session' = [session EXCEPT ![t] = [user |-> u, factor |-> TRUE,
                                                 held |-> FALSE, overtaken |-> FALSE]]
           /\ Moves(r, "answer", u, "none", req[r].code, FALSE)
    BY <1>4, OpenVerifiedMoves
  <2>3. \A s \in Tokens : SessionStays(s)
    BY <2>2, TypeFacts DEF SessionStays
  <2> QED
    BY <2>1, <2>2, <2>3, FactorKept DEF Moves
<1>5. CASE CommitVerified(r)
  <2>1. u \in Users /\ req[r].tok \in Tokens
    BY <1>5, HasUser DEF CommitVerified, At
  <2>2. \A v \in Users : user'[v].local = user[v].local /\ user'[v].role = user[v].role
    BY <1>5, <2>1, TypeFacts, SpendType DEF CommitVerified
  <2>3. Moves(r, "idle", None, "none", None, FALSE)
    BY <1>5, FinishMoves DEF CommitVerified
  <2>4. \A s \in Tokens : SessionStays(s)
    BY <1>5, <2>1, HeldSame DEF CommitVerified, SessionStays
  <2> QED
    BY <2>2, <2>3, <2>4, FactorKept DEF Moves
<1>6. CASE CommitSecret(r)
  <2>1. u \in Users
    BY <1>6, HasUser DEF CommitSecret, At
  <2>2. \A v \in Users : user'[v].local = user[v].local /\ user'[v].role = user[v].role
    BY <1>6, <2>1, TypeFacts, SecretType DEF CommitSecret
  <2>3. Moves(r, "idle", None, "none", None, FALSE) /\ session' = session
    BY <1>6, FinishMoves DEF CommitSecret
  <2> QED
    BY <1>2, <2>2, <2>3, FactorKept DEF Moves
<1>7. ASSUME NEW c \in Secrets \cup {None}, CommitEnrolment(r, c)
      PROVE  FactorInv'
  <2>1. u \in Users
    BY <1>7, HasUser DEF CommitEnrolment, At
  <2>2. \A v \in Users : user'[v].local = user[v].local /\ user'[v].role = user[v].role
    <3>1. PICK k \in FreshCodes : user' = [user EXCEPT ![u] = Enrolled(@, k)]
      BY <1>7 DEF CommitEnrolment
    <3>2. k \in Codes /\ user[u] \in UserRows
      BY <2>1, TypeFacts, FreshType
    <3> QED
      BY <2>1, <3>1, <3>2, TypeFacts, EnrolledType
  <2>3. Moves(r, "idle", None, "none", None, FALSE)
    BY <1>7, FinishMoves DEF CommitEnrolment
  <2>4. session' = session \/ \E t \in Tokens : Open(t, u, TRUE, TRUE, FALSE)
    BY <1>7, FreshType DEF CommitEnrolment
  <2>5. \A s \in Tokens : SessionStays(s)
    BY <2>4, TypeFacts DEF Open, SessionStays
  <2> QED
    BY <2>2, <2>3, <2>5, FactorKept DEF Moves
<1>8. ASSUME NEW t \in Tokens, NEW c \in Secrets \cup Codes, BeginResetSelf(r, t, c)
      PROVE  FactorInv'
  <2>1. UNCHANGED <<user, session>>
    BY <1>8 DEF BeginResetSelf
  <2>2. \E code \in {None, c} : Moves(r, "revoke", session[t].user, "reset", code, FALSE)
    BY <1>8, BeginResetSelfMoves
  <2> QED
    BY <1>2, <2>1, <2>2, FactorKept DEF Moves
<1> QED
  BY <1>3, <1>4, <1>5, <1>6, <1>7, <1>8

\* First-run setup: the administrator it inserts has no session yet, and the
\* one it opens has a factor.
LEMMA SetupFactor ==
    ASSUME TypeInv, AccountInv, FactorInv, NEW r \in Requests,
           \/ CreateBootstrapAdmin(r)
           \/ CommitBootstrapAdmin(r)
           \/ \E c \in Secrets \cup {None} : CompleteBootstrap(r, c)
           \/ CommitInitialized(r)
           \/ Crash(r)
    PROVE  FactorInv'
<1> DEFINE u == req[r].user
<1>2. ASSUME session' = session
      PROVE  \A s \in Tokens : SessionStays(s)
  BY <1>2 DEF SessionStays
<1>3. CASE CreateBootstrapAdmin(r)
  <2>1. UNCHANGED <<user, session>>
    BY <1>3 DEF CreateBootstrapAdmin
  <2>2. \E pc \in {"idle", "rejected", "bootstrap"}, n \in Names \cup {None}, write \in BOOLEAN :
           Moves(r, pc, n, "none", None, write)
    BY <1>3, BootstrapMoves, TypeFacts DEF Names, SetupRows
  <2> QED
    BY <1>2, <2>1, <2>2, FactorKept DEF Moves
<1>4. CASE CommitBootstrapAdmin(r)
  <2>1. u \in Users /\ req[r].pc = "bootstrap"
    BY <1>4, HasUser DEF CommitBootstrapAdmin, At
  <2>2. user' = [user EXCEPT ![u] = IF req[r].write THEN NewUser(TRUE, "ADMIN") ELSE @]
    BY <1>4 DEF CommitBootstrapAdmin
  <2>3. Moves(r, "idle", None, "none", None, FALSE) /\ session' = session
    BY <1>4, FinishMoves DEF CommitBootstrapAdmin
  <2>4. CASE ~req[r].write
    <3>1. user' = user
      BY <2>2, <2>4, TypeFacts
    <3> QED
      BY <1>2, <2>3, <3>1, FactorKept DEF Moves
  <2>5. CASE req[r].write
    <3>1. ~user[u].exists
      BY <2>1, <2>5 DEF AccountInv, RequestThere, At
    <3>2. \A t \in Tokens : session[t] # None => session[t].user # u
      BY <3>1 DEF AccountInv, NamedThere
    <3>3. ASSUME NEW q \in Requests, q # r, At(q, "accepted"), req[q].user = u
          PROVE  FALSE
      <4>1. RequestThere(q)
        BY DEF AccountInv
      <4>2. req[q].write
        BY <3>1, <3>3, <4>1, AccountFacts DEF RequestThere
      <4> QED
        BY <2>5, <3>1, <3>3, <4>2 DEF AccountInv, InsertsAlone
    <3>4. \A v \in Users : v # u => user'[v] = user[v]
      BY <2>1, <2>2, TypeFacts
    <3>5. SecondFactorHeld'
      <4> SUFFICES ASSUME NEW t \in Tokens, session[t] # None, MandatoryNext(session[t].user)
                   PROVE  session[t].factor \/ session[t].overtaken
        BY <2>3 DEF SecondFactorHeld, MandatoryNext
      <4>1. session[t].user \in Users /\ session[t].user # u
        BY <3>2, TypeFacts DEF Logins
      <4> QED
        BY <3>4, <4>1 DEF FactorInv, SecondFactorHeld, MandatoryNext
    <3>6. ASSUME NEW q \in Requests
          PROVE  ReadStrict(q)' /\ RevokedFirst(q)'
      <4>1. CASE q = r
        BY <2>3, <4>1 DEF Moves, ReadStrict, RevokedFirst, At
      <4>2. CASE q # r
        <5>1. ReadStrict(q) /\ RevokedFirst(q) /\ req'[q] = req[q]
          BY <2>3, <4>2 DEF FactorInv, Moves
        <5>2. req[q].pc = "accepted" => req[q].user \in Users /\ req[q].user # u
          BY <3>3, <4>2, AccountFacts DEF At
        <5>3. ReadStrict(q)'
          BY <3>4, <5>1, <5>2 DEF ReadStrict, At, Mandatory
        <5>4. RevokedFirst(q)'
          BY <2>3, <5>1 DEF RevokedFirst, At, ChangesRole
        <5> QED
          BY <5>3, <5>4
      <4> QED
        BY <4>1, <4>2
    <3> QED
      BY <3>5, <3>6 DEF FactorInv
  <2> QED
    BY <2>4, <2>5
<1>5. ASSUME NEW c \in Secrets \cup {None}, CompleteBootstrap(r, c)
      PROVE  FactorInv'
  <2>1. user' = user
    BY <1>5 DEF CompleteBootstrap
  <2>2. CASE Moves(r, "idle", None, "none", None, FALSE) /\ session' = session
    BY <1>2, <2>1, <2>2, FactorKept DEF Moves
  <2>3. CASE /\ Moves(r, "initialize", u, "none", None, FALSE)
             /\ \E t \in Tokens :
                   session' = [session EXCEPT ![t] = [user |-> u, factor |-> TRUE,
                                                      held |-> FALSE, overtaken |-> FALSE]]
    <3>0. PICK t \in Tokens :
             session' = [session EXCEPT ![t] = [user |-> u, factor |-> TRUE,
                                                held |-> FALSE, overtaken |-> FALSE]]
      BY <2>3
    <3>1. \A s \in Tokens : SessionStays(s)
      BY <3>0, TypeFacts DEF SessionStays
    <3> QED
      BY <2>1, <2>3, <3>1, FactorKept DEF Moves
  <2> QED
    BY <1>5, <2>2, <2>3, CompleteBootstrapMoves
<1>6. CASE CommitInitialized(r)
  <2>1. u \in Users /\ req[r].tok \in Tokens
    BY <1>6, HasUser DEF CommitInitialized, At
  <2>2. \A v \in Users : user'[v].local = user[v].local /\ user'[v].role = user[v].role
    <3>1. PICK k \in FreshCodes : user' = [user EXCEPT ![u] = Enrolled(@, k)]
      BY <1>6 DEF CommitInitialized
    <3>2. k \in Codes /\ user[u] \in UserRows
      BY <2>1, TypeFacts, FreshType
    <3> QED
      BY <2>1, <3>1, <3>2, TypeFacts, EnrolledType
  <2>3. Moves(r, "idle", None, "none", None, FALSE)
    BY <1>6, FinishMoves DEF CommitInitialized
  <2>4. \A s \in Tokens : SessionStays(s)
    BY <1>6, <2>1, HeldSame DEF CommitInitialized, SessionStays
  <2> QED
    BY <2>2, <2>3, <2>4, FactorKept DEF Moves
<1>7. CASE Crash(r)
  <2>1. Moves(r, "idle", None, "none", None, FALSE) /\ UNCHANGED <<user, session>>
    BY <1>7, FinishMoves DEF Crash
  <2> QED
    BY <1>2, <2>1, FactorKept DEF Moves
<1> QED
  BY <1>3, <1>4, <1>5, <1>6, <1>7

LEMMA FactorStep == TypeInv /\ AccountInv /\ FactorInv /\ [Next]_vars => FactorInv'
<1> SUFFICES ASSUME TypeInv, AccountInv, FactorInv, [Next]_vars
             PROVE  FactorInv'
  OBVIOUS
<1>1. ASSUME \A v \in Users : user'[v].local = user[v].local /\ user'[v].role = user[v].role
      PROVE  \A v \in Users : MandatoryNext(v) => Mandatory(v)
  BY <1>1 DEF Mandatory, MandatoryNext
<1>2. ASSUME \A t \in Tokens : session'[t] \in {session[t], None}
      PROVE  \A s \in Tokens : SessionStays(s)
  BY <1>2 DEF SessionStays
<1>3. CASE Still
  <2>1. /\ user' = user /\ req' = req
        /\ \A t \in Tokens : session'[t] \in {session[t], None}
    BY <1>3 DEF Still
  <2> QED
    BY <1>1, <1>2, <2>1, FactorFrame
<1>4. ASSUME NEW r \in Requests, Quiet(r)
      PROVE  FactorInv'
  <2>1. UNCHANGED <<user, session>>
    BY <1>4 DEF Quiet
  <2>2. (\A v \in Users : MandatoryNext(v) => Mandatory(v)) /\ \A s \in Tokens : SessionStays(s)
    BY <1>1, <1>2, <2>1
  <2>3. CASE req' = req
    BY <2>2, <2>3, FactorFrame
  <2>4. ASSUME NEW pc, NEW u, NEW op, Moves(r, pc, u, op, None, FALSE),
               pc \notin {"accepted", "commit"}
        PROVE  FactorInv'
    BY <2>2, <2>4, FactorMoves
  <2> QED
    BY <1>4, <2>3, <2>4 DEF Quiet
<1>5. ASSUME NEW r \in Requests, Telling(r)
      PROVE  FactorInv'
  BY <1>5, LoginFactor, CompleteLoginFactor, FactorChecked, AdminFactor, SetupFactor DEF Telling
<1>6. ASSUME NEW u \in Users, NEW enable \in BOOLEAN, BreakGlass(u, enable)
      PROVE  FactorInv'
  <2>1. UNCHANGED <<session, req>>
    BY <1>6 DEF BreakGlass
  <2>2. \A v \in Users : user'[v].local = user[v].local /\ user'[v].role = user[v].role
    BY <1>6, TypeFacts, BreakGlassType DEF BreakGlass
  <2> QED
    BY <1>1, <1>2, <2>1, <2>2, FactorFrame
<1> QED
  BY <1>3, <1>4, <1>5, <1>6, StepKinds

\* An account that must use a second factor holds no session that skipped it:
\* change_role revokes the sessions first and a login decides on the row it
\* read, so only a login the change overtook can slip through.
THEOREM SecondFactorsHeld == Spec => []SecondFactorHeld
<1> DEFINE Inv == TypeInv /\ SetupInv /\ AccountInv /\ FactorInv
<1>1. Init => FactorInv
  <2> SUFFICES ASSUME NEW st \in Starts, InitFrom(st)
               PROVE  FactorInv
    BY DEF Init
  <2>1. SecondFactorHeld
    BY DEF InitFrom, SecondFactorHeld
  <2>2. \A r \in Requests : ReadStrict(r) /\ RevokedFirst(r)
    BY IdleFields DEF InitFrom, ReadStrict, RevokedFirst, At
  <2> QED
    BY <2>1, <2>2 DEF FactorInv
<1>2. Init => Inv
  BY <1>1, TypeInit, SetupInit, AccountInit
<1>3. Inv /\ [Next]_vars => Inv'
  BY TypeStep, SetupInvStep, AccountStep, FactorStep
<1>4. Inv => SecondFactorHeld
  BY DEF FactorInv
<1> QED
  BY <1>2, <1>3, <1>4, PTL DEF Spec

-----------------------------------------------------------------------------
\* Administrators.
LEMMA AdminFinite == IsFiniteSet(ActiveAdmins)
<1>1. ActiveAdmins \in SUBSET Users
  BY DEF ActiveAdmins
<1> QED
  BY <1>1, FiniteAssumption, FS_Subset

\* The count in disable_user and update_role finds another one.
LEMMA AnotherAdmin ==
    ASSUME AnotherAdminRemains, NEW u
    PROVE  \E v \in ActiveAdmins : v # u
<1> SUFFICES ASSUME ActiveAdmins \subseteq {u}
             PROVE  FALSE
  OBVIOUS
<1>1. Cardinality(ActiveAdmins) <= Cardinality({u}) /\ Cardinality({u}) = 1
  BY FS_Subset, FS_Singleton
<1>2. Cardinality(ActiveAdmins) \in Nat
  BY AdminFinite, FS_CardinalityType
<1> QED
  BY <1>1, <1>2 DEF AnotherAdminRemains

LEMMA OneRequest ==
    ASSUME TypeInv, OneConsole, NEW r \in use.consoles, NEW q \in use.consoles
    PROVE  q = r
<1> SUFFICES ASSUME q # r
             PROVE  FALSE
  OBVIOUS
<1>1. use.consoles \in SUBSET Requests
  BY TypeFacts DEF Uses
<1>2. IsFiniteSet(use.consoles)
  BY <1>1, FiniteAssumption, FS_Subset
<1>3. Cardinality(use.consoles) \in Nat
  BY <1>2, FS_CardinalityType
<1>4. Cardinality(use.consoles) = 0 => use.consoles = {}
  BY <1>2, FS_EmptySet
<1>5. Cardinality(use.consoles) = 1 => \E x : use.consoles = {x}
  BY <1>2, FS_Singleton
<1>6. Cardinality(use.consoles) \in {0, 1}
  BY <1>3 DEF OneConsole
<1> QED
  BY <1>4, <1>5, <1>6

\* A step that takes no administrator away and begins nothing that may.
LEMMA AdminFrame ==
    ASSUME AdminInv, use' = use,
           ActiveAdmins \subseteq ActiveAdmins',
           \/ setup'.admin = setup.admin /\ setup'.initialized = setup.initialized
           \/ setup.admin # None
           \/ ActiveAdmins' # {},
           \A q \in Requests : Demotes(q)' => Demotes(q) /\ req'[q].user = req[q].user,
           \A q \in Requests : req'[q].pc \in {"login", "ldap", "accepted"} =>
               \/ req[q].pc \in {"login", "ldap", "accepted"}
               \/ use.callers # {}
    PROVE  AdminInv'
<1>1. OneConsole' <=> OneConsole
  BY DEF OneConsole
<1>2. \A r \in Requests : Demotes(r)' => r \in use'.consoles
  BY DEF AdminInv
<1>3. ASSUME OneConsole
      PROVE  /\ \A r \in Requests : req'[r].pc \notin {"login", "ldap", "accepted"}
             /\ setup'.initialized \/ setup'.admin # None => ActiveAdmins' # {}
             /\ \A r \in Requests : Demotes(r)' => \E v \in ActiveAdmins' : v # req'[r].user
  <2>1. \A r \in Requests : req'[r].pc \notin {"login", "ldap", "accepted"}
    BY <1>3 DEF AdminInv, OneConsole
  <2>2. setup'.initialized \/ setup'.admin # None => ActiveAdmins' # {}
    BY <1>3 DEF AdminInv
  <2>3. ASSUME NEW r \in Requests, Demotes(r)'
        PROVE  \E v \in ActiveAdmins' : v # req'[r].user
    BY <1>3, <2>3 DEF AdminInv
  <2> QED
    BY <2>1, <2>2, <2>3
<1> QED
  BY <1>1, <1>2, <1>3 DEF AdminInv

\* A step of r that leaves the users and the setup row alone.
LEMMA AdminMoves ==
    ASSUME AdminInv, NEW r \in Requests, UNCHANGED <<user, use>>,
           setup'.admin = setup.admin, setup'.initialized = setup.initialized,
           \A q \in Requests : q # r => req'[q] = req[q],
           Demotes(r)' => Demotes(r) /\ req'[r].user = req[r].user,
           req'[r].pc \in {"login", "ldap", "accepted"} =>
               \/ req[r].pc \in {"login", "ldap", "accepted"}
               \/ use.callers # {}
    PROVE  AdminInv'
<1>1. ActiveAdmins' = ActiveAdmins
  BY DEF ActiveAdmins
<1>2. \A q \in Requests : q # r => (Demotes(q)' <=> Demotes(q))
  BY DEF Demotes
<1> QED
  BY <1>1, <1>2, AdminFrame

\* A commit of r that keeps every active administrator.
LEMMA AdminCommits ==
    ASSUME TypeInv, AdminInv, NEW r \in Requests, NEW u \in Users, use' = use,
           \A v \in Users : v # u => user'[v] = user[v],
           u \in ActiveAdmins =>
               user'[u].exists /\ user'[u].active /\ user'[u].role = "ADMIN",
           setup'.admin = setup.admin,
           setup'.initialized = setup.initialized \/ setup.admin # None,
           \A q \in Requests : q # r => SameRequest(q) /\ req'[q].role = req[q].role,
           req'[r].pc = "idle"
    PROVE  AdminInv'
<1>1. ActiveAdmins \subseteq ActiveAdmins'
  BY DEF ActiveAdmins
<1>2. \A q \in Requests : q # r => (Demotes(q)' <=> Demotes(q)) /\ req'[q].user = req[q].user
  BY DEF Demotes, SameRequest
<1>3. ~Demotes(r)'
  BY DEF Demotes
<1>4. \A q \in Requests : q # r => req'[q].pc = req[q].pc
  BY DEF SameRequest
<1> QED
  BY <1>1, <1>2, <1>3, <1>4, AdminFrame

LEMMA LoginAdmins ==
    ASSUME TypeInv, AdminInv, NEW r \in Requests, UNCHANGED <<setupVars, use>>,
           \/ \E matches \in BOOLEAN : LocalAuthenticate(r, matches)
           \/ \E mapped \in SUBSET RoleName : LdapBinds(r, mapped)
           \/ CompleteLogin(r)
    PROVE  AdminInv'
<1> USE DEF setupVars
<1>1. ASSUME NEW matches \in BOOLEAN, LocalAuthenticate(r, matches)
      PROVE  AdminInv'
  <2>1. user' = user /\ req[r].pc = "login"
    BY <1>1, LocalAuthenticateMoves DEF LocalAuthenticate
  <2>2. /\ req'[r].pc \in {"accepted", "rejected", "ldap"}
        /\ \A q \in Requests : q # r => req'[q] = req[q]
    BY <1>1, LocalAuthenticateMoves DEF Moves
  <2>3. ~Demotes(r)'
    BY <2>2 DEF Demotes
  <2> QED
    BY <2>1, <2>2, <2>3, AdminMoves
<1>2. ASSUME NEW mapped \in SUBSET RoleName, LdapBinds(r, mapped)
      PROVE  AdminInv'
  <2>1. user' = user /\ req[r].pc = "ldap"
    BY <1>2, LdapBindsMoves DEF LdapBinds
  <2>2. /\ req'[r].pc \in {"accepted", "rejected", "idle"}
        /\ \A q \in Requests : q # r => req'[q] = req[q]
    BY <1>2, LdapBindsMoves DEF Moves
  <2>3. ~Demotes(r)'
    BY <2>2 DEF Demotes
  <2> QED
    BY <2>1, <2>2, <2>3, AdminMoves
<1>3. CASE CompleteLogin(r)
  <2>1. req[r].pc = "accepted" /\ Moves(r, "idle", None, "none", None, FALSE)
    BY <1>3, FinishMoves DEF CompleteLogin, At
  <2>2. ~OneConsole /\ ~OneConsole'
    BY <2>1 DEF AdminInv, OneConsole
  <2>3. \A q \in Requests : Demotes(q)' => Demotes(q)
    BY <2>1 DEF Demotes, Moves
  <2> QED
    BY <2>2, <2>3 DEF AdminInv
<1> QED
  BY <1>1, <1>2, <1>3

LEMMA FactorAdmins ==
    ASSUME TypeInv, AdminInv, NEW r \in Requests, UNCHANGED <<setupVars, use>>,
           \/ \E c \in Secrets \cup Codes \cup {None} : CheckFactor(r, c)
           \/ OpenVerified(r)
           \/ CommitVerified(r)
           \/ CommitSecret(r)
           \/ \E c \in Secrets \cup {None} : CommitEnrolment(r, c)
           \/ \E t \in Tokens, c \in Secrets \cup Codes : BeginResetSelf(r, t, c)
    PROVE  AdminInv'
<1> USE DEF setupVars
<1> DEFINE u == req[r].user
<1>1. ASSUME NEW c \in Secrets \cup Codes \cup {None}, CheckFactor(r, c)
      PROVE  AdminInv'
  <2>1. /\ user' = user /\ req'[r].pc \in {"passed", "failed"}
        /\ \A q \in Requests : q # r => req'[q] = req[q]
    BY <1>1, CheckFactorMoves DEF CheckFactor, Moves
  <2>2. ~Demotes(r)'
    BY <2>1 DEF Demotes
  <2> QED
    BY <2>1, <2>2, AdminMoves
<1>2. CASE OpenVerified(r)
  <2>1. /\ user' = user /\ req'[r].pc = "answer"
        /\ \A q \in Requests : q # r => req'[q] = req[q]
    BY <1>2, OpenVerifiedMoves DEF OpenVerified, Moves
  <2>2. ~Demotes(r)'
    BY <2>1 DEF Demotes
  <2> QED
    BY <2>1, <2>2, AdminMoves
<1>3. ASSUME u \in Users, Finish(r),
             \A v \in Users : v # u => user'[v] = user[v],
             user'[u].exists = user[u].exists, user'[u].role = user[u].role,
             user'[u].active = user[u].active
      PROVE  AdminInv'
  <2>1. /\ req'[r].pc = "idle"
        /\ \A q \in Requests : q # r => SameRequest(q) /\ req'[q].role = req[q].role
    BY <1>3, FinishMoves DEF Moves, SameRequest
  <2>2. u \in ActiveAdmins => user'[u].exists /\ user'[u].active /\ user'[u].role = "ADMIN"
    BY <1>3 DEF ActiveAdmins
  <2> QED
    BY <1>3, <2>1, <2>2, AdminCommits
<1>4. CASE CommitVerified(r)
  <2>1. u \in Users
    BY <1>4, HasUser DEF CommitVerified, At
  <2> QED
    BY <1>3, <1>4, <2>1, TypeFacts, SpendType DEF CommitVerified
<1>5. CASE CommitSecret(r)
  <2>1. u \in Users
    BY <1>5, HasUser DEF CommitSecret, At
  <2> QED
    BY <1>3, <1>5, <2>1, TypeFacts, SecretType DEF CommitSecret
<1>6. ASSUME NEW c \in Secrets \cup {None}, CommitEnrolment(r, c)
      PROVE  AdminInv'
  <2>1. u \in Users /\ Finish(r)
    BY <1>6, HasUser DEF CommitEnrolment, At
  <2>2. PICK k \in FreshCodes : user' = [user EXCEPT ![u] = Enrolled(@, k)]
    BY <1>6 DEF CommitEnrolment
  <2>3. k \in Codes /\ user[u] \in UserRows
    BY <2>1, TypeFacts, FreshType
  <2>4. /\ \A v \in Users : v # u => user'[v] = user[v]
        /\ user'[u].exists = user[u].exists /\ user'[u].role = user[u].role
        /\ user'[u].active = user[u].active
    BY <2>1, <2>2, <2>3, TypeFacts, EnrolledType
  <2> QED
    BY <1>3, <2>1, <2>4
<1>7. ASSUME NEW t \in Tokens, NEW c \in Secrets \cup Codes, BeginResetSelf(r, t, c)
      PROVE  AdminInv'
  <2>1. /\ user' = user /\ req'[r].pc = "revoke" /\ req'[r].op = "reset"
        /\ \A q \in Requests : q # r => req'[q] = req[q]
    BY <1>7, BeginResetSelfMoves DEF BeginResetSelf, Moves
  <2>2. ~Demotes(r)'
    BY <2>1 DEF Demotes
  <2> QED
    BY <2>1, <2>2, AdminMoves
<1> QED
  BY <1>1, <1>2, <1>4, <1>5, <1>6, <1>7

\* disable_user and update_role look before the request may take one away.
LEMMA PermitsLeavesOne ==
    ASSUME TypeInv, AccountInv, NEW t \in Tokens, NEW op \in AdminOps, NEW u \in Users,
           NEW role \in RoleName, IsAdmin(t), Permits(op, session[t].user, u, role),
           op = "disable" \/ (op = "role" /\ role # "ADMIN")
    PROVE  \E v \in ActiveAdmins : v # u
<1> DEFINE me == session[t].user
<1>1. me \in ActiveAdmins
  <2>1. me \in Users /\ user[me].active /\ user[me].role = "ADMIN"
    BY TypeFacts DEF IsAdmin, CurrentUser, Logins
  <2>2. user[me].exists
    BY <2>1, NoUserType DEF AccountInv, RowsThere
  <2> QED
    BY <2>1, <2>2 DEF ActiveAdmins
<1>2. CASE me # u
  BY <1>1, <1>2
<1>3. CASE me = u
  <2>1. user[u].active /\ user[u].role = "ADMIN"
    BY <1>1, <1>3 DEF ActiveAdmins
  <2>2. AnotherAdminRemains
    BY <2>1 DEF Permits
  <2> QED
    BY <2>2, AnotherAdmin
<1> QED
  BY <1>2, <1>3

LEMMA ConsoleAdmins ==
    ASSUME TypeInv, AccountInv, AdminInv, NEW r \in Requests, UNCHANGED <<setupVars, use>>,
           \/ \E t \in Tokens, op \in AdminOps, u \in Users, role \in RoleName :
                 BeginAdmin(r, t, op, u, role)
           \/ RevokeSessions(r)
           \/ CommitAdmin(r)
    PROVE  AdminInv'
<1> USE DEF setupVars
<1>1. ASSUME NEW t \in Tokens, NEW op \in AdminOps, NEW u \in Users, NEW role \in RoleName,
             BeginAdmin(r, t, op, u, role)
      PROVE  AdminInv'
  <2>1. /\ UNCHANGED <<user, use, setup>> /\ r \in use.consoles
        /\ IsAdmin(t) /\ Permits(op, session[t].user, u, role)
    BY <1>1 DEF BeginAdmin
  <2>2. /\ req'[r].pc \in {"revoke", "commit"} /\ req'[r].op = op
        /\ req'[r].role = role /\ req'[r].user = u
        /\ \A q \in Requests : q # r => req'[q] = req[q]
    BY <1>1, BeginAdminMoves DEF Moves
  <2>3. ActiveAdmins' = ActiveAdmins
    BY <2>1 DEF ActiveAdmins
  <2>4. Demotes(r)' => \E v \in ActiveAdmins : v # u
    BY <2>1, <2>2, PermitsLeavesOne DEF Demotes
  <2>5. \A q \in Requests : q # r => (Demotes(q)' <=> Demotes(q))
    BY <2>2 DEF Demotes
  <2>6. OneConsole' <=> OneConsole
    BY <2>1 DEF OneConsole
  <2>7. \A q \in Requests : Demotes(q)' => q \in use'.consoles
    BY <2>1, <2>5 DEF AdminInv
  <2>8. ASSUME OneConsole
        PROVE  /\ \A q \in Requests : req'[q].pc \notin {"login", "ldap", "accepted"}
               /\ setup'.initialized \/ setup'.admin # None => ActiveAdmins' # {}
               /\ \A q \in Requests : Demotes(q)' => \E v \in ActiveAdmins' : v # req'[q].user
    <3>1. \A q \in Requests : req'[q].pc \notin {"login", "ldap", "accepted"}
      BY <2>2, <2>8 DEF AdminInv
    <3>2. setup'.initialized \/ setup'.admin # None => ActiveAdmins' # {}
      BY <2>1, <2>3, <2>8 DEF AdminInv
    <3>3. ASSUME NEW q \in Requests, Demotes(q)'
          PROVE  \E v \in ActiveAdmins' : v # req'[q].user
      <4>1. CASE q = r
        BY <2>2, <2>3, <2>4, <3>3, <4>1
      <4>2. CASE q # r
        BY <2>2, <2>3, <2>5, <2>8, <3>3, <4>2 DEF AdminInv
      <4> QED
        BY <4>1, <4>2
    <3> QED
      BY <3>1, <3>2, <3>3
  <2> QED
    BY <2>6, <2>7, <2>8 DEF AdminInv
<1>2. CASE RevokeSessions(r)
  <2>1. /\ user' = user /\ req'[r].pc = "commit" /\ req'[r].op = req[r].op
        /\ req'[r].role = req[r].role /\ req'[r].user = req[r].user /\ req[r].pc = "revoke"
        /\ \A q \in Requests : q # r => req'[q] = req[q]
    BY <1>2, RevokeSessionsMoves DEF RevokeSessions, Moves
  <2>2. Demotes(r)' => Demotes(r)
    BY <2>1 DEF Demotes
  <2> QED
    BY <2>1, <2>2, AdminMoves
<1>3. CASE CommitAdmin(r)
  <2> DEFINE u == req[r].user
             row == Written(req[r].op, req[r].row, user[u], req[r].role)
  <2>1. /\ u \in Users /\ req[r].pc = "commit" /\ req[r].row \in UserRows
        /\ req[r].role \in RoleName /\ req[r].op \in AdminOps \cup {"none"}
        /\ user[u] \in UserRows
    BY <1>3, CommitAdminMoves, TypeFacts DEF Handlers
  <2>2. user' = [user EXCEPT ![u] = row]
    BY <1>3 DEF CommitAdmin
  <2>3. user'[u] = row /\ \A v \in Users : v # u => user'[v] = user[v]
    BY <2>1, <2>2, TypeFacts
  <2>4. /\ req'[r].pc = "idle"
        /\ \A q \in Requests : q # r => SameRequest(q) /\ req'[q].role = req[q].role
    BY <1>3, CommitAdminMoves, IdleFields DEF SameRequest
  <2>5. CASE ~Demotes(r)
    <3>1. ASSUME u \in ActiveAdmins
          PROVE  row.exists /\ row.active /\ row.role = "ADMIN"
      <4>0. user[u].exists /\ user[u].active /\ user[u].role = "ADMIN"
        BY <3>1 DEF ActiveAdmins
      <4>1. CASE req[r].op = "none"
        BY <4>0, <4>1 DEF Written
      <4>2. CASE req[r].op \in AdminOps
        <5>1. req[r].op # "create"
          BY <2>1, <4>0, AccountFacts DEF AccountInv, RequestThere, At
        <5>2. req[r].op # "disable" /\ (req[r].op = "role" => req[r].role = "ADMIN")
          BY <2>1, <2>5 DEF Demotes
        <5>3. row.exists
          BY <2>1, <4>0, <4>2, <5>1, WrittenKeeps
        <5>4. row.active
          BY <2>1, <4>0, <4>2, <5>1, <5>2, WrittenActive DEF AdminOps
        <5>5. row.role = "ADMIN"
          BY <2>1, <4>0, <4>2, <5>1, <5>2, WrittenRole
        <5> QED
          BY <5>3, <5>4, <5>5
      <4> QED
        BY <2>1, <4>1, <4>2
    <3> HIDE DEF row
    <3>2. u \in ActiveAdmins => user'[u].exists /\ user'[u].active /\ user'[u].role = "ADMIN"
      BY <2>3, <3>1
    <3> QED
      BY <2>1, <2>3, <2>4, <3>2, AdminCommits
  <2>6. CASE Demotes(r)
    <3>1. \A q \in Requests : q # r => (Demotes(q)' <=> Demotes(q)) /\ req'[q].pc = req[q].pc
      BY <2>4 DEF Demotes, SameRequest
    <3>2. ~Demotes(r)'
      BY <2>4 DEF Demotes
    <3>3. OneConsole' <=> OneConsole
      BY DEF OneConsole
    <3>4. \A q \in Requests : Demotes(q)' => q \in use'.consoles
      BY <3>1, <3>2 DEF AdminInv
    <3>5. ASSUME OneConsole
          PROVE  /\ \A q \in Requests : req'[q].pc \notin {"login", "ldap", "accepted"}
                 /\ ActiveAdmins' # {}
                 /\ \A q \in Requests : ~Demotes(q)'
      <4>1. \A q \in Requests : req'[q].pc \notin {"login", "ldap", "accepted"}
        BY <2>4, <3>1, <3>5 DEF AdminInv
      <4>2. PICK v \in ActiveAdmins : v # u
        BY <2>6, <3>5 DEF AdminInv
      <4>3. v \in ActiveAdmins'
        BY <2>3, <4>2 DEF ActiveAdmins
      <4>4. \A q \in Requests : q # r => ~Demotes(q)
        BY <2>6, <3>5, OneRequest DEF AdminInv
      <4> QED
        BY <3>1, <3>2, <4>1, <4>3, <4>4
    <3> QED
      BY <3>3, <3>4, <3>5 DEF AdminInv
  <2> QED
    BY <2>5, <2>6
<1> QED
  BY <1>1, <1>2, <1>3

LEMMA SetupAdmins ==
    ASSUME TypeInv, SetupInv, AdminInv, NEW r \in Requests, use' = use,
           \/ CreateBootstrapAdmin(r)
           \/ CommitBootstrapAdmin(r)
           \/ \E c \in Secrets \cup {None} : CompleteBootstrap(r, c)
           \/ CommitInitialized(r)
           \/ Crash(r)
    PROVE  AdminInv'
<1> DEFINE u == req[r].user
<1>1. CASE CreateBootstrapAdmin(r)
  <2>1. /\ UNCHANGED <<user, setup>> /\ req'[r].pc \in {"idle", "rejected", "bootstrap"}
        /\ \A q \in Requests : q # r => req'[q] = req[q]
    BY <1>1, BootstrapMoves DEF CreateBootstrapAdmin, Moves
  <2>2. ~Demotes(r)'
    BY <2>1 DEF Demotes
  <2> QED
    BY <2>1, <2>2, AdminMoves
<1>2. CASE CommitBootstrapAdmin(r)
  <2>1. u \in Users /\ req[r].pc = "bootstrap" /\ req[r].write \in BOOLEAN
    BY <1>2, HasUser DEF CommitBootstrapAdmin, At, Handlers
  <2>2. user' = [user EXCEPT ![u] = IF req[r].write THEN NewUser(TRUE, "ADMIN") ELSE @]
    BY <1>2 DEF CommitBootstrapAdmin
  <2>3. Moves(r, "idle", None, "none", None, FALSE)
    BY <1>2, FinishMoves DEF CommitBootstrapAdmin
  <2>4. \A q \in Requests : Demotes(q)' => Demotes(q) /\ req'[q].user = req[q].user
    BY <2>3 DEF Demotes, Moves
  <2>5. \A q \in Requests : req'[q].pc \in {"login", "ldap", "accepted"} => req'[q].pc = req[q].pc
    BY <2>3 DEF Moves
  <2>6. CASE req[r].write
    <3>1. user'[u].exists /\ user'[u].active /\ user'[u].role = "ADMIN"
      BY <2>1, <2>2, <2>6, TypeFacts DEF NewUser
    <3>2. \A v \in Users : v # u => user'[v] = user[v]
      BY <2>1, <2>2, TypeFacts
    <3>3. ActiveAdmins \subseteq ActiveAdmins' /\ ActiveAdmins' # {}
      BY <2>1, <3>1, <3>2 DEF ActiveAdmins
    <3> QED
      BY <2>4, <2>5, <3>3, AdminFrame
  <2>7. CASE ~req[r].write
    <3>1. user' = user
      BY <2>2, <2>7, TypeFacts
    <3>2. ActiveAdmins' = ActiveAdmins
      BY <3>1 DEF ActiveAdmins
    <3>3. setup.admin # None
      BY <2>1, <2>7 DEF SetupInv, At
    <3> QED
      BY <2>4, <2>5, <3>2, <3>3, AdminFrame
  <2> QED
    BY <2>6, <2>7
<1>3. ASSUME NEW c \in Secrets \cup {None}, CompleteBootstrap(r, c)
      PROVE  AdminInv'
  <2>1. /\ UNCHANGED <<user, setup>> /\ req'[r].pc \in {"idle", "initialize"}
        /\ \A q \in Requests : q # r => req'[q] = req[q]
    BY <1>3, CompleteBootstrapMoves DEF CompleteBootstrap, Moves
  <2>2. ~Demotes(r)'
    BY <2>1 DEF Demotes
  <2> QED
    BY <2>1, <2>2, AdminMoves
<1>4. CASE CommitInitialized(r)
  <2>1. u \in Users /\ setup.admin # None
    BY <1>4, HasUser DEF CommitInitialized, At, SetupInv
  <2>2. PICK k \in FreshCodes : user' = [user EXCEPT ![u] = Enrolled(@, k)]
    BY <1>4 DEF CommitInitialized
  <2>3. k \in Codes /\ user[u] \in UserRows
    BY <2>1, TypeFacts, FreshType
  <2>4. /\ \A v \in Users : v # u => user'[v] = user[v]
        /\ user'[u].exists = user[u].exists /\ user'[u].role = user[u].role
        /\ user'[u].active = user[u].active
    BY <2>1, <2>2, <2>3, TypeFacts, EnrolledType
  <2>5. u \in ActiveAdmins => user'[u].exists /\ user'[u].active /\ user'[u].role = "ADMIN"
    BY <2>4 DEF ActiveAdmins
  <2>6. Moves(r, "idle", None, "none", None, FALSE)
    BY <1>4, FinishMoves DEF CommitInitialized
  <2>7. /\ req'[r].pc = "idle"
        /\ \A q \in Requests : q # r => SameRequest(q) /\ req'[q].role = req[q].role
    BY <2>6 DEF Moves, SameRequest
  <2>8. setup'.admin = setup.admin
    BY <1>4, TypeFacts DEF CommitInitialized, SetupRows
  <2> QED
    BY <2>1, <2>4, <2>5, <2>7, <2>8, AdminCommits
<1>5. CASE Crash(r)
  <2>1. /\ UNCHANGED <<user, setup>> /\ req'[r].pc = "idle"
        /\ \A q \in Requests : q # r => req'[q] = req[q]
    BY <1>5, FinishMoves DEF Crash, Moves
  <2>2. ~Demotes(r)'
    BY <2>1 DEF Demotes
  <2> QED
    BY <2>1, <2>2, AdminMoves
<1> QED
  BY <1>1, <1>2, <1>3, <1>4, <1>5

LEMMA AdminInit == Init => AdminInv
<1> SUFFICES ASSUME NEW st \in Starts, InitFrom(st)
             PROVE  AdminInv
  BY DEF Init
<1>1. \A r \in Requests : req[r].pc = "idle"
  BY IdleFields DEF InitFrom
<1>2. setup.admin = None /\ (setup.initialized => ActiveAdmins # {})
  BY StartAssumption DEF InitFrom, ActiveAdmins
<1> QED
  BY <1>1, <1>2 DEF AdminInv, Demotes

LEMMA AdminStays ==
    TypeInv /\ SetupInv /\ AccountInv /\ AdminInv /\ [Next]_vars => AdminInv'
<1> SUFFICES ASSUME TypeInv, SetupInv, AccountInv, AdminInv, [Next]_vars
             PROVE  AdminInv'
  OBVIOUS
<1>1. CASE Still
  <2>1. /\ UNCHANGED <<user, req, use>>
        /\ setup'.admin = setup.admin /\ setup'.initialized = setup.initialized
    BY <1>1 DEF Still
  <2>2. ActiveAdmins' = ActiveAdmins /\ \A q \in Requests : Demotes(q)' <=> Demotes(q)
    BY <2>1 DEF ActiveAdmins, Demotes
  <2> QED
    BY <2>1, <2>2, AdminFrame
<1>2. ASSUME NEW r \in Requests, Quiet(r)
      PROVE  AdminInv'
  <2>1. UNCHANGED <<user, setup, use>>
    BY <1>2 DEF Quiet, setupVars
  <2>2. CASE req' = req
    <3>1. Demotes(r)' => Demotes(r)
      BY <2>2 DEF Demotes
    <3> QED
      BY <2>1, <2>2, <3>1, AdminMoves
  <2>3. ASSUME NEW pc, NEW u, NEW op, Moves(r, pc, u, op, None, FALSE),
               \/ pc \in {"idle", "rejected", "expire", "setup", "verify", "enroll", "confirm",
                          "finish", "recount"}
               \/ pc = "login" /\ u \in use.callers
        PROVE  AdminInv'
    <3>1. req'[r].pc = pc /\ \A q \in Requests : q # r => req'[q] = req[q]
      BY <2>3 DEF Moves
    <3>2. ~Demotes(r)'
      BY <2>3, <3>1 DEF Demotes
    <3>3. pc = "login" => use.callers # {}
      BY <2>3
    <3> QED
      BY <2>1, <2>3, <3>1, <3>2, <3>3, AdminMoves
  <2> QED
    BY <1>2, <2>2, <2>3 DEF Quiet
<1>3. ASSUME NEW r \in Requests, Telling(r)
      PROVE  AdminInv'
  BY <1>3, LoginAdmins, FactorAdmins, ConsoleAdmins, SetupAdmins DEF Telling
<1>4. ASSUME NEW u \in Users, NEW enable \in BOOLEAN, BreakGlass(u, enable),
             UNCHANGED <<setupVars, crashes, use>>
      PROVE  AdminInv'
  <2>1. UNCHANGED <<req, use, setup>>
    BY <1>4 DEF BreakGlass, setupVars
  <2>2. user' = [user EXCEPT ![u].active = @ \/ enable]
    BY <1>4 DEF BreakGlass
  <2>3. ActiveAdmins \subseteq ActiveAdmins'
    BY <2>2, TypeFacts, BreakGlassType DEF ActiveAdmins
  <2>4. \A q \in Requests : Demotes(q)' <=> Demotes(q)
    BY <2>1 DEF Demotes
  <2> QED
    BY <2>1, <2>3, <2>4, AdminFrame
<1> QED
  BY <1>1, <1>2, <1>3, <1>4, StepKinds

\* Once set up, the system keeps an active administrator whatever one console
\* disables or demotes: between the count and the commit nobody else takes
\* one away.
THEOREM AdministratorRemains == Spec => []SomeActiveAdmin
<1> DEFINE Inv == TypeInv /\ SetupInv /\ AccountInv /\ AdminInv
<1>1. Init => Inv
  BY TypeInit, SetupInit, AccountInit, AdminInit
<1>2. Inv /\ [Next]_vars => Inv'
  BY TypeStep, SetupInvStep, AccountStep, AdminStays
<1>3. Inv => SomeActiveAdmin
  BY DEF AdminInv, OneConsole, SomeActiveAdmin
<1> QED
  BY <1>1, <1>2, <1>3, PTL DEF Spec

-----------------------------------------------------------------------------
\* Failure counters.  The requests that have made a key and not yet given it
\* a time to live.
Waiting(n) == {r \in Requests : At(r, "expire") /\ req[r].user = n}

\* A request that counts nothing in this step and does not begin to try.
Steady(q) ==
    \/ req'[q].pc = req[q].pc /\ req'[q].user = req[q].user
    \/ req[q].pc \notin {"rejected", "expire"} /\ req'[q].pc \notin {"login", "ldap", "setup"}
    \/ req[q].pc = "login" /\ req'[q].pc = "ldap" /\ req'[q].user = req[q].user

LEMMA SteadySets ==
    ASSUME NEW n, \A q \in Requests : Steady(q)
    PROVE  /\ Uncounted(n) \subseteq Uncounted(n)'
           /\ Trying(n)' \subseteq Trying(n)
           /\ Waiting(n) \subseteq Waiting(n)'
  BY DEF Steady, Uncounted, Trying, Waiting, At

\* What a step may do to the counter of a username: leave it, find a wrong
\* attempt, count one, clear it, lock it by force, or lose a request.
Left(n) ==
    /\ fails'[n] = fails[n] /\ tried'[n] = tried[n] /\ crashes' = crashes
    /\ Uncounted(n) \subseteq Uncounted(n)'
    /\ Trying(n)' \subseteq Trying(n) \/ ~Locked(n)
    /\ \/ expires'[n] = expires[n] /\ Waiting(n) \subseteq Waiting(n)'
       \/ expires'[n] = (fails[n] > 0)

Wrong(n) ==
    /\ fails'[n] = fails[n] /\ tried'[n] = tried[n] + 1 /\ crashes' = crashes
    /\ expires'[n] = expires[n] /\ Waiting(n) \subseteq Waiting(n)'
    /\ \E r \in Requests :
          /\ Uncounted(n) \cup {r} \subseteq Uncounted(n)' /\ r \notin Uncounted(n)
          /\ Trying(n)' \subseteq Trying(n) \ {r} /\ r \in Trying(n)

Counts(n) ==
    /\ fails'[n] = fails[n] + 1 /\ tried'[n] = tried[n] /\ crashes' = crashes
    /\ expires'[n] = expires[n] /\ Waiting(n) \subseteq Waiting(n)'
    /\ fails[n] = 0 => Waiting(n)' # {}
    /\ \E r \in Requests : Uncounted(n) \subseteq Uncounted(n)' \cup {r}
    /\ Trying(n)' \subseteq Trying(n)

Clears(n) == fails'[n] = 0 /\ tried'[n] = 0 /\ crashes' = crashes

Forces(n) ==
    /\ fails'[n] = MaxLoginFailures /\ tried'[n] = tried[n] /\ expires'[n] /\ crashes' = crashes
    /\ Trying(n)' \subseteq Trying(n)

Loses(n) ==
    /\ fails'[n] = fails[n] /\ tried'[n] = tried[n] /\ crashes' = crashes + 1
    /\ \E r \in Requests : Uncounted(n) \subseteq Uncounted(n)' \cup {r}
    /\ Trying(n)' \subseteq Trying(n)

Counter(n) == Left(n) \/ Wrong(n) \/ Counts(n) \/ Clears(n) \/ Forces(n) \/ Loses(n)

LEMMA TryingFinite ==
    ASSUME NEW n
    PROVE  /\ IsFiniteSet(Uncounted(n)) /\ IsFiniteSet(Trying(n))
           /\ Cardinality(Uncounted(n)) \in Nat /\ Cardinality(Trying(n)) \in Nat
           /\ Cardinality(Requests) \in Nat
           /\ Cardinality(Uncounted(n)) + Cardinality(Trying(n)) <= Cardinality(Requests)
<1> DEFINE U == Uncounted(n)
           T == Trying(n)
<1>1. U \in SUBSET Requests /\ T \in SUBSET Requests /\ U \cup T \in SUBSET Requests
  BY DEF Uncounted, Trying
<1>2. U \cap T = {}
  BY DEF Uncounted, Trying, At
<1> HIDE DEF U, T
<1>3. IsFiniteSet(U) /\ IsFiniteSet(T)
  BY <1>1, FiniteAssumption, FS_Subset
<1>4. Cardinality(U) \in Nat /\ Cardinality(T) \in Nat /\ Cardinality(Requests) \in Nat
  BY <1>3, FiniteAssumption, FS_CardinalityType
<1>5. Cardinality(U \cup T) <= Cardinality(Requests)
  BY <1>1, FiniteAssumption, FS_Subset
<1>6. Cardinality(U \cup T) = Cardinality(U) + Cardinality(T) - Cardinality({})
  BY <1>2, <1>3, FS_Union
<1>7. Cardinality(U) + Cardinality(T) <= Cardinality(Requests)
  BY <1>4, <1>5, <1>6, FS_EmptySet
<1> QED
  BY <1>3, <1>4, <1>7 DEF U, T

\* The same requests one step later.
LEMMA TryingFiniteNext ==
    ASSUME NEW n
    PROVE  /\ IsFiniteSet(Uncounted(n)') /\ IsFiniteSet(Trying(n)')
           /\ Cardinality(Uncounted(n)') \in Nat /\ Cardinality(Trying(n)') \in Nat
<1>1. Uncounted(n)' \in SUBSET Requests /\ Trying(n)' \in SUBSET Requests
  BY DEF Uncounted, Trying
<1> QED
  BY <1>1, FiniteAssumption, FS_Subset, FS_CardinalityType

\* Sizes, once for all.
LEMMA NotSmaller ==
    ASSUME NEW S, NEW T, IsFiniteSet(T), S \subseteq T
    PROVE  Cardinality(S) <= Cardinality(T)
  BY FS_Subset

LEMMA OneSmaller ==
    ASSUME NEW S, NEW T, IsFiniteSet(S), IsFiniteSet(T), NEW x, S \subseteq T \cup {x}
    PROVE  Cardinality(S) <= Cardinality(T) + 1
<1>0. /\ IsFiniteSet(T \cup {x}) /\ Cardinality(T) \in Nat
      /\ Cardinality(T \cup {x}) = IF x \in T THEN Cardinality(T) ELSE Cardinality(T) + 1
  BY FS_AddElement, FS_CardinalityType
<1>1. Cardinality(T \cup {x}) <= Cardinality(T) + 1 /\ IsFiniteSet(T \cup {x})
  BY <1>0
<1>2. Cardinality(S) <= Cardinality(T \cup {x})
  BY <1>1, FS_Subset
<1>3. Cardinality(S) \in Nat /\ Cardinality(T) \in Nat /\ Cardinality(T \cup {x}) \in Nat
  BY <1>1, FS_CardinalityType
<1> QED
  BY <1>1, <1>2, <1>3

LEMMA OneLarger ==
    ASSUME NEW S, NEW T, IsFiniteSet(S), IsFiniteSet(T), NEW x, x \notin S, S \cup {x} \subseteq T
    PROVE  Cardinality(S) + 1 <= Cardinality(T)
<1>1. Cardinality(S \cup {x}) = Cardinality(S) + 1
  BY FS_AddElement
<1>2. Cardinality(S \cup {x}) <= Cardinality(T)
  BY FS_Subset
<1> QED
  BY <1>1, <1>2

LEMMA AttemptsKept ==
    ASSUME TypeInv, NEW n \in Names, Attempts(n), Counter(n)
    PROVE  Attempts(n)'
<1> DEFINE u == Cardinality(Uncounted(n))
           v == Cardinality(Uncounted(n)')
           s == Cardinality(Trying(n))
           t == Cardinality(Trying(n)')
           m == Cardinality(Requests)
<1>1. /\ u \in Nat /\ v \in Nat /\ s \in Nat /\ t \in Nat /\ m \in Nat /\ u + s <= m
      /\ fails[n] \in Nat /\ tried[n] \in Nat /\ crashes \in Nat
      /\ MaxLoginFailures \in Nat \ {0}
  BY TryingFinite, TryingFiniteNext, TypeFacts, LimitAssumption
<1>2. /\ fails[n] < MaxLoginFailures => tried[n] <= fails[n] + u + crashes
      /\ fails[n] >= MaxLoginFailures => tried[n] + s <= MaxLoginFailures - 1 + m + crashes
  BY DEF Attempts
<1>3. SUFFICES /\ fails'[n] < MaxLoginFailures => tried'[n] <= fails'[n] + v + crashes'
               /\ fails'[n] >= MaxLoginFailures =>
                     tried'[n] + t <= MaxLoginFailures - 1 + m + crashes'
  BY DEF Attempts
<1>4. CASE Left(n)
  <2>1. u <= v
    BY <1>4, TryingFiniteNext, NotSmaller DEF Left
  <2>2. t <= s \/ fails[n] < MaxLoginFailures
    <3>1. CASE ~Locked(n)
      BY <1>1, <3>1 DEF Locked
    <3>2. CASE Trying(n)' \subseteq Trying(n)
      BY <3>2, TryingFinite, NotSmaller
    <3> QED
      BY <1>4, <3>1, <3>2 DEF Left
  <2>3. fails'[n] = fails[n] /\ tried'[n] = tried[n] /\ crashes' = crashes
    BY <1>4 DEF Left
  <2> HIDE DEF u, v, s, t, m
  <2> QED
    BY <1>1, <1>2, <2>1, <2>2, <2>3
<1>5. CASE Wrong(n)
  <2>1. PICK r \in Requests :
          /\ Uncounted(n) \cup {r} \subseteq Uncounted(n)' /\ r \notin Uncounted(n)
          /\ Trying(n)' \subseteq Trying(n) \ {r} /\ r \in Trying(n)
    BY <1>5 DEF Wrong
  <2>2. u + 1 <= v
    BY <2>1, TryingFinite, TryingFiniteNext, OneLarger
  <2>3. t + 1 <= s
    <3>1. r \notin Trying(n)' /\ Trying(n)' \cup {r} \subseteq Trying(n)
      BY <2>1
    <3> QED
      BY <3>1, TryingFinite, TryingFiniteNext, OneLarger
  <2>4. fails'[n] = fails[n] /\ tried'[n] = tried[n] + 1 /\ crashes' = crashes
    BY <1>5 DEF Wrong
  <2> HIDE DEF u, v, s, t, m
  <2> QED
    BY <1>1, <1>2, <2>2, <2>3, <2>4
<1>6. CASE Counts(n)
  <2>1. u <= v + 1
    BY <1>6, TryingFinite, TryingFiniteNext, OneSmaller DEF Counts
  <2>2. t <= s
    BY <1>6, TryingFinite, NotSmaller DEF Counts
  <2>3. fails'[n] = fails[n] + 1 /\ tried'[n] = tried[n] /\ crashes' = crashes
    BY <1>6 DEF Counts
  <2> HIDE DEF u, v, s, t, m
  <2> QED
    BY <1>1, <1>2, <2>1, <2>2, <2>3
<1>7. CASE Clears(n)
  <2> HIDE DEF u, v, s, t, m
  <2> QED
    BY <1>1, <1>7 DEF Clears
<1>8. CASE Forces(n)
  <2>1. t <= s
    BY <1>8, TryingFinite, NotSmaller DEF Forces
  <2>2. fails'[n] = MaxLoginFailures /\ tried'[n] = tried[n] /\ crashes' = crashes
    BY <1>8 DEF Forces
  <2> HIDE DEF u, v, s, t, m
  <2> QED
    BY <1>1, <1>2, <2>1, <2>2
<1>9. CASE Loses(n)
  <2>1. u <= v + 1
    BY <1>9, TryingFinite, TryingFiniteNext, OneSmaller DEF Loses
  <2>2. t <= s
    BY <1>9, TryingFinite, NotSmaller DEF Loses
  <2>3. fails'[n] = fails[n] /\ tried'[n] = tried[n] /\ crashes' = crashes + 1
    BY <1>9 DEF Loses
  <2> HIDE DEF u, v, s, t, m
  <2> QED
    BY <1>1, <1>2, <2>1, <2>2, <2>3
<1> QED
  BY <1>4, <1>5, <1>6, <1>7, <1>8, <1>9 DEF Counter

\* A counter above zero has a time to live or a request about to set it.
Expiring(n) == crashes = 0 /\ fails[n] > 0 /\ ~expires[n] => Waiting(n) # {}

LEMMA ExpiringKept ==
    ASSUME TypeInv, NEW n \in Names, Expiring(n), Counter(n)
    PROVE  Expiring(n)'
<1>1. fails[n] \in Nat /\ expires[n] \in BOOLEAN /\ crashes \in Nat
  BY TypeFacts
<1>2. CASE Left(n)
  BY <1>1, <1>2 DEF Left, Expiring
<1>3. CASE Wrong(n)
  BY <1>1, <1>3 DEF Wrong, Expiring
<1>4. CASE Counts(n)
  BY <1>1, <1>4 DEF Counts, Expiring
<1>5. CASE Clears(n) \/ Forces(n) \/ Loses(n)
  BY <1>1, <1>5 DEF Clears, Forces, Loses, Expiring
<1> QED
  BY <1>2, <1>3, <1>4, <1>5 DEF Counter

LEMMA CounterLeft ==
    ASSUME TypeInv, UNCHANGED <<countVars, crashes>>, \A q \in Requests : Steady(q)
    PROVE  \A n \in Names : Counter(n)
<1> SUFFICES ASSUME NEW n \in Names
             PROVE  Left(n)
  BY DEF Counter
<1> QED
  BY SteadySets DEF Left, countVars

LEMMA CounterClears ==
    ASSUME TypeInv, NEW m \in Names, ClearFailures(m), crashes' = crashes,
           \A q \in Requests : Steady(q)
    PROVE  \A n \in Names : Counter(n)
<1> SUFFICES ASSUME NEW n \in Names
             PROVE  Counter(n)
  OBVIOUS
<1>1. CASE n = m
  BY <1>1, TypeFacts DEF ClearFailures, Counter, Clears
<1>2. CASE n # m
  <2>1. fails'[n] = fails[n] /\ tried'[n] = tried[n] /\ expires'[n] = expires[n]
    BY <1>2, TypeFacts DEF ClearFailures
  <2> QED
    BY <2>1, SteadySets DEF Counter, Left
<1> QED
  BY <1>1, <1>2

LEMMA CounterForced ==
    ASSUME TypeInv, NEW m \in Names, ForceLock(m), crashes' = crashes,
           \A q \in Requests : Steady(q)
    PROVE  \A n \in Names : Counter(n)
<1> SUFFICES ASSUME NEW n \in Names
             PROVE  Counter(n)
  OBVIOUS
<1>1. CASE n = m
  BY <1>1, TypeFacts, SteadySets DEF ForceLock, Counter, Forces
<1>2. CASE n # m
  <2>1. fails'[n] = fails[n] /\ tried'[n] = tried[n] /\ expires'[n] = expires[n]
    BY <1>2, TypeFacts DEF ForceLock
  <2> QED
    BY <2>1, SteadySets DEF Counter, Left
<1> QED
  BY <1>1, <1>2

LEMMA CounterRejects ==
    ASSUME TypeInv, NEW r \in Requests, NEW m \in Names, Reject(r, m),
           UNCHANGED <<fails, expires, crashes>>,
           \/ req[r].pc \in {"login", "ldap"} /\ req[r].user = m
           \/ req[r].pc = "setup" /\ m = SetupKey
    PROVE  \A n \in Names : Counter(n)
<1> SUFFICES ASSUME NEW n \in Names
             PROVE  Counter(n)
  OBVIOUS
<1>1. /\ req'[r].pc = "rejected" /\ req'[r].user = m
      /\ \A q \in Requests : q # r => req'[q] = req[q]
  BY RejectMoves DEF Moves
<1>2. tried' = [tried EXCEPT ![m] = @ + 1]
  BY DEF Reject
<1>3. CASE n = m
  <2>1. tried'[n] = tried[n] + 1
    BY <1>2, <1>3, TypeFacts
  <2>2. Uncounted(n) \cup {r} \subseteq Uncounted(n)' /\ r \notin Uncounted(n)
    BY <1>1, <1>3 DEF Uncounted, At
  <2>3. Trying(n)' \subseteq Trying(n) \ {r}
    BY <1>1, <1>3 DEF Trying, At
  <2>4. r \in Trying(n)
    BY <1>3 DEF Trying, At
  <2>5. Waiting(n) \subseteq Waiting(n)'
    BY <1>1, <1>3 DEF Waiting, At
  <2> QED
    BY <2>1, <2>2, <2>3, <2>4, <2>5 DEF Counter, Wrong
<1>4. CASE n # m
  <2>1. tried'[n] = tried[n]
    BY <1>2, <1>4, TypeFacts
  <2>2. Uncounted(n) \subseteq Uncounted(n)' /\ Waiting(n) \subseteq Waiting(n)'
    BY <1>1 DEF Uncounted, Waiting, At
  <2>3. Trying(n)' \subseteq Trying(n)
    BY <1>1 DEF Trying, At
  <2> QED
    BY <2>1, <2>2, <2>3 DEF Counter, Left
<1> QED
  BY <1>3, <1>4

LEMMA CounterCounts ==
    ASSUME TypeInv, NEW r \in Requests, CountFailure(r), crashes' = crashes
    PROVE  \A n \in Names : Counter(n)
<1> DEFINE m == req[r].user
<1> SUFFICES ASSUME NEW n \in Names
             PROVE  Counter(n)
  OBVIOUS
<1>1. /\ req[r].pc = "rejected" /\ m \in Names /\ fails' = [fails EXCEPT ![m] = @ + 1]
      /\ UNCHANGED <<expires, tried>>
  BY CountFailureMoves DEF CountFailure
<1>2. /\ req'[r].pc \in {"expire", "idle"}
      /\ fails[m] = 0 => req'[r].pc = "expire" /\ req'[r].user = m
      /\ \A q \in Requests : q # r => req'[q] = req[q]
  BY CountFailureMoves DEF Moves
<1>3. Waiting(n) \subseteq Waiting(n)' /\ Trying(n)' \subseteq Trying(n)
  BY <1>1, <1>2 DEF Waiting, Trying, At
<1>4. CASE n = m
  <2>1. fails'[n] = fails[n] + 1
    BY <1>1, <1>4, TypeFacts
  <2>2. Uncounted(n) \subseteq Uncounted(n)' \cup {r}
    BY <1>2 DEF Uncounted, At
  <2>3. fails[n] = 0 => r \in Waiting(n)'
    BY <1>2, <1>4 DEF Waiting, At
  <2> QED
    BY <1>1, <1>3, <2>1, <2>2, <2>3 DEF Counter, Counts
<1>5. CASE n # m
  <2>1. fails'[n] = fails[n]
    BY <1>1, <1>5, TypeFacts
  <2>2. Uncounted(n) \subseteq Uncounted(n)'
    BY <1>2, <1>5 DEF Uncounted, At
  <2> QED
    BY <1>1, <1>3, <2>1, <2>2 DEF Counter, Left
<1> QED
  BY <1>4, <1>5

LEMMA CounterLives ==
    ASSUME TypeInv, NEW r \in Requests, SetExpiry(r), crashes' = crashes
    PROVE  \A n \in Names : Counter(n)
<1> DEFINE m == req[r].user
<1> SUFFICES ASSUME NEW n \in Names
             PROVE  Counter(n)
  OBVIOUS
<1>1. /\ req[r].pc = "expire" /\ expires' = [expires EXCEPT ![m] = fails[m] > 0]
      /\ UNCHANGED <<fails, tried>>
  BY DEF SetExpiry, At
<1>2. req'[r].pc = "idle" /\ \A q \in Requests : q # r => req'[q] = req[q]
  BY FinishMoves DEF SetExpiry, Moves
<1>3. Uncounted(n) \subseteq Uncounted(n)' /\ Trying(n)' \subseteq Trying(n)
  BY <1>1, <1>2 DEF Uncounted, Trying, At
<1>4. CASE n = m
  <2>1. expires'[n] = (fails[n] > 0)
    BY <1>1, <1>4, TypeFacts
  <2> QED
    BY <1>1, <1>3, <2>1 DEF Counter, Left
<1>5. CASE n # m
  <2>1. expires'[n] = expires[n]
    BY <1>1, <1>5, TypeFacts
  <2>2. Waiting(n) \subseteq Waiting(n)'
    BY <1>2, <1>5 DEF Waiting, At
  <2> QED
    BY <1>1, <1>3, <2>1, <2>2 DEF Counter, Left
<1> QED
  BY <1>4, <1>5

LEMMA CounterBegins ==
    ASSUME TypeInv, NEW r \in Requests, NEW m \in Names, NEW pc, NEW u,
           Moves(r, pc, u, "none", None, FALSE),
           \/ pc = "login" /\ u = m
           \/ pc = "setup" /\ m = SetupKey,
           req[r].pc = "idle", ~Locked(m), UNCHANGED <<countVars, crashes>>
    PROVE  \A n \in Names : Counter(n)
<1> SUFFICES ASSUME NEW n \in Names
             PROVE  Counter(n)
  OBVIOUS
<1>1. req'[r].pc = pc /\ req'[r].user = u /\ \A q \in Requests : q # r => req'[q] = req[q]
  BY DEF Moves
<1>2. Uncounted(n) \subseteq Uncounted(n)' /\ Waiting(n) \subseteq Waiting(n)'
  BY <1>1 DEF Uncounted, Waiting, At
<1>3. Trying(n)' \subseteq Trying(n) \/ ~Locked(n)
  BY <1>1 DEF Trying, At
<1> QED
  BY <1>2, <1>3 DEF Counter, Left, countVars

LEMMA CounterLoses ==
    ASSUME TypeInv, NEW r \in Requests, Crash(r)
    PROVE  \A n \in Names : Counter(n)
<1> SUFFICES ASSUME NEW n \in Names
             PROVE  Counter(n)
  OBVIOUS
<1>1. req'[r].pc = "idle" /\ \A q \in Requests : q # r => req'[q] = req[q]
  BY FinishMoves DEF Crash, Moves
<1>2. Uncounted(n) \subseteq Uncounted(n)' \cup {r} /\ Trying(n)' \subseteq Trying(n)
  BY <1>1 DEF Uncounted, Trying, At
<1> QED
  BY <1>2 DEF Crash, Counter, Loses, countVars

\* A request that neither leaves a failure to be counted nor begins to try.
LEMMA SteadyMoves ==
    ASSUME NEW r \in Requests, NEW pc, NEW u, NEW op, NEW code, NEW write,
           Moves(r, pc, u, op, code, write),
           req[r].pc \notin {"rejected", "expire"},
           \/ pc \notin {"login", "ldap", "setup"}
           \/ req[r].pc = "login" /\ pc = "ldap" /\ u = req[r].user
    PROVE  \A q \in Requests : Steady(q)
  BY DEF Moves, Steady

LEMMA SteadySame ==
    ASSUME req' = req
    PROVE  \A q \in Requests : Steady(q)
  BY DEF Steady

LEMMA LoginCounters ==
    ASSUME TypeInv, NEW r \in Requests, crashes' = crashes,
           \/ \E u \in Users : BeginLogin(r, u)
           \/ \E matches \in BOOLEAN : LocalAuthenticate(r, matches)
           \/ \E mapped \in SUBSET RoleName : LdapBinds(r, mapped)
           \/ LdapRefuses(r)
           \/ CountFailure(r)
           \/ SetExpiry(r)
           \/ CompleteLogin(r)
    PROVE  \A n \in Names : Counter(n)
<1>1. ASSUME NEW u \in Users, BeginLogin(r, u)
      PROVE  \A n \in Names : Counter(n)
  <2>1. Moves(r, "login", u, "none", None, FALSE) /\ u \in Names
    BY <1>1, BeginLoginMoves DEF Names
  <2>2. req[r].pc = "idle" /\ ~Locked(u) /\ UNCHANGED countVars
    BY <1>1 DEF BeginLogin, Free, At
  <2> QED
    BY <2>1, <2>2, CounterBegins
<1>2. ASSUME NEW matches \in BOOLEAN, LocalAuthenticate(r, matches)
      PROVE  \A n \in Names : Counter(n)
  <2> DEFINE u == req[r].user
  <2>1. UNCHANGED <<fails, expires>> /\ u \in Names /\ req[r].pc = "login"
    BY <1>2, LocalAuthenticateMoves DEF LocalAuthenticate
  <2>2. CASE Reject(r, u)
    BY <2>1, <2>2, CounterRejects
  <2>3. CASE /\ tried' = tried
             /\ \/ Moves(r, "accepted", u, req[r].op, None, FALSE)
                \/ Moves(r, "ldap", u, req[r].op, None, FALSE)
    <3>1. \A q \in Requests : Steady(q)
      BY <2>1, <2>3, SteadyMoves
    <3> QED
      BY <2>1, <2>3, <3>1, CounterLeft DEF countVars
  <2>4. Reject(r, u) \/ tried' = tried
    BY <1>2 DEF LocalAuthenticate
  <2>5. \/ tried' = tried /\ Moves(r, "accepted", u, req[r].op, None, FALSE)
        \/ tried' = [tried EXCEPT ![u] = @ + 1]
        \/ tried' = tried /\ Moves(r, "ldap", u, req[r].op, None, FALSE)
    BY <1>2, LocalAuthenticateMoves
  <2>6. tried' = tried => tried' # [tried EXCEPT ![u] = @ + 1]
    BY <2>1, TypeFacts
  <2> HIDE DEF u
  <2> QED
    BY <2>2, <2>3, <2>4, <2>5, <2>6
<1>3. ASSUME NEW mapped \in SUBSET RoleName, LdapBinds(r, mapped)
      PROVE  \A n \in Names : Counter(n)
  <2> DEFINE u == req[r].user
  <2>1. UNCHANGED <<fails, expires>> /\ u \in Names /\ req[r].pc = "ldap"
    BY <1>3, LdapBindsMoves DEF LdapBinds
  <2>2. CASE Reject(r, u)
    BY <2>1, <2>2, CounterRejects
  <2>3. CASE /\ tried' = tried
             /\ \/ \E write \in BOOLEAN : Moves(r, "accepted", u, req[r].op, None, write)
                \/ Moves(r, "idle", None, "none", None, FALSE)
    <3>1. \A q \in Requests : Steady(q)
      BY <2>1, <2>3, SteadyMoves
    <3> QED
      BY <2>1, <2>3, <3>1, CounterLeft DEF countVars
  <2>4. Reject(r, u) \/ tried' = tried
    BY <1>3 DEF LdapBinds
  <2>5. \/ tried' = tried /\ \E write \in BOOLEAN : Moves(r, "accepted", u, req[r].op, None, write)
        \/ tried' = [tried EXCEPT ![u] = @ + 1]
        \/ tried' = tried /\ Moves(r, "idle", None, "none", None, FALSE)
    BY <1>3, LdapBindsMoves
  <2>6. tried' = tried => tried' # [tried EXCEPT ![u] = @ + 1]
    BY <2>1, TypeFacts
  <2> HIDE DEF u
  <2> QED
    BY <2>2, <2>3, <2>4, <2>5, <2>6
<1>4. CASE LdapRefuses(r)
  <2>1. /\ req[r].pc = "ldap" /\ Reject(r, req[r].user) /\ UNCHANGED <<fails, expires>>
        /\ req[r].user \in Names
    BY <1>4, HasUser DEF LdapRefuses, Free, At
  <2> QED
    BY <2>1, CounterRejects
<1>5. CASE CompleteLogin(r)
  <2>1. ClearFailures(req[r].user) /\ req[r].pc = "accepted" /\ req[r].user \in Names
    BY <1>5, HasUser DEF CompleteLogin, Free, At
  <2>2. Moves(r, "idle", None, "none", None, FALSE)
    BY <1>5, FinishMoves DEF CompleteLogin
  <2>3. \A q \in Requests : Steady(q)
    BY <2>1, <2>2, SteadyMoves
  <2> QED
    BY <2>1, <2>3, CounterClears
<1> QED
  BY <1>1, <1>2, <1>3, <1>4, <1>5, CounterCounts, CounterLives

LEMMA FactorCounters ==
    ASSUME TypeInv, NEW r \in Requests, crashes' = crashes,
           \/ \E t \in Tokens : BeginVerify(r, t)
           \/ \E c \in Secrets \cup Codes \cup {None} : CheckFactor(r, c)
           \/ ReadAttempts(r)
           \/ WriteAttempts(r)
           \/ OpenVerified(r)
           \/ CommitVerified(r)
           \/ \E t \in Tokens, op \in {"enroll", "confirm"} :
                 BeginEnrolment(r, t, op) \/ BeginSetupEnrolment(r, t, op)
           \/ CommitSecret(r)
           \/ \E c \in Secrets \cup {None} : CommitEnrolment(r, c) \/ RefuseEnrolment(r, c)
           \/ \E t \in Tokens, c \in Secrets \cup Codes : BeginResetSelf(r, t, c)
    PROVE  \A n \in Names : Counter(n)
<1>1. ASSUME NEW t \in Tokens, BeginVerify(r, t)
      PROVE  UNCHANGED countVars /\ \A q \in Requests : Steady(q)
  <2>1. req[r].pc = "idle" /\ UNCHANGED countVars
    BY <1>1 DEF BeginVerify, Free, At
  <2>2. Moves(r, "verify", pending[t].user, "none", None, FALSE) \/ req' = req
    BY <1>1, BeginVerifyMoves
  <2> QED
    BY <2>1, <2>2, SteadyMoves, SteadySame
<1>2. ASSUME NEW c \in Secrets \cup Codes \cup {None}, CheckFactor(r, c)
      PROVE  UNCHANGED countVars /\ \A q \in Requests : Steady(q)
  <2>1. req[r].pc = "verify" /\ UNCHANGED countVars
    BY <1>2 DEF CheckFactor, At
  <2>2. \/ Moves(r, "passed", req[r].user, req[r].op, None, FALSE)
        \/ Moves(r, "passed", req[r].user, req[r].op, c, FALSE)
        \/ Moves(r, "failed", req[r].user, req[r].op, None, FALSE)
    BY <1>2, CheckFactorMoves
  <2> QED
    BY <2>1, <2>2, SteadyMoves
<1>3. CASE ReadAttempts(r)
  <2>1. req[r].pc = "failed" /\ UNCHANGED countVars
    BY <1>3 DEF ReadAttempts, At
  <2>2. \/ Moves(r, "idle", None, "none", None, FALSE)
        \/ Moves(r, "recount", req[r].user, req[r].op, None, FALSE)
    BY <1>3, ReadAttemptsMoves
  <2> QED
    BY <2>1, <2>2, SteadyMoves, CounterLeft
<1>4. CASE WriteAttempts(r) \/ CommitVerified(r) \/ CommitSecret(r)
  <2>1. req[r].pc \in {"recount", "answer", "enroll"} /\ UNCHANGED countVars
    BY <1>4 DEF WriteAttempts, CommitVerified, CommitSecret, At
  <2>2. Moves(r, "idle", None, "none", None, FALSE)
    BY <1>4, FinishMoves DEF WriteAttempts, CommitVerified, CommitSecret
  <2> QED
    BY <2>1, <2>2, SteadyMoves, CounterLeft
<1>5. CASE OpenVerified(r)
  <2>1. req[r].pc = "passed" /\ UNCHANGED countVars
    BY <1>5 DEF OpenVerified, At
  <2>2. Moves(r, "answer", req[r].user, "none", req[r].code, FALSE)
    BY <1>5, OpenVerifiedMoves
  <2> QED
    BY <2>1, <2>2, SteadyMoves, CounterLeft
<1>6. ASSUME NEW t \in Tokens, NEW op \in {"enroll", "confirm"},
             BeginEnrolment(r, t, op) \/ BeginSetupEnrolment(r, t, op)
      PROVE  UNCHANGED countVars /\ \A q \in Requests : Steady(q)
  <2>1. req[r].pc = "idle" /\ UNCHANGED countVars
    BY <1>6 DEF BeginEnrolment, BeginSetupEnrolment, Free, At
  <2>2. \/ Moves(r, op, session[t].user, "none", None, FALSE)
        \/ Moves(r, op, pending[t].user, "none", None, FALSE)
        \/ req' = req
    BY <1>6, BeginEnrolmentMoves, BeginSetupEnrolmentMoves
  <2> QED
    BY <2>1, <2>2, SteadyMoves, SteadySame
<1>7. ASSUME NEW c \in Secrets \cup {None}, CommitEnrolment(r, c) \/ RefuseEnrolment(r, c)
      PROVE  UNCHANGED countVars /\ \A q \in Requests : Steady(q)
  <2>1. req[r].pc = "confirm" /\ UNCHANGED countVars
    BY <1>7 DEF CommitEnrolment, RefuseEnrolment, At
  <2>2. Moves(r, "idle", None, "none", None, FALSE)
    BY <1>7, FinishMoves DEF CommitEnrolment, RefuseEnrolment
  <2> QED
    BY <2>1, <2>2, SteadyMoves
<1>8. ASSUME NEW t \in Tokens, NEW c \in Secrets \cup Codes, BeginResetSelf(r, t, c)
      PROVE  UNCHANGED countVars /\ \A q \in Requests : Steady(q)
  <2>1. req[r].pc = "idle" /\ UNCHANGED countVars
    BY <1>8 DEF BeginResetSelf, Free, At
  <2>2. \/ Moves(r, "revoke", session[t].user, "reset", None, FALSE)
        \/ Moves(r, "revoke", session[t].user, "reset", c, FALSE)
    BY <1>8, BeginResetSelfMoves
  <2> QED
    BY <2>1, <2>2, SteadyMoves
<1> QED
  BY <1>1, <1>2, <1>3, <1>4, <1>5, <1>6, <1>7, <1>8, CounterLeft

LEMMA AdminCounters ==
    ASSUME TypeInv, NEW r \in Requests, crashes' = crashes,
           \/ \E t \in Tokens, op \in AdminOps, u \in Users, role \in RoleName :
                 BeginAdmin(r, t, op, u, role)
           \/ RevokeSessions(r)
           \/ CommitAdmin(r)
    PROVE  \A n \in Names : Counter(n)
<1>1. ASSUME NEW t \in Tokens, NEW op \in AdminOps, NEW u \in Users, NEW role \in RoleName,
             BeginAdmin(r, t, op, u, role)
      PROVE  UNCHANGED countVars /\ \A q \in Requests : Steady(q)
  <2>1. req[r].pc = "idle" /\ UNCHANGED countVars
    BY <1>1 DEF BeginAdmin, Free, At
  <2>2. req'[r].pc \in {"revoke", "commit"} /\ \A q \in Requests : q # r => req'[q] = req[q]
    BY <1>1, BeginAdminMoves DEF Moves
  <2> QED
    BY <2>1, <2>2 DEF Steady
<1>2. CASE RevokeSessions(r)
  <2>1. /\ req[r].pc = "revoke" /\ req[r].user \in Names
        /\ Moves(r, "commit", req[r].user, req[r].op, req[r].code, FALSE)
    BY <1>2, RevokeSessionsMoves DEF Names
  <2>2. \A q \in Requests : Steady(q)
    BY <2>1, SteadyMoves
  <2>3. ForceLock(req[r].user) \/ UNCHANGED countVars
    BY <1>2 DEF RevokeSessions
  <2> QED
    BY <2>1, <2>2, <2>3, CounterForced, CounterLeft
<1>3. CASE CommitAdmin(r)
  <2>1. req[r].user \in Names /\ (ClearFailures(req[r].user) \/ UNCHANGED countVars)
    BY <1>3, CommitAdminMoves DEF CommitAdmin, Names
  <2>2. \A q \in Requests : Steady(q)
    BY <1>3, CommitAdminMoves, IdleFields DEF Steady
  <2> QED
    BY <2>1, <2>2, CounterClears, CounterLeft
<1> QED
  BY <1>1, <1>2, <1>3, CounterLeft

LEMMA SetupCounters ==
    ASSUME TypeInv, NEW r \in Requests, crashes' = crashes,
           \/ \E u \in Users, boot \in Nat : BeginSetup(r, u, boot)
           \/ CreateBootstrapAdmin(r)
           \/ CommitBootstrapAdmin(r)
           \/ \E t \in Tokens : BeginFinish(r, t)
           \/ \E c \in Secrets \cup {None} : CompleteBootstrap(r, c)
           \/ CommitInitialized(r)
    PROVE  \A n \in Names : Counter(n)
<1>0. SetupKey \in Names
  BY DEF Names
<1>1. ASSUME NEW u \in Users, NEW boot \in Nat, BeginSetup(r, u, boot)
      PROVE  \A n \in Names : Counter(n)
  <2>1. Moves(r, "setup", u, "none", None, FALSE)
    BY <1>1, BeginSetupMoves
  <2>2. req[r].pc = "idle" /\ ~Locked(SetupKey) /\ UNCHANGED countVars
    BY <1>1 DEF BeginSetup, Free, At
  <2> QED
    BY <1>0, <2>1, <2>2, CounterBegins
<1>2. CASE CreateBootstrapAdmin(r)
  <2>1. req[r].pc = "setup"
    BY <1>2 DEF CreateBootstrapAdmin, At
  <2>2. CASE Reject(r, SetupKey) /\ UNCHANGED <<fails, expires>>
    BY <1>0, <2>1, <2>2, CounterRejects
  <2>3. CASE /\ UNCHANGED countVars \/ ClearFailures(SetupKey)
             /\ req'[r].pc \in {"idle", "bootstrap"}
             /\ \A q \in Requests : q # r => req'[q] = req[q]
    <3>1. \A q \in Requests : Steady(q)
      BY <2>1, <2>3 DEF Steady
    <3> QED
      BY <1>0, <2>3, <3>1, CounterLeft, CounterClears
  <2>4. \/ Reject(r, SetupKey) /\ UNCHANGED <<fails, expires>>
        \/ UNCHANGED countVars \/ ClearFailures(SetupKey)
    BY <1>2 DEF CreateBootstrapAdmin
  <2>5. CASE ~(Reject(r, SetupKey) /\ UNCHANGED <<fails, expires>>)
    <3>1. ~setup.initialized => TokenValid(req[r].attempts)
      BY <1>2, <2>5 DEF CreateBootstrapAdmin
    <3>2. \/ Finish(r)
          \/ Go(r, [Idle EXCEPT !.pc = "bootstrap", !.user = setup.admin])
          \/ Go(r, [Idle EXCEPT !.pc = "bootstrap", !.user = req[r].user, !.write = TRUE])
      BY <1>2, <3>1 DEF CreateBootstrapAdmin
    <3>3. PICK q : Go(r, q) /\ q.pc \in {"idle", "bootstrap"}
      <4>1. /\ Idle.pc = "idle"
            /\ [Idle EXCEPT !.pc = "bootstrap", !.user = setup.admin].pc = "bootstrap"
            /\ [Idle EXCEPT !.pc = "bootstrap", !.user = req[r].user, !.write = TRUE].pc = "bootstrap"
        BY DEF Idle
      <4> QED
        BY <3>2, <4>1 DEF Finish
    <3>4. /\ req'[r].pc \in {"idle", "bootstrap"}
          /\ \A p \in Requests : p # r => req'[p] = req[p]
      BY <3>3, TypeFacts DEF Go
    <3> QED
      BY <2>3, <2>4, <2>5, <3>4
  <2> QED
    BY <2>2, <2>5
<1>3. CASE CommitBootstrapAdmin(r) \/ CommitInitialized(r)
  <2>1. req[r].pc \in {"bootstrap", "initialize"} /\ UNCHANGED countVars
    BY <1>3 DEF CommitBootstrapAdmin, CommitInitialized, At
  <2>2. Moves(r, "idle", None, "none", None, FALSE)
    BY <1>3, FinishMoves DEF CommitBootstrapAdmin, CommitInitialized
  <2> QED
    BY <2>1, <2>2, SteadyMoves, CounterLeft
<1>4. ASSUME NEW t \in Tokens, BeginFinish(r, t)
      PROVE  UNCHANGED countVars /\ \A q \in Requests : Steady(q)
  <2>1. req[r].pc = "idle" /\ UNCHANGED countVars
    BY <1>4 DEF BeginFinish, Free, At
  <2>2. Moves(r, "finish", pending[t].user, "none", None, FALSE) \/ req' = req
    BY <1>4, BeginFinishMoves
  <2> QED
    BY <2>1, <2>2, SteadyMoves, SteadySame
<1>5. ASSUME NEW c \in Secrets \cup {None}, CompleteBootstrap(r, c)
      PROVE  UNCHANGED countVars /\ \A q \in Requests : Steady(q)
  <2>1. req[r].pc = "finish" /\ UNCHANGED countVars
    BY <1>5 DEF CompleteBootstrap, At
  <2>2. \/ Moves(r, "initialize", req[r].user, "none", None, FALSE)
        \/ Moves(r, "idle", None, "none", None, FALSE)
    BY <1>5, CompleteBootstrapMoves
  <2> QED
    BY <2>1, <2>2, SteadyMoves
<1> QED
  BY <1>1, <1>2, <1>3, <1>4, <1>5, CounterLeft

LEMMA OtherCounters ==
    ASSUME TypeInv, crashes' = crashes,
           \/ UNCHANGED vars
           \/ Expiry
           \/ Direct
           \/ RegenerateSetupToken
           \/ SetupTokenExpires
    PROVE  \A n \in Names : Counter(n)
<1>1. CASE Expiry
  <2>1. req' = req /\ (UNCHANGED countVars \/ \E m \in Names : ClearFailures(m))
    BY <1>1 DEF Expiry, WindowEnds, ChallengeExpires, SessionExpires
  <2> QED
    BY <2>1, SteadySame, CounterLeft, CounterClears
<1>2. CASE Direct
  <2>1. req' = req /\ (UNCHANGED countVars \/ \E m \in Names : ClearFailures(m))
    BY <1>2 DEF Direct, Logout, ChangePassword, UpdateLdapConfig, BreakGlass, storeVars,
                countVars, Names
  <2> QED
    BY <2>1, SteadySame, CounterLeft, CounterClears
<1>3. CASE UNCHANGED vars \/ RegenerateSetupToken \/ SetupTokenExpires
  <2>1. req' = req /\ UNCHANGED countVars
    BY <1>3 DEF vars, RegenerateSetupToken, SetupTokenExpires, storeVars, countVars
  <2> QED
    BY <2>1, SteadySame, CounterLeft
<1> QED
  BY <1>1, <1>2, <1>3

LEMMA CounterStep == TypeInv /\ [Next]_vars => \A n \in Names : Counter(n)
<1> SUFFICES ASSUME TypeInv, [Next]_vars
             PROVE  \A n \in Names : Counter(n)
  OBVIOUS
<1>1. CASE UNCHANGED vars
  <2>1. crashes' = crashes
    BY <1>1 DEF vars
  <2> QED
    BY <1>1, <2>1, OtherCounters
<1>2. ASSUME NEW r \in Requests, LoginStep(r), UNCHANGED <<setupVars, crashes>>
      PROVE  \A n \in Names : Counter(n)
  <2>1. use.callers \subseteq Users
    BY TypeFacts DEF Uses
  <2> QED
    BY <1>2, <2>1, LoginCounters, FactorCounters DEF LoginStep
<1>3. ASSUME NEW r \in Requests, AdminStep(r), UNCHANGED <<setupVars, crashes>>
      PROVE  \A n \in Names : Counter(n)
  <2>1. "USER" \in RoleName /\ use.grants \subseteq RoleName
          /\ use.admin \ {"role", "create", "ldap", "breakglass"} \subseteq AdminOps
          /\ use.admin \cap {"role", "create"} \subseteq AdminOps
    BY TypeFacts DEF RoleName, Uses, AdminOps
  <2> QED
    BY <1>3, <2>1, AdminCounters DEF AdminStep
<1>4. ASSUME NEW r \in Requests, SetupStep(r), UNCHANGED crashes
      PROVE  \A n \in Names : Counter(n)
  <2>1. 1 .. use.boots \subseteq Nat
    BY TypeFacts DEF Uses
  <2> QED
    BY <1>4, <2>1, SetupCounters DEF SetupStep
<1> QED
  BY <1>1, <1>2, <1>3, <1>4, CounterLoses, OtherCounters DEF Next, Act

LEMMA AttemptInit == Init => AttemptInv
<1> SUFFICES ASSUME Init, NEW n \in Names
             PROVE  Attempts(n)
  BY DEF AttemptInv
<1>1. fails[n] = 0 /\ tried[n] = 0 /\ crashes = 0
  BY DEF Init, InitFrom
<1>2. Cardinality(Uncounted(n)) \in Nat
  BY TryingFinite
<1> QED
  BY <1>1, <1>2, LimitAssumption DEF Attempts

LEMMA AttemptStep == TypeInv /\ AttemptInv /\ [Next]_vars => AttemptInv'
<1> SUFFICES ASSUME TypeInv, AttemptInv, [Next]_vars, NEW n \in Names
             PROVE  Attempts(n)'
  BY DEF AttemptInv, Names
<1>1. Counter(n) /\ Attempts(n)
  BY CounterStep DEF AttemptInv
<1> QED
  BY <1>1, AttemptsKept

\* AttemptsBounded for every number of accounts, requests and allowed
\* failures: is_login_locked, INCR, the reset after an accepted password, an
\* administrator's lock and unlock and the end of the window interleave as
\* they like.
THEOREM AttemptsLimited == Spec => []AttemptsBounded
<1>1. TypeInv /\ AttemptInv => AttemptsBounded
  <2> SUFFICES ASSUME TypeInv, AttemptInv, NEW n \in Names
               PROVE  tried[n] <= MaxLoginFailures - 1 + Cardinality(Requests) + crashes
    BY DEF AttemptsBounded
  <2> DEFINE u == Cardinality(Uncounted(n))
             s == Cardinality(Trying(n))
             m == Cardinality(Requests)
  <2>1. /\ u \in Nat /\ s \in Nat /\ m \in Nat /\ u + s <= m
        /\ fails[n] \in Nat /\ tried[n] \in Nat /\ crashes \in Nat
        /\ MaxLoginFailures \in Nat \ {0}
    BY TryingFinite, TypeFacts, LimitAssumption
  <2>2. /\ fails[n] < MaxLoginFailures => tried[n] <= fails[n] + u + crashes
        /\ fails[n] >= MaxLoginFailures => tried[n] + s <= MaxLoginFailures - 1 + m + crashes
    BY DEF AttemptInv, Attempts
  <2> HIDE DEF u, s, m
  <2>3. tried[n] <= MaxLoginFailures - 1 + m + crashes
    BY <2>1, <2>2
  <2> QED
    BY <2>3 DEF m
<1> QED
  BY <1>1, TypeInit, TypeStep, AttemptInit, AttemptStep, PTL DEF Spec

\* CounterExpires for every number of accounts and requests: whichever
\* request makes the key, it has a time to live or is about to get one.
THEOREM CountersExpire == Spec => []CounterExpires
<1> DEFINE Inv == \A n \in Names : Expiring(n)
<1>1. Init => Inv
  BY DEF Init, InitFrom, Expiring
<1>2. TypeInv /\ Inv /\ [Next]_vars => Inv'
  <2> SUFFICES ASSUME TypeInv, Inv, [Next]_vars, NEW n \in Names
               PROVE  Expiring(n)'
    BY DEF Names
  <2>1. Counter(n) /\ Expiring(n)
    BY CounterStep
  <2> QED
    BY <2>1, ExpiringKept
<1>3. Inv => CounterExpires
  BY DEF CounterExpires, Expiring, Waiting
<1> HIDE DEF Inv
<1> QED
  BY <1>1, <1>2, <1>3, TypeInit, TypeStep, PTL DEF Spec
=============================================================================
