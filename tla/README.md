# OpenRBI in TLA+

OpenRBI runs each user's browser in a disposable container ("sandbox") on a
node and shows it through a WebSocket.  The *backend* (FastAPI, PostgreSQL,
Redis) is the control plane; a *Session Agent* on every node is the only
process that talks to Docker.  This directory holds TLA+ models of the parts of
the control plane where things happen concurrently and can fail half-way: the
life of a browser session, the way of a downloaded file through quarantine,
accounts and logins, the fleet of nodes, and policies with the places that
enforce them.  TLC checks all of them on small instances; TLAPS proves the
safety properties of each of them for all instances, under the assumptions
section 4 names.

## 1. The system

| Component | State it keeps | Operations | What makes it correct |
|---|---|---|---|
| Sandbox provider (`session-agent/app/providers/docker_provider.py`) | one container per session: status, network | create, start, isolate, restore, terminate, list, display info | create and terminate are idempotent; the others need a container |
| Session rows (`models/browser_session.py`, PostgreSQL) | status, viewer stamp, activity and update times; row locks | load, flush, commit, conditional UPDATE | nothing intermediate is committed; no lock outlives its transaction |
| Display relay (`api/display.py`) | one handler per WebSocket; in-process registry | connect, dial, stamp, register, relay, clean up, forced disconnect, reset at startup | the stamp and the registry entry belong to a live connection |
| Session operations (`services/sessions.py`, `api/sessions.py`, `api/admin_sessions.py`) | one transaction per request | create, end, kill, isolate, restore, disconnect, revoke all | a TERMINATED session has no running sandbox; ISOLATED means no network |
| Download poller (`core/download_poller.py`) | one task per session | start, poll, stop | polls while the session can download |
| Session reaper (`core/session_reaper.py`) | one task | time out unattended sessions, recover stuck ones | ends what nobody views, nothing else; survives its own crash |
| Orphan reconciler (`core/orphan_reconciler.py`) | two grace counters per session | compare a node's containers with the rows | removes what no row needs, fails rows without a sandbox, spares creations |
| Download pipeline (`services/downloads.py`, `scanning.py`) | one poll cycle per session, uncommitted rows, staged bytes | list, fetch, dedupe, stage, scan, decide, delete, commit | nothing is released that was not cleared; nothing is lost or recorded twice |
| Review and retrieval (`services/quarantine.py`, `api/files.py`, `core/release_tokens.py`) | review status, release tokens in Redis | release, reject, update incident, issue and use a token | a decision is final; a token serves once |
| Retention (`core/quarantine_retention.py`) | one cycle | expire rows, remove bytes | every file goes in time, none early or under an open incident |
| Login and MFA (`api/auth.py`, `api/mfa.py`, `services/mfa.py`, `core/sessions.py`) | login sessions, MFA challenges and failure counters in Redis; recovery codes | log in (locally or by LDAP), verify, enrol, reset, change password, log out | no privileged session without a second factor; attempts are bounded; a code works once |
| Accounts (`api/admin.py`, `services/users.py`, `api/admin_ldap.py`, `services/ldap_provisioning.py`) | users rows, the LDAP switch | create, enable, disable, role, lock, unlock, reset MFA | an administrator remains; a change takes effect on open sessions; the directory leaves local accounts alone |
| First-run setup (`services/setup_service.py`, `api/setup.py`) | one `system_state` row | renew token, create admin, confirm MFA | one bootstrap administrator, once |
| Nodes (`services/nodes.py`, `core/node_poller.py`, `services/sessions.py: select_node`, `session-agent/app/enrollment.py`) | rows: trust, endpoint, token, status, heartbeat | enrol, approve, revoke, drain, maintain, poll, select, route | work goes where it was placed; holds stay; a token enrols once; a node comes back |
| Node capacity (`session-agent/app/main.py`) | the reported value and a streak | compute, smooth | never below zero or above the ceiling; a rise is sustained |
| Policies (`services/policies.py`, `standard_policies.py`, `groups.py`) | policies, versions, rules, attachments, members | draft, save, publish, roll back, archive, attach, seed, group | one published version, whose rules are in force |
| Policy engine (`services/policy_engine.py`, `core/mime_matching.py`, `core/source_matching.py`) | none | decide on a file; resolve clipboard and screen | DENY before QUARANTINE before release, in any row order |
| Uploads, violation counter (`services/uploads.py`, `incidents.py`) | security events, incidents | upload, count blocked transfers | nothing enters the sandbox uncleared; repeated violations are noticed |
| Clipboard filter (`core/rfb_clipboard_filter.py`) | two buffers, rectangles to come, the pixel format | feed | exactly the allowed messages pass, however the stream is cut |

The components of the first seven lines share `browser_sessions` rows and
sandboxes.  They interact in four ways: through committed rows (everyone
reads them without locks), through row locks (a writer waits for the
transaction that flushed first), through agent calls (which may fail, or land
after their caller gave up), and inside the process (the registry, the poller
table, the reconciler's counters: all lost in a crash).  The hard behaviours
are therefore stale reads used after an await, transactions that wait for each
other and then write over what was committed, late effects of agent calls, and
crashes between an agent call and its commit.  The download pipeline, the
reviewers and the retention job share `quarantine_files` rows and the staging
directory in the same ways, with one more difficulty: files are removed at
once, in the sandbox and in the staging directory, while the row that says so
is committed at the end of a cycle.  Accounts, nodes and policies are rows that
requests load, decide on and write back without looking again; what differs is
what lies outside the transaction: keys in Redis (sessions, challenges, counters,
tokens), which a rollback does not undo, and the agents of the nodes.
`PROJECT.json` lists these hazards at their lines with the properties that watch them.

## 2. Modules

```
Sandbox -> SessionStore -> DisplayRelay -> SessionRequests -> SessionReaper    \
                                                           -> OrphanReconciler -> BrowserSessions
BrowserSessions -> SessionInvariants -> MCBrowserSessions (TLC)
                   SessionInvariants -> SessionTypeProofs -> SandboxProofs -> SessionSafetyProofs
SandboxLifetime: the abstract specification BrowserSessions implements

QuarantineStore -> DownloadIntake -> QuarantineReview -> QuarantineRetention -> FileQuarantine
FileQuarantine -> MCFileQuarantine (TLC)
               -> QuarantineProofs

OrphanReconciler -> UserRevocation
UserRevocation -> MCUserRevocation (TLC)
               -> UserRevocationProofs

AccountStore -> LoginFlow -> AccountAdmin -> FirstRunSetup -> Identity
Identity -> MCIdentity (TLC)
         -> IdentityProofs

NodeStore -> NodeHeartbeat -> NodeAdmin -> NodeScheduling -> NodeTrust
NodeTrust -> MCNodeTrust (TLC)
          -> NodeProofs

PolicyStore -> PolicyEditing -> GroupAdmin -> PolicyEngine -> UploadGate \
                                                     ClipboardFilter -> PolicyEnforcement
PolicyEnforcement -> MCPolicies (TLC)
                  -> PolicyProofs
```

* **Sandbox** - a container is its Docker status and whether it is attached to
  its network; one operator per provider operation.
* **SessionStore** - `row` (what is committed), `lock` (whose transaction holds
  the row), `box` (the sandbox), `late` (agent calls that outlived their
  caller).  The two timestamps the timeouts compare are abstracted to `idle`
  (`last_activity_at` is past the cutoff) and `aged` (`updated_at` is);
  `viewer_connected_at` is abstracted to the connection that stamped it, which
  is what the code uses the stamp's equality for.
* **DisplayRelay** - one action per stretch of `display_ws` between awaits.
* **SessionRequests** - a request loads the row (`RequestBegins`), flushes the
  intermediate status and takes the lock (`Flush`), calls the agent
  (`CallAgent`), writes and commits (`RequestCommits`) and closes the viewer
  (`KickViewer`).  `terminate_session`, `isolate_session`, `restore_session`
  and `disconnect_session` are one machine with the operation as a parameter,
  as they are the same sequence with different statuses.  `create_session` has
  its own steps.  `Written` reproduces SQLAlchemy's dirty tracking: a column
  assigned the value it was loaded with is not written.
* **SessionReaper**, **OrphanReconciler** - the two background jobs.
* **BrowserSessions** - composition, crash and restart, fairness, properties.
* **SessionInvariants** - the inductive invariants, of starts, of the
  reconciler's grace and its verdicts of loss, and of isolation.
* **SandboxLifetime** - the promise: a sandbox runs in one stretch.

* **QuarantineStore** - `file` (the committed rows), `incident` (the status of
  the incident about a file), `disk` (the staging directory, by content) and
  `downloads` (what lies in the sandboxes).
* **DownloadIntake** - `poll` is where a session's cycle stands and `draft` the
  rows it has inserted but not committed; one action per stretch of
  `process_new_downloads` between agent and scanner calls.
* **QuarantineReview** - `review` is a review request between load and commit;
  `token` and `get` are release tokens and the retrievals that consumed one.
* **QuarantineRetention** - `ret` is the cycle: what is left, what it is
  deleting, and what it marked in its transaction.
* **FileQuarantine** - composition, failures, fairness, properties.

* **UserRevocation** - `batch` is a revocation of all of a user's sessions:
  what is left to terminate, what was written of the others.  It runs over the
  session modules' rows, sandboxes, requests and reconciler; it is a
  composition of its own because a batch holds several row locks at once, so
  that waiting in a circle, and the database's choice of a victim, come in.

* **AccountStore** - `user` (rows), `session`, `pending`, `fails` and `expires`
  (Redis), `req` (a request, with the row it loaded).  **LoginFlow** - one
  action per stretch of `/auth` and `/mfa` between awaits.  **AccountAdmin** -
  the administrator's operations: load and decide, revoke sessions, commit.
  **FirstRunSetup** - the `system_state` row with its lock.  **Identity** -
  composition, requests that die, properties.

* **NodeStore** - `row`, `lock`, `agent`, and `job`, what a request or poll task
  has loaded (`old`) and will write (`new`); `Merge` writes the columns that
  differ, as SQLAlchemy does.  **NodeHeartbeat** - self-report, hysteresis,
  poller, health label.  **NodeAdmin** - enrolment and holds.
  **NodeScheduling** - `select_node` in one transaction, and routing.
  **NodeTrust** - composition, fairness, properties.

* **PolicyStore**, **PolicyEditing**, **GroupAdmin** - the tables and the
  requests on them; a rule or membership row has a number, as a DELETE removes
  the rows it saw and not equal ones inserted since.  **PolicyEngine** - the
  decisions as operators over rows in any order.  **UploadGate** - an upload
  from its decision to its commit, and the violation check.
  **ClipboardFilter** - both filters over streams of RFB units with true sizes,
  cut at any byte.  **PolicyEnforcement** - composition and properties; a
  session stores the clipboard mode resolved when it was created, and the
  filter runs under it.

* The modules named `...Proofs` hold theorems with their proofs;
  **UserRevocationProofs**, **QuarantineProofs**, **IdentityProofs**,
  **NodeProofs** and **PolicyProofs** also the inductive invariants of their component.

Every component's actions come with the variants used to test the properties
(comment "Variant:"): a plausible slip in that code, next to the definition it
would replace.

### Abstractions

* One backend process serves everything (`listener_mode` "both"), as the
  registry and poller comments in the code assume.  In a segmented deployment
  a kill on the admin listener would find an empty registry.
* All sessions live on one node; node selection, capacity and agent routing are
  `NodeTrust`'s.
* PostgreSQL is READ COMMITTED with row locks; a conditional UPDATE that does
  not match the committed row returns at once, one that matches waits and is
  evaluated again.  Foreign-key locks taken by audit records do not conflict
  with these updates and are left out, like the audit records.
* The reconciler's two inventory calls are one listing; the cycle takes the
  rows as committed when it reads them.
* The poller appears when the creating request commits: it looks at the row
  one interval after `start_polling`, which comes immediately before.
* A failed agent call either has no effect or lands later (`late`), before or
  after anything else; a landed call needs its container if the provider does.
* `TimePasses` ages a row at any moment; it does not measure how long.  This
  allows more interleavings than a clock would.
* One timing fact is used: the calls of one creation together take less than
  the reconcile interval (create, start and the display probes are bounded by
  their 15 s timeouts, 15 probes by about 4 min; the interval is 5 min), so a
  creation is in flight during at most one listing (`CycleMayList`).
* `ForceDisconnect` ends the connection's pumps in the same step; in the code
  the client's answer to the close frame does, a moment later.

Of the quarantine:

* Rows are written over what is committed by then (no status is checked again);
  a row lock only shows where it is held across an await, which is the retention
  job's on the rows it has marked: reviewers wait for its commit (`Reviewing`).
* A file's age counts retention windows: 1 is the released window (24 h), 2 the
  quarantined one (90 days).  A review sets it back to 0.
* The policy's verdict is any of the three actions; ClamAV may find any content
  of `Infected`, may call it clean (signatures are updated), and may fail.
  `SCANNING` is flushed but never committed and left out.
* The hash of an oversized download is made from session, name and size and
  thus stands for the item; that of a fetched one stands for its content.
* The poll task ends with its session, with an exception, when it sees a session
  that is not pollable (`PollDies`), or with the process, and is never started
  again (`start_polling` is called by `create_session` only).
* `reopened` and `served` are history variables, used by properties only.
* `check_repeated_policy_violations`, called for a denied download, only adds
  incidents about users; it is `UploadGate`'s `UploadCount` and `UploadReport`.

Of the revocations: each batch is one of the set and runs once (with endless new
ones, deadlocks could follow each other forever); a crash is left out, as it
leaves what an aborted batch leaves; agent calls fail, but do not land late,
which the `requests` run has.

Of accounts:

* A password matches or does not; the values, and operations that change
  nothing else (an administrator's reset-password), are left out, as are the
  new name and password a repeated setup call may bring.
* A TOTP code stands for its secret, with no time window; the ten recovery codes
  of an enrolment are one.
* `revoke_all_sessions_for_user` is one step although it SCANs; a login that
  stores its session during it counts as overtaken.
* Directory groups are the set of roles they map to.  A directory login changes
  the role of its account without revoking sessions, so `SecondFactorHeld` is
  about local accounts.  A local login that had read the row before a role change
  committed is `overtaken`: only role changes count, as only they make a second
  factor due.
* A row is written back column by column: `Written` takes from what the request
  loaded only what the operation assigns.
* Of two requests that insert one username, the second waits for the first's
  commit (PostgreSQL's unique index) and fails.
* A lock stops password checks, not challenges that are already out.
* `drawn` tokens, `tried`, `redeemed`, `bootstraps` and `overtaken` are history.

Of nodes:

* The operator approves a node under its agent's real address, so that an
  endpoint is there or not.
* Free slots beyond the reserve stand for the RAM and CPU arithmetic's quotients,
  below zero where the reserve is eaten into; ages of heartbeats are fresh or
  stale; the creation of the sandbox is one call with its failure, as
  `BrowserSessions` has its steps.
* Two creations in a circle of row locks are resolved by `DeadlockAbort`.
* The rate limit on enrolment (429) only turns posts away before they touch any
  state modelled.
* No row starts DEGRADED: nothing in the code writes that status.
* `replaced` marks the sessions of a node whose address came or went while they
  ran, by a revocation and an approval, or by an approval that had loaded the row
  before one (`Readdressed`).

Of policies:

* Blocked uploads leave the incident's window one at a time; `write_upload` may
  fail, and then the file may be in the sandbox or not.
* MIME types are pairs, host names sequences of labels (with a trailing dot or
  not), extensions model values; contents carry a clipboard mode and a screen,
  either of which may be invalid.
* Checks backed by a unique index are one step with their insert: of two
  concurrent ones, the second fails.
* An RFB message is its kind, its counts and its size; `after` orders what the
  server sends behind the client's messages it answers.
* `use`, in these three models, fixes which operations a behaviour has; the
  starting states in the MC modules pair them with the rows they need.

## 3. Runs

For the session runs, one session per instance (sessions share no state but the
quota and, in a revocation, locks).  Bounds: `Requests` (requests at the same
time), `Conns` (display connections), `MaxCrashes`, `GraceCycles` (2, the
default; 1 in `revocation`, where no creation needs sparing), `LateOps` (which
agent calls may land late), `RequestOps` and `Jobs` (which operations take
part).  Ids are never reused, so every behaviour is finite in creations but not
in length.  Deadlock is not checked: with every id used and every session over,
nothing needs to happen.  The same goes for the other runs: a quarantine without
files, a fleet without sessions or a user who has logged out may rest.

| Run | Instance | Checks |
|---|---|---|
| `requests` | 2 requests, stuck recovery, late create, start, isolate and terminate, 1 crash | `TerminatedIsNotRunning`, `TransientNeverCommitted`, `IsolationHolds`, `SandboxRunsOnce` |
| `viewers` | 2 connections, 1 request, reaper, 1 crash | `StampHasItsConnection`, `RegisteredIsOpen` |
| `reconcile` | 1 request (create, kill, isolate), reconciler, late create/start/terminate, 1 crash | `GraceSparesCreation`, `LossIsReal`, `OrphansAreRemoved`, `LostSessionsFail` |
| `reaper_liveness` | 1 request, 1 connection, reaper and recovery, 1 crash | `TerminatingEnds`, `UnattendedSessionsEnd` |
| `revocation` | 2 sessions of a user, one isolated; two batches, or one beside the reconciler, or one beside a kill | `RevokedHasNoSandbox`, `RevocationsEnd`, `NoGhostRows` |
| `intake` | 2 sessions, 3 downloads (two equal, one oversized), 1 reviewer, 1 token, 2 retrievals, 2 users, 1 failure | `OneRowPerContent`, `ReleasedWasCleared`, `TokenServesOnce` |
| `quarantine_liveness` | 1 session with an infected download, its incident investigated and resolved, both retention windows, 1 reviewer, 2 failures | `OpenIncidentHoldsFile`, `DownloadsAreRecorded`, `FilesExpire` |
| `identity` | 2 accounts, 2 requests, 4 tokens, limits of 2; five installations: one administrator, beside a directory account, two administrators, not set up, not set up beside a directory account | `SecondFactorHeld`, `RecoveryCodeOnce`, `AttemptsBounded`, `CounterExpires`, `OneBootstrapAdmin`, `SomeActiveAdmin`, `LocalRoleAdministered` |
| `nodes` | 2 hosts, 2 requests, up to 3 sessions, 2 recovery polls; seven fleets: joining, held, leaving, crowded, spread, under load, revoked | `TerminatedIsGone`, `CapacityOvershoot`, `EnrolledOnce`, `HoldKept`, `RiseSustained`, `ComesOnline`, `ShownOffline` |
| `policies` | 3 policies, 2 groups, 1 user, 2 requests, a threshold of 3; editing, assigning, seeding, uploading, and viewers of each mode with pieces of 1, 7 and 30 bytes | `PrecedenceHolds`, `OnePublished`, `ViolationsNoticed`, `SessionFollowsPolicy`, `FilterExact` |

In the quarantine runs, `Files` bounds the rows that may be created, `MaxAge` how
far they age, `MayEnd` which sessions may be terminated and `MaxCrashes` the
failures of a task, a job or the process.  In the last three, a start's `use`
bounds what happens: requests to come (`budget`), crashes, agent failures
(`downs`), listener starts (`boots`), the tokens and sessions that can be drawn.

Two actors of a kind are enough for every race the code can have on one row:
the lock has one holder, and each interleaving found involves one stale reader
and one writer.  One crash suffices because a restart resets everything but
rows, sandboxes and late calls, which the other actions also reach.  Limits are
small but reached: two wrong passwords or codes lock, three blocked transfers
cross the threshold, one host is full with one session, two readings sustain a
rise.  Pieces of one byte cut RFB streams everywhere, longer ones span units.

`IsolationHolds`, `SecondFactorHeld`, `SomeActiveAdmin`, `CounterExpires`,
`HoldKept`, `TerminatedIsGone`, `OnePublished` and `AttemptsBounded` each name
the one schedule the code leaves open (a crash, a request that had loaded the row, two consoles, a node that got or lost its
address while it ran sessions); within that exception nothing is promised, and
everything else is checked.

The runs check no type invariant: the `TypeOK` of `BrowserSessions`,
`FileQuarantine`, `Identity`, `NodeTrust` and `PolicyEnforcement` are proved
(section 4), and so is `LockHasItsTransaction`, a part of `IsolationInv`.

Two runs refute statements of the documentation or of comments:

| Run | Statement | What happens |
|---|---|---|
| `claim_terminal` | session-lifecycle.md:22, TERMINATED is a "terminal state" | A viewer loads the session DISCONNECTED while a kill is under way, dials the relay while the sandbox still exists, waits for the kill's commit and writes ACTIVE over TERMINATED. |
| `claim_restricted_display` | policies.md:69, a blocked clipboard costs compression and the remote cursor, "not a regression bug"; rfb_clipboard_filter.py:35, REMOTE_TO_LOCAL is "completely unaffected" | The filters parse from the first byte, and the first bytes are RFB's greeting, `RFB 003.008`.  Its `R` is no message type: the server's filter (NONE, LOCAL_TO_REMOTE) or the client's (REMOTE_TO_LOCAL) raises and the display is closed. |

The models show further schedules of the same two kinds, a stale read and an
effect that precedes its commit, that have no run of their own:

* The owner's end loads ACTIVE, waits for an isolation to commit, and ends the
  isolated session (session-lifecycle.md:41).
* Two creations of a user count before either commits and exceed the quota
  (configuration.md:59).
* The reconciler loads a session's row, a kill commits TERMINATED, and the
  cycle's commit writes FAILED over it (session-lifecycle.md:22).
* The backend dies after `restore_sandbox` and before its commit: an ISOLATED
  row whose sandbox has its network (session-lifecycle.md:20; `IsolationHolds`
  is therefore checked without crashes).
* The poll loop ends when it sees ISOLATED, and the restore does not start it
  again (quarantine.md:17).
* A retention cycle lists an old QUARANTINED file, a reviewer releases it, and
  the cycle deletes it at once (admin-guide.md:183).
* Retention finds a file's incident closed, the incident is reopened, and the
  file is deleted under it (quarantine_retention.py:96; `OpenIncidentHoldsFile`
  leaves reopened incidents out).
* A poll task ends between the deletions in the sandbox and the commit of the
  cycle: the rows of what it deleted are lost (downloads.py:63), and what it
  staged stays without a row (adr/0022:40).
* The deletion of an oversized download fails, and every poll records it again
  (quarantine.md:26).
* A viewer stamps, a disconnect commits DISCONNECTED and finds nobody
  registered, the viewer registers: it watches a DISCONNECTED session, which
  times out (session-lifecycle.md:38, "no idle timeout while a viewer is
  connected").
* Two reviewers load QUARANTINED, and the release commits after the rejection
  (services/quarantine.py:19).
* A poll stages content whose bytes are there already; before it commits its
  row, retention finds no other live row and removes them
  (quarantine_retention.py:36).
* A restore that outlived its caller lands after a later isolation (which is why
  `LateOps` leaves restores out of `requests`).
* Two administrators at two consoles disable each other, or each other's
  targets, and none is left (api/admin.py:248).
* Of concurrent wrong MFA codes one is counted, and a write-back can restore a
  challenge that a success or the limit has deleted, until it expires
  (core/sessions.py:177, "brute-force guard"); a process that dies between INCR
  and EXPIRE leaves a failure counter without a time to live.
* Two publications of a policy overlap, and two versions stay PUBLISHED; a
  publication and a rollback overlap, and the current version is SUPERSEDED, so
  that no version of the policy applies (models/policy.py:58).  A save that had
  loaded a draft changes it after its publication (models/policy.py:36), and two
  saves leave the rules of both.
* Two uploads cross the threshold together and open an incident each; while both
  are open every further blocked upload fails with an error
  (services/incidents.py:21, "only one such incident").
* The request dies between writing an upload into the sandbox and its commit:
  the file is there, its event is not.
* A session lives on a node that is revoked and enrolled again: until the node
  is approved its row has no endpoint, and the session's terminate goes to the
  default agent, which reports success (against services/nodes.py:187, "would
  send this node's terminate/display calls to a different host").  An approval
  that had loaded the row before a revocation has the same effect the other way
  round: the node is APPROVED without an endpoint, its sessions are created on
  the default agent, and the next approval points their calls elsewhere.
* With no approved node, `select_node` takes the default agent's row, although
  it is REVOKED (services/sessions.py:140, "never a scheduling candidate").
* A heartbeat that loaded a node as OFFLINE writes ONLINE over a drain committed
  while the agent was answering.

### Fairness

Liveness is checked under `FairSpec`.  Handlers and jobs run on one event loop
and all their awaits end (agent calls and dials time out); PostgreSQL queues the
waiters of a row lock, so an actor that can write again and again does: strong
fairness for each request, connection, the reaper and the reconciler.  Time
passes (weak fairness).  The agent is not down for good: among inventories,
kills and removals attempted again and again, some succeed (strong fairness).
Nothing is assumed of users, viewers, late effects or crashes, except that the
bound limits the crashes.

`FileQuarantine`'s `FairSpec` is of the same kind: pollers and the retention job
repeat forever and their awaits end (weak fairness), rows age (weak), fetches of
a file and removals of staged bytes attempted again and again succeed at some
time (strong).  Nothing is assumed of deletes in the sandbox, reviewers,
owners, incidents or failures.

`UserRevocation`: as for requests, with the batches; PostgreSQL looks for
deadlocks (weak fairness of `DeadlockResolved`).  `NodeTrust`: the poll loop is
never ended, every agent call has a timeout, begun requests go on and heartbeats
age (weak fairness each); nobody is obliged to begin anything and no agent to
come back.  `Identity` and `PolicyEnforcement` promise safety only: their
requests answer somebody who waits, and nothing there has to happen by itself.

## 4. Proofs

For every set of sessions, connections and requests, any bounds and any choice
of late calls (assumptions: the `ASSUME`s of the modules, which say that actors
are distinct and bounds are numbers), TLAPS checks

| Theorem | Statement |
|---|---|
| `TypeInvariant`, `TypeCorrect`, `RegistryCorrect` | `Spec => []TypeInv`, and with it `[]TypeOK`, `[]RegisteredIsOpen` |
| `StartInvariant`, `TerminatedStopsSandbox` | `Spec => []StartInv`, and with it `[]TerminatedIsNotRunning` |
| `LifetimeRefinement` | `Spec => SandboxRunsOnce` |
| `TransientStaysPrivate` | `Spec => []TransientNeverCommitted` |
| `StampsAreCleaned` | `Spec => []StampHasItsConnection` |
| `LocksAreReleased` | `Spec => []LockHasItsTransaction` |
| `GraceIsEnough` | `GraceCycles > 1` implies `Spec => []GraceSparesCreation` |
| `LossesAreReal` | `GraceCycles > 1` implies `Spec => []LossIsReal` |
| `IsolationIsKept` | no restore lands late (`"restore" \notin LateOps`) implies `Spec => []IsolationHolds` |

The last three have a premise, without which they are false: with a grace of one
cycle (configurable; the default is two) a listing that straddles a creation
makes its container a candidate, or its row, once committed, a loss, and removes
it at once; and a restore that outlived its caller may land after a later
isolation.

`TerminatedIsNotRunning` is not inductive.  A termination removes the container
and commits later, so what must hold from the moment the agent has answered is
that the session is *over*: no container of it runs and none can be started any
more.  That in turn needs to know where a start can come from: a creation that
has not got past its start call, or a start call that outlived its caller.
`StartInv` says that a session has one creator, whose row nobody else sees
(`CreatorIsAlone`, `ActsOnCommittedRow`), that an unused id has left no trace
(`UndrawnIsUntouched`), and that a late start finds its container stopped and no
late create besides it (`LateStartIsOnly`).

Most steps do not touch any of this.  `SandboxProofs` captures them in one frame,
a *calm* step, shows once that calm steps keep `StartInv`, and shows for each
action that it is calm (`StepKinds`); what is left are late starts, the steps of
a creation and the restart.  The refinement reuses the classification: a calm
step or a restart can only end lives, a creation or a late start can begin one
that is new.

Of `FileQuarantine`, for every set of sessions, items, files, reviewers, tokens
and requests (assumptions: `ItemAssumption` etc., which say what the constant
functions map to and that NULL is no id):

| Theorem | Statement |
|---|---|
| `PipelineTypes` | `Spec => []TypeInv` |
| `FailClosed` | `Spec => []ReleasedWasCleared` |
| `IncidentHolds` | `Spec => []OpenIncidentHoldsFile` |
| `TokensAreSingleUse` | `Spec => []TokenServesOnce` |
| `OneRow` | `Spec => []OneRowPerContent` |

`TypeInv` adds to the types that whatever a task, request, token or cycle refers
to exists, and that an uncommitted row is nobody's committed one.  The others
need a strengthening each: `ClearedInv` extends `ReleasedWasCleared` to
uncommitted rows; `HoldInv` says that what the retention cycle has taken or
marked has no open incident unless it was reopened; `TokenInv` counts a token's
uses: in Redis, or consumed by one retrieval, or served once; and `OneAbout`
restates `OneRowPerContent` over items, with `FetchedIsSmall`: what reaches the
deduplication query was fetched, so its hash is that of its content.

`GraceSparesCreation` follows from counting (`GraceInv`): a session under creation
was missing a row in at most one listing, the one that straddled its creation,
so its counter stays below two.  `LossIsReal` needs more than counting
(`LossInv`): a row missed once belongs to a session that has used up its start,
so a sandbox that a later listing still misses is not about to run but over.
That no start can follow rests on `LateStartFailed`, kept through crashes, and on
the refinement's classification of steps into those that end and those that begin
a life.  `IsolationInv` follows the row lock: an
isolation holds it from its flush to its commit, so no restore of that session
commits in between; what may still land is a start of a creation that failed,
and nobody can isolate that creation's session.

Of `Identity`, for every finite set of users and requests, any tokens, codes and
limits, and every start that satisfies `StartAssumption` (accounts have their
types and share no recovery code, and the state row and the bounds fit):

| Theorem | Statement |
|---|---|
| `IdentityTypes` | `Spec => []TypeOK` |
| `SecondFactorsHeld` | `Spec => []SecondFactorHeld` |
| `RecoveryCodesOnce` | `Spec => []RecoveryCodeOnce` |
| `AttemptsLimited`, `CountersExpire` | `Spec => []AttemptsBounded`, `Spec => []CounterExpires` |
| `BootstrapOnce` | `Spec => []OneBootstrapAdmin` |
| `AdministratorRemains` | `Spec => []SomeActiveAdmin` |
| `LocalRolesAdministered` | `Spec => LocalRoleAdministered` |

`SetupInv` says that who inserts or initializes the first administrator holds
the state row's lock, so that its view of the row is current.  `AccountInv` says
what a request still knows of the row it loaded: it is there, it is a
directory's or not, and of two requests about to insert one account one will
fail.  On top of these, `CodeInv` follows a recovery code from being unused, to
being presented by the one request that holds the account's codes, to being
nobody's; `FactorInv` says that no session without a second factor is left when
a role is about to change; `AdminInv`, for one console, that who is about to
disable an administrator is not about to disable the only one; and `AttemptInv`
adds up wrong attempts that are counted, that are about to be, that a dead
request took with it, and those that requests under way may still make.

Of `NodeTrust`, for any set of hosts and tokens, finite nonempty requests,
finite sessions, any ceiling and any positive `RecoveryPolls`:

| Theorem | Statement |
|---|---|
| `NodeTypes` | `Spec => []TypeOK` |
| `RisesAreSustained` | `Spec => RiseSustained` |
| `HoldsAreKept` | `Spec => HoldKept` |
| `TokensEnrolOnce` | `Spec => []EnrolledOnce` |
| `OvershootIsBounded` | `Spec => []CapacityOvershoot` |
| `TerminatedAreGone` | `Spec => []TerminatedIsGone` |

`TypeInv` includes what a heartbeat carries (`Carries`: the status is the
successor of the one it had loaded) and the streak (`Sustained`: its readings
are the last ones, all above what is reported).  `HoldInv` excludes the one
status from which a heartbeat would end a hold unseen.  The two bounds are
counts: `EnrolInv`, that enrolments, tokens on offer and enrolments under way
do not exceed the tokens drawn; `RoomInv`, that what runs on an agent and the
creations that have found room on it do not exceed the ceiling and the other
requests.  `GoneInv` says that a container runs where its session's calls go.

Of `PolicyEnforcement`, for any policies, groups and users, any rules and
streams, finite requests, pieces of any positive length, and every threshold of
at least two (the code's is three; with one, every request may have counted an
upload while an incident is open that is closed before they report):

| Theorem | Statement |
|---|---|
| `PolicyTypes` | `Spec => [](TypeInv /\ TypeOK)` |
| `OneVersionPublished` | `Spec => []OnePublished` |
| `ViolationsAreNoticed` | `Spec => []ViolationsNoticed` |
| `SessionKeepsItsPolicy` | `Spec => []SessionFollowsPolicy` |
| `PrecedenceIsKept` | `Spec => []PrecedenceHolds` |
| `FilterIsExact` | `Spec => []FilterExact` |

`TypeInv` is what foreign keys promise: the ids a request carries stay valid,
because policies and versions are never deleted.  `CurrentInv` says that what a
publication or rollback loaded is still so, unless another is under way on the
policy, which is then one of the `raced`.  `NotedInv` bounds, while no incident
is open, what is on record together with the uploads about to be recorded
without one.  `RelayInv` says that the relay runs under the mode resolved at
creation and that what a blocked direction's filter has passed on is clean;
what the filters make of each unit is taken from their definitions, so this
holds for streams of any length.

`PrecedenceIsKept` is about the loop of `evaluate_file_action`, a recursive
function over the rows.  Instead of an induction theorem, `Climbing` argues with
the least number at which a property fails; `Recursion` gives a recursive
function its values from it (`Steps` and `Iterates` name its two sides),
`BestLeads` says that after each row the result is a matching rule of highest
precedence, and `OrderIsIrrelevant` concludes.  It assumes the forms a stored rule has (`RuleAssumption`) and that host names are
sequences of labels (`FileAssumption`).

`FilterIsExact` is about streams of any length, cut anywhere, the two directions
interleaved in any way.  It assumes that they are RFB (`FramingAssumption`): units
that RFB and the filter both know have the size RFB gives them, any other unit at
least the bytes that show the filter what it is, and a rectangle is drawn in the
pixel format the viewer set last, before the server was asked for it.  That is
what rfb_clipboard_filter.py:96-101 relies on ("noVNC always sends this during
connection setup, before requesting any framebuffer update"); of a viewer that
changes its format while updates are on their way nothing is shown.
`FrameInv` says that a filter stands between two units, at the byte
(`Offset`) and the rectangle (`Owed`) where those it has taken end, with what
`Expected` makes of them passed on; that `bpp` is the last format the client's
filter has taken (`Tracks`); and that nothing arrives from the server before
the client's units it answers have passed the client's filter (`Awaited`), which
is why one filter may use the format the other has seen.  `UnitLength` is the
core: under `FrameInv` the length the filter computes for a complete unit is the
unit's own, and an incomplete one lacks a byte of its own.  `BytesIs`, `OwedIs` and `JoinedIs`
are the recursive functions, by `Recursion`.  A stream with a byte the filter
does not know is covered up to that byte, where the connection is torn.

Of `UserRevocation`, for any finite set of sessions, under the model's own
restrictions (no creations and no late calls, `BatchAssumption`, and no crash):

| Theorem | Statement |
|---|---|
| `RevokedAreGone` | `Spec => []RevokedHasNoSandbox` |

`GoneInv` says that whoever is about to write TERMINATED, for a row of a batch
or of a request, has the agent's answer that the container is gone; an absent
container stays absent, as nobody creates one.

### Only model-checked

* Liveness and everything that depends on fairness (`OrphansAreRemoved`,
  `LostSessionsFail`, `TerminatingEnds`, `UnattendedSessionsEnd`,
  `RevocationsEnd`, `NoGhostRows`, `DownloadsAreRecorded`, `FilesExpire`,
  `ComesOnline`, `ShownOffline`): outside the prover's reach.
* That the two claims of section 3 are violated.

## 5. Plan

Done: all parts of section 1 are modelled, and every safety property the runs
check, invariant or action property, is a theorem.  Liveness stays with TLC.
What would add most next is more behaviour in `UserRevocation`, whose theorem is
without creations, late calls and crashes.

## 6. Not modelled

* Frontends: they present the API's state.
* Dashboards, overviews, metrics and health reports: queries, and samples that no
  other part reads.
* The audit log: append-only; the one place that reads events to decide
  something, the violation counter, is modelled.
* Deployment, backup and restore scripts, migrations, configuration parsing,
  test and documentation tools: they run before or beside the system, one at a
  time.
* Cryptography, cookies, CSRF and origin checks: library calls and header
  comparisons without state.
* The LDAP directory, Docker, PostgreSQL, Redis, ClamAV and the VNC server: they
  appear by what the code can observe of them.
