--------------------------- MODULE BrowserSessions ---------------------------
(***************************************************************************)
(* The browser-session control plane of one backend process: requests,     *)
(* display connections, the reaper and the reconciler acting on the same   *)
(* rows and sandboxes, with agent failures, late agent effects and backend *)
(* crashes.                                                                *)
(***************************************************************************)
EXTENDS SessionReaper, OrphanReconciler

CONSTANTS
    RequestOps,         \* the operations requests perform in this instance
    Jobs,               \* the background jobs that run in this instance
    MaxCrashes          \* bound on backend crashes

ASSUME InstanceAssumption ==
    /\ RequestOps \subseteq Ops \ {"reap"}
    /\ Jobs \subseteq {"reap", "recover", "reconcile"}
    /\ MaxCrashes \in Nat

VARIABLES
    straddled,          \* creations in flight when the last cycle listed
    crashes

vars == <<storeVars, relayVars, requestVars, reconVars, straddled, crashes>>

TypeOK ==
    /\ StoreTypeOK
    /\ RelayTypeOK
    /\ RequestTypeOK
    /\ ReconTypeOK
    /\ straddled \subseteq Sessions
    /\ crashes \in 0..MaxCrashes

Init ==
    /\ StoreInit
    /\ RelayInit
    /\ RequestInit
    /\ ReconInit
    /\ straddled = {}
    /\ crashes = 0

-----------------------------------------------------------------------------
\* Session s is being created: its row is not committed yet.
Creating(s) == \E h \in Requests : req[h].op = "create" /\ req[h].s = s

\* Timing: the agent calls of create_session take less than a reconcile
\* interval together, so a creation is in flight during one listing at most.
CycleMayList == \A s \in straddled : ~Creating(s)

\* The agent calls on session s that some actor is waiting for.
AwaitedCalls(s) ==
    (UNION {InFlight(h) : h \in {g \in Handlers : req[g].s = s}})
      \cup (IF s \in recon.kill \cup recon.lose THEN {"terminate"} ELSE {})

\* A handler or job dies with its process; an agent call it was waiting for
\* may still land.  The next process starts with no viewers, empty
\* registries, and every open transaction rolled back.
BackendRestarts ==
    /\ crashes < MaxCrashes
    /\ crashes' = crashes + 1
    /\ late' = [s \in Sessions |-> late[s] \cup (AwaitedCalls(s) \cap LateOps)]
    /\ ResetViewerStamps
    /\ lock' = [s \in Sessions |-> Nobody]
    /\ conn' = [c \in Conns |-> ConnIdle]
    /\ registry' = [s \in Sessions |-> Nobody]
    /\ req' = [h \in Handlers |-> Idle]
    /\ polling' = {}
    /\ recon' = ReconIdle
    /\ orphanSeen' = [s \in Sessions |-> 0]
    /\ lostSeen' = [s \in Sessions |-> 0]
    /\ straddled' = {}
    /\ UNCHANGED <<box, drawn>>

boundVars == <<straddled, crashes>>

EnvironmentActs ==
    /\ Environment
    /\ UNCHANGED <<relayVars, requestVars, reconVars, boundVars>>

ViewerActs(c) ==
    /\ RelayStep(c)
    /\ UNCHANGED <<requestVars, reconVars, boundVars>>

RequestArrives(h) ==
    \E s \in Sessions :
        \/ "create" \in RequestOps /\ CreateBegins(h, s)
        \/ \E op \in RequestOps \ {"create"} : RequestBegins(h, op, s)

RequestActs(h) ==
    /\ RequestArrives(h) \/ CreateStep(h) \/ ServiceStep(h)
    /\ UNCHANGED <<reconVars, boundVars>>

PollerActs ==
    /\ \E s \in Sessions : PollerStops(s)
    /\ UNCHANGED <<reconVars, boundVars>>

ReaperSelects ==
    \E s \in Sessions : \/ "reap" \in Jobs /\ ReapSelects(s)
                        \/ "recover" \in Jobs /\ RecoverSelects(s)

ReaperActs ==
    /\ ReaperSelects \/ ReaperClaims \/ ReaperLoads \/ ServiceStep(Reaper)
    /\ UNCHANGED <<reconVars, boundVars>>

ReconcilerLists ==
    /\ "reconcile" \in Jobs
    /\ CycleMayList
    /\ ReconLists \/ ReconCannotList
    /\ straddled' = {s \in Sessions : Creating(s)}
    /\ UNCHANGED crashes

ReconcilerActs == ReconStep /\ UNCHANGED boundVars

Next ==
    \/ EnvironmentActs
    \/ \E c \in Conns : ViewerActs(c)
    \/ \E h \in Requests : RequestActs(h)
    \/ PollerActs
    \/ ReaperActs
    \/ ReconcilerLists
    \/ ReconcilerActs
    \/ BackendRestarts

Spec == Init /\ [][Next]_vars

-----------------------------------------------------------------------------
\* Fairness.  Handlers and jobs run on one event loop and every await ends:
\* agent calls and the relay dial time out.  PostgreSQL grants a row lock to
\* its waiters in order, so whoever can write again and again does (SF).
\* Jobs repeat forever.  The agent is not down for good, so among attempts
\* repeated forever some succeed.
Fairness ==
    /\ \A h \in Requests :
          SF_vars((CreateStep(h) \/ ServiceStep(h)) /\ UNCHANGED <<reconVars, boundVars>>)
    /\ \A c \in Conns :
          SF_vars((ViewerDialFails(c) \/ ViewerStamps(c) \/ ViewerRegisters(c)
                     \/ ViewerDisconnects(c) \/ ViewerUnstamps(c))
                  /\ UNCHANGED <<requestVars, reconVars, boundVars>>)
    /\ WF_vars(EnvironmentActs /\ \E s \in Sessions : TimePasses(s))
    /\ SF_vars(ReaperActs)
    /\ SF_vars(ReconcilerActs)
    /\ SF_vars(ReconcilerLists /\ ReconLists)
    /\ \A s \in Sessions :
          /\ SF_vars(ReconKills(s) /\ ~Present(box'[s]) /\ UNCHANGED boundVars)
          /\ SF_vars(ReconRemoves(s) /\ s \in recon'.removed /\ UNCHANGED boundVars)

FairSpec == Spec /\ Fairness

-----------------------------------------------------------------------------
\* Safety.

\* docs/session-lifecycle.md calls TERMINATED "Sandbox fully destroyed":
\* whatever agent calls are lost, late or repeated, no container of a
\* TERMINATED session is running.
TerminatedIsNotRunning ==
    \A s \in Sessions : row[s].status = "TERMINATED" => ~Running(box[s])

\* QUEUED, STARTING and ISOLATING are only ever flushed inside a request's
\* transaction, so a crash rolls them back (session_reaper.py's account of
\* why only TERMINATING needs recovery).
TransientNeverCommitted ==
    \A s \in Sessions : row[s].status \notin {"QUEUED", "STARTING", "ISOLATING"}

\* A viewer stamp is never left behind: the connection it belongs to is still
\* open, or still has its cleanup ahead of it (display.py).
StampHasItsConnection ==
    \A s \in Sessions, c \in Conns :
        row[s].viewer = c =>
            /\ conn[c].s = s
            /\ conn[c].pc \in {"register", "open", "closing", "unstamp"}

\* A registered connection is open on that very session, so an administrator's
\* disconnect never closes somebody else's display.
RegisteredIsOpen ==
    \A s \in Sessions, c \in Conns :
        registry[s] = c => conn[c].pc = "open" /\ conn[c].s = s

Restoring(s) ==
    \/ "restore" \in late[s]
    \/ \E h \in Requests : req[h].op = "restore" /\ req[h].s = s

\* While a session is ISOLATED its sandbox has no network, except while an
\* administrator's restore is under way or after one that the backend did not
\* survive (services/sessions.py).
IsolationHolds ==
    crashes = 0 =>
        \A s \in Sessions :
            row[s].status = "ISOLATED" /\ HasDisplay(box[s]) => Restoring(s)

\* The reconciler never terminates the container of a session that is still
\* being created, although its row is invisible and looks missing
\* (orphan_reconciler.py's grace period).
GraceSparesCreation == \A s \in recon.kill : ~Creating(s)

\* The reconciler ends a session as lost on an answer of its node only if no
\* sandbox of it runs: a creation that commits between the listing and the
\* look at the rows is not in the listing either (orphan_reconciler.py).
LossIsReal == recon.reached => \A s \in recon.lose : ~Running(box[s])

\* A row lock belongs to a transaction that is between its flush and its
\* commit, so no finished or crashed actor keeps the others waiting.
LockHasItsTransaction ==
    \A s \in Sessions :
        /\ \A h \in Handlers :
              lock[s] = h => req[h].s = s /\ req[h].pc \in {"call", "commit"}
        /\ lock[s] = Reconciler <=> s \in recon.failed

\* Session s can still be started for the first time: its id is unused, its
\* creation has not got past the start call, or that call may still land.
MayStart(s) ==
    \/ s \notin drawn
    \/ \E h \in Requests : /\ req[h].op = "create" /\ req[h].s = s
                           /\ req[h].pc \in {"create", "start"}
    \/ "start" \in late[s] /\ Present(box[s])

Life(s) == CASE Running(box[s]) -> "running"
             [] ~Running(box[s]) /\ MayStart(s) -> "new"
             [] OTHER -> "over"

Lifetime == INSTANCE SandboxLifetime WITH life <- [s \in Sessions |-> Life(s)]

\* Every behaviour of the control plane keeps the promise of SandboxLifetime:
\* no late, repeated or crashed call makes a stopped sandbox run again.
SandboxRunsOnce == Lifetime!LifeSpec

-----------------------------------------------------------------------------
\* Liveness.

\* A session claimed by the reaper does not stay TERMINATING, even when the
\* backend dies between the claim and the termination.
TerminatingEnds ==
    \A s \in Sessions :
        row[s].status = "TERMINATING" ~> row[s].status # "TERMINATING"

\* A container whose session is over, or whose row was never committed, is
\* eventually removed.
OrphansAreRemoved ==
    \A s \in Sessions :
        (Present(box[s]) /\ row[s].status \in {"NONE", "TERMINATED", "FAILED"})
            ~> (~Present(box[s]) \/ row[s].status \notin {"NONE", "TERMINATED", "FAILED"})

\* A DISCONNECTED session past its timeout is ended, unless something about
\* it changes first.
UnattendedSessionsEnd ==
    \A s \in Sessions :
        (row[s].status = "DISCONNECTED" /\ row[s].idle)
            ~> (row[s].status # "DISCONNECTED" \/ ~row[s].idle)

\* A row does not go on claiming a live sandbox that is gone.
LostSessionsFail ==
    \A s \in Sessions :
        (row[s].status \in {"ACTIVE", "DISCONNECTED", "ISOLATED"} /\ ~Running(box[s]))
            ~> row[s].status \notin {"ACTIVE", "DISCONNECTED", "ISOLATED"}

-----------------------------------------------------------------------------
\* What the documentation says and the code does not guarantee.

\* docs/session-lifecycle.md:22, "terminal state": a TERMINATED session stays
\* TERMINATED.  A display connection that loaded the session DISCONNECTED
\* writes ACTIVE over it (display.py).
TerminatedIsTerminal ==
    [][\A s \in Sessions :
          row[s].status = "TERMINATED" => row'[s].status = "TERMINATED"]_vars
=============================================================================
