-------------------------- MODULE SessionInvariants --------------------------
(***************************************************************************)
(* Why a TERMINATED session's sandbox does not run, an ISOLATED one's has  *)
(* no network and a creation is spared: the strengthenings that every step *)
(* of the control plane preserves.                                         *)
(***************************************************************************)
EXTENDS BrowserSessions

Creator(h, s) == req[h].op = "create" /\ req[h].s = s

\* A handler's program counter fits its operation.
RequestShape ==
    \A h \in Handlers :
        /\ req[h].pc # "idle" => req[h].s \in Sessions
        /\ req[h].op = "create" <=>
              req[h].pc \in {"create", "start", "ready", "cleanup", "insert"}
        /\ req[h].op = "create" => h \in Requests
        /\ req[h].pc \in {"flush", "call"} =>
              req[h].op \in EndOps \cup {"isolate", "restore"}
        /\ req[h].pc = "insert" => req[h].out \in {"ACTIVE", "FAILED"}
        /\ req[h].pc = "commit" => req[h].out \in {"ACTIVE", "DISCONNECTED", "ISOLATED",
                                                 "TERMINATED", "FAILED"}

\* A connection past its first check has a session, and so does an open one.
ConnShape ==
    /\ \A c \in Conns : conn[c].pc # "idle" => conn[c].s \in Sessions
    /\ RegisteredIsOpen

\* The inductive invariant behind TypeOK.
TypeInv == TypeOK /\ RequestShape /\ ConnShape

\* An id that was not drawn has left no trace: no row, no container, no call.
UndrawnIsUntouched ==
    /\ \A s \in Sessions \ drawn :
          /\ row[s].status = "NONE"
          /\ ~Present(box[s])
          /\ late[s] = {}
    /\ recon.managed \cup recon.kill \cup recon.lose \subseteq drawn

\* Everyone but the request that creates a session acts on a committed row.
ActsOnCommittedRow ==
    /\ \A h \in Handlers :
          req[h].pc # "idle" /\ req[h].op # "create"
              => row[req[h].s].status # "NONE"
    /\ \A c \in Conns :
          conn[c].pc # "idle" => row[conn[c].s].status # "NONE"
    /\ \A s \in recon.lose \cup recon.removed \cup recon.failed :
          row[s].status # "NONE"

\* A session has one creator, whose row nobody sees.  Until its start call
\* returns, no create or start call for the session is outstanding.
CreatorIsAlone ==
    \A h \in Handlers, s \in Sessions :
        Creator(h, s) =>
            /\ s \in drawn /\ row[s].status = "NONE"
            /\ \A g \in Handlers : Creator(g, s) => g = h
            /\ req[h].pc \in {"create", "start"} =>
                  ~Running(box[s]) /\ late[s] \cap {"create", "start"} = {}
            /\ req[h].pc = "create" => ~Present(box[s])

\* A late start finds the container stopped, and no late create can make one
\* for it.
LateStartIsOnly ==
    \A s \in Sessions :
        "start" \in late[s] => ~Running(box[s]) /\ "create" \notin late[s]

\* The sandbox does not run and can never be started again.
Over(s) == ~Running(box[s]) /\ ~MayStart(s)

\* A session is over when its row says TERMINATED, and already when a
\* transaction is about to write that.
TerminatedIsOver ==
    /\ \A s \in Sessions : row[s].status = "TERMINATED" => Over(s)
    /\ \A h \in Handlers :
          req[h].pc = "commit" /\ req[h].out = "TERMINATED" => Over(req[h].s)

\* The inductive invariant behind TerminatedIsNotRunning: whatever interleaving
\* of creations, terminations, late agent effects and crashes happens, at most
\* one start of a sandbox is ever outstanding and none once it is over.
StartInv ==
    /\ TypeInv
    /\ UndrawnIsUntouched
    /\ ActsOnCommittedRow
    /\ CreatorIsAlone
    /\ LateStartIsOnly
    /\ TerminatedIsOver

-----------------------------------------------------------------------------
\* The inductive invariant behind GraceSparesCreation, next to StartInv: the
\* listing that precedes the next one has met a creation at most once, and
\* only one that straddled it.
GraceInv ==
    \A s \in Sessions :
        /\ s \notin drawn => orphanSeen[s] = 0
        /\ Creating(s) =>
              /\ s \notin recon.kill
              /\ s \in recon.managed => s \in straddled /\ orphanSeen[s] = 0
              /\ orphanSeen[s] > 0 => s \in straddled /\ orphanSeen[s] = 1

-----------------------------------------------------------------------------
\* The inductive invariant behind LossIsReal, next to StartInv: a session that
\* was missed once had used up its start by then, so a later listing can miss
\* it again only when it is over.
LossInv ==
    \A s \in Sessions :
        /\ lostSeen[s] > 0 \/ s \in recon.lose => ~MayStart(s)
        /\ /\ recon.reached /\ recon.pc \in {"rows", "kill", "lost"}
           /\ lostSeen[s] > 0 /\ s \notin recon.running
           => ~Running(box[s])
        /\ recon.reached /\ s \in recon.lose => ~Running(box[s])

-----------------------------------------------------------------------------
\* What a transaction commits fits its operation, and only requests restore.
OutcomeFits ==
    \A h \in Handlers :
        /\ req[h].op = "restore" => h \in Requests
        /\ req[h].op \in {"isolate", "restore"} => req[h].pc \in {"flush", "call", "commit"}
        /\ req[h].pc = "commit" =>
              \/ req[h].op \in EndOps /\ req[h].out \in {"TERMINATED", "FAILED"}
              \/ req[h].op = "isolate" /\ req[h].out \in {"ISOLATED", "FAILED"}
              \/ req[h].op = "restore" /\ req[h].out \in {"ACTIVE", "FAILED"}
              \/ req[h].op = "disconnect" /\ req[h].out = "DISCONNECTED"

\* An isolation flushes ISOLATING, so it holds the row's lock while it calls
\* the agent and until it commits.
IsolationLocks ==
    \A h \in Handlers :
        req[h].op = "isolate" =>
            /\ req[h].seen \in {"ACTIVE", "DISCONNECTED"}
            /\ req[h].pc \in {"call", "commit"} => lock[req[h].s] = h

\* The session was never open to its user: nobody isolates it or views it.
NeverOpened(s) ==
    /\ row[s].status \notin {"ACTIVE", "DISCONNECTED", "ISOLATED"}
    /\ \A h \in Handlers :
          req[h].op \in {"isolate", "restore", "disconnect"} /\ req[h].pc # "idle"
              => req[h].s # s
    /\ \A c \in Conns : conn[c].pc # "idle" => conn[c].s # s

\* The creation has passed its readiness probe, or is about to try.
Starts(h) ==
    /\ req[h].op = "create"
    /\ req[h].pc = "ready" \/ (req[h].pc = "insert" /\ req[h].out = "ACTIVE")

\* A start call that is still to land belongs to a creation that fails.
LateStartFailed ==
    /\ \A s \in Sessions : "start" \in late[s] => NeverOpened(s)
    /\ \A h \in Handlers : Starts(h) => "start" \notin late[req[h].s]

\* The row says ISOLATED, or a transaction is about to write that.
GoesIsolated(s) ==
    \/ row[s].status = "ISOLATED"
    \/ \E h \in Handlers : req[h].pc = "commit" /\ req[h].out = "ISOLATED" /\ req[h].s = s

BeingRestored(s) ==
    \E h \in Requests :
        req[h].op = "restore" /\ req[h].pc \in {"call", "commit"} /\ req[h].s = s

IsolatedIsOff ==
    \A s \in Sessions : GoesIsolated(s) /\ HasDisplay(box[s]) => BeingRestored(s)

\* The inductive invariant behind IsolationHolds, next to StartInv and
\* LockHasItsTransaction.
IsolationInv ==
    /\ \A s \in Sessions : late[s] \subseteq LateOps
    /\ OutcomeFits
    /\ IsolationLocks
    /\ LateStartFailed
    /\ crashes = 0 => IsolatedIsOff
=============================================================================
