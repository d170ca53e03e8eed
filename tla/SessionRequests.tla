--------------------------- MODULE SessionRequests ---------------------------
(***************************************************************************)
(* The session operations of the HTTP API (api/sessions.py,                *)
(* api/admin_sessions.py) and the service functions they run               *)
(* (services/sessions.py).  A request is one database transaction: it      *)
(* loads the row, checks it, flushes an intermediate status, calls the     *)
(* Session Agent, writes the outcome and commits.                          *)
(***************************************************************************)
EXTENDS DisplayRelay

CONSTANTS MaxSessionsPerUser

ASSUME QuotaAssumption == MaxSessionsPerUser \in Nat

VARIABLES
    req,                \* each handler's progress
    drawn,              \* session ids handed out by create_session
    polling             \* sessions whose download poller runs

requestVars == <<req, drawn, polling>>

\* end: the owner ends the session; kill: an administrator does; reap: the
\* background reaper does.  All three run terminate_session.
EndOps == {"end", "kill", "reap"}

Ops == EndOps \cup {"create", "isolate", "restore", "disconnect"}

\* seen and sawViewer are the columns as loaded; out is the status the
\* transaction will commit.
Idle == [op |-> "none", pc |-> "idle", s |-> Nobody, seen |-> "NONE",
         sawViewer |-> FALSE, out |-> "NONE"]

HandlerPcs == {"idle", "create", "start", "ready", "cleanup", "insert",
               "claim", "read", "flush", "call", "commit", "kick"}

HandlerStates ==
    [op : Ops \cup {"none", "recover"}, pc : HandlerPcs,
     s : Sessions \cup {Nobody}, seen : SessionStatus \cup {"NONE"},
     sawViewer : BOOLEAN, out : SessionStatus \cup {"NONE"}]

RequestTypeOK ==
    /\ req \in [Handlers -> HandlerStates]
    /\ drawn \subseteq Sessions
    /\ polling \subseteq Sessions

RequestInit ==
    /\ req = [h \in Handlers |-> Idle]
    /\ drawn = {}
    /\ polling = {}

At(h, pc) == req[h].pc = pc

Step(h, pc) == req' = [req EXCEPT ![h].pc = pc]

Conclude(h, pc, out) == req' = [req EXCEPT ![h].pc = pc, ![h].out = out]

Done(h) == req' = [req EXCEPT ![h] = Idle]

-----------------------------------------------------------------------------
\* Creating a session.

\* The statuses count_active_sessions_for_user counts, in committed rows.
CountedStatuses == {"QUEUED", "STARTING", "ACTIVE", "DISCONNECTED"}

ActiveSessionsOf(u) ==
    {s \in Sessions : Owner[s] = u /\ row[s].status \in CountedStatuses}

\* The quota is checked before the new row exists; the QUEUED and STARTING
\* row is flushed but invisible to everyone else until the request commits.
CreateBegins(h, s) ==
    /\ At(h, "idle")
    /\ h \in Requests
    /\ s \notin drawn
    /\ Cardinality(ActiveSessionsOf(Owner[s])) < MaxSessionsPerUser
    /\ drawn' = drawn \cup {s}
    /\ req' = [req EXCEPT ![h] = [Idle EXCEPT !.op = "create", !.s = s,
                                              !.pc = "create"]]
    /\ UNCHANGED <<storeVars, relayVars, polling>>

\* One agent call of create_session: on to the next one, or to the cleanup.
CreateCalls(h, pc, op, next) ==
    /\ At(h, pc)
    /\ \/ AgentOk(req[h].s, op) /\ Step(h, next)
       \/ AgentError(req[h].s, op) /\ Step(h, "cleanup")
    /\ UNCHANGED <<row, lock, relayVars, drawn, polling>>

CreateSandbox(h) == CreateCalls(h, "create", "create", "start")

StartSandbox(h) == CreateCalls(h, "start", "start", "ready")

\* _wait_for_display_ready: a probe succeeds, or fifteen of them fail.
DisplayReady(h) ==
    /\ At(h, "ready")
    /\ \/ HasDisplay(box[req[h].s]) /\ Conclude(h, "insert", "ACTIVE")
       \/ Step(h, "cleanup")
    /\ UNCHANGED <<storeVars, relayVars, drawn, polling>>

\* Best effort: the row becomes FAILED whether or not the call succeeds.
CreateCleansUp(h) ==
    /\ At(h, "cleanup")
    /\ AgentOk(req[h].s, "terminate") \/ AgentError(req[h].s, "terminate")
    /\ Conclude(h, "insert", "FAILED")
    /\ UNCHANGED <<row, lock, relayVars, drawn, polling>>

\* The commit publishes the row.  The download poller of a started session
\* first looks at it one poll interval later.
CreateCommits(h) ==
    LET s == req[h].s
    IN  /\ At(h, "insert")
        /\ Commit(s, [NoRow EXCEPT !.status = req[h].out])
        /\ polling' = IF req[h].out = "ACTIVE" THEN polling \cup {s}
                                               ELSE polling
        /\ Done(h)
        /\ UNCHANGED <<box, late, relayVars, drawn>>

-----------------------------------------------------------------------------
\* Acting on an existing session.

Permitted(op, status) ==
    CASE op = "end"        -> status \notin {"ISOLATING", "ISOLATED"}
      [] op = "isolate"    -> status \in {"ACTIVE", "DISCONNECTED"}
      [] op = "restore"    -> status = "ISOLATED"
      [] op = "disconnect" -> status \in {"ACTIVE", "DISCONNECTED"}
      [] OTHER             -> TRUE

\* Where the service function goes once its check has passed.
FirstStep(op, status) ==
    CASE op \in EndOps /\ status = "TERMINATED" ->
            IF op = "kill" THEN "kick" ELSE "idle"
      [] op \in EndOps \cup {"isolate"} -> "flush"
      [] op = "restore"                 -> "call"
      [] op = "disconnect"              -> "commit"

\* Load the row and check it.
Load(h, op, s) ==
    LET first == FirstStep(op, row[s].status)
    IN  req' = [req EXCEPT ![h] =
                  IF first = "idle" THEN Idle
                  ELSE [op |-> op, pc |-> first, s |-> s, seen |-> row[s].status,
                        sawViewer |-> op = "restore" /\ row[s].viewer # Nobody,
                        out |-> IF op = "disconnect" THEN "DISCONNECTED"
                                                     ELSE "NONE"]]

RequestBegins(h, op, s) ==
    /\ At(h, "idle")
    /\ h \in Requests
    /\ row[s].status # "NONE"
    /\ Permitted(op, row[s].status)
    /\ Load(h, op, s)
    /\ UNCHANGED <<storeVars, relayVars, drawn, polling>>

\* The status flushed before the agent is called.
Intent(op) == IF op = "isolate" THEN "ISOLATING" ELSE "TERMINATING"

\* Variant: the intermediate status is committed.
FlushCommits(h) ==
    LET s == req[h].s
    IN  /\ At(h, "flush")
        /\ CanWrite(s, h)
        /\ Commit(s, SetStatus(row[s], Intent(req[h].op)))
        /\ Step(h, "call")
        /\ UNCHANGED <<box, late, relayVars, drawn, polling>>

\* A flush that changes nothing sends no UPDATE and takes no lock.
Flush(h) ==
    LET s == req[h].s
    IN  /\ At(h, "flush")
        /\ IF req[h].seen = Intent(req[h].op)
           THEN lock' = lock
           ELSE CanWrite(s, h) /\ Lock(s, h)
        /\ polling' = IF req[h].op \in EndOps THEN polling \ {s} ELSE polling
        /\ Step(h, "call")
        /\ UNCHANGED <<row, box, late, relayVars, drawn>>

AgentOp(op) == IF op \in EndOps THEN "terminate" ELSE op

Outcome(op) ==
    CASE op \in EndOps  -> "TERMINATED"
      [] op = "isolate" -> "ISOLATED"
      [] op = "restore" -> "ACTIVE"

\* Variant: a failed call counts as a success.
CallAgentHopes(h) ==
    /\ At(h, "call")
    /\ \/ AgentOk(req[h].s, AgentOp(req[h].op))
       \/ AgentError(req[h].s, AgentOp(req[h].op))
    /\ Conclude(h, "commit", Outcome(req[h].op))
    /\ UNCHANGED <<row, lock, relayVars, drawn, polling>>

CallAgent(h) ==
    LET s  == req[h].s
        op == AgentOp(req[h].op)
    IN  /\ At(h, "call")
        /\ \/ AgentOk(s, op) /\ Conclude(h, "commit", Outcome(req[h].op))
           \/ AgentError(s, op) /\ Conclude(h, "commit", "FAILED")
        /\ UNCHANGED <<row, lock, relayVars, drawn, polling>>

\* The row as the transaction leaves it: restoring and disconnecting restart
\* the unattended clock, and columns that did not change are not written.
Written(h, r) ==
    LET q == req[h]
    IN  CASE q.op = "disconnect" ->
                [(IF q.seen = q.out THEN Touch(r) ELSE SetStatus(r, q.out))
                   EXCEPT !.idle = FALSE]
          [] q.op = "restore" /\ q.out = "ACTIVE" ->
                [SetStatus(r, q.out) EXCEPT
                   !.viewer = IF q.sawViewer THEN Nobody ELSE @, !.idle = FALSE]
          [] OTHER -> SetStatus(r, q.out)

\* Only a successful disconnect or kill closes the viewer's connection.
Kicks(q) ==
    q.op = "disconnect" \/ (q.op = "kill" /\ q.out = "TERMINATED")

RequestCommits(h) ==
    LET s == req[h].s
    IN  /\ At(h, "commit")
        /\ CanWrite(s, h)
        /\ Commit(s, Written(h, row[s]))
        /\ IF Kicks(req[h]) THEN Step(h, "kick") ELSE Done(h)
        /\ UNCHANGED <<box, late, relayVars, drawn, polling>>

KickViewer(h) ==
    /\ At(h, "kick")
    /\ ForceDisconnect(req[h].s)
    /\ Done(h)
    /\ UNCHANGED <<storeVars, drawn, polling>>

\* The steps of terminate_session and its siblings, whoever runs them.
ServiceStep(h) == Flush(h) \/ CallAgent(h) \/ RequestCommits(h) \/ KickViewer(h)

CreateStep(h) ==
    \/ CreateSandbox(h)
    \/ StartSandbox(h)
    \/ DisplayReady(h)
    \/ CreateCleansUp(h)
    \/ CreateCommits(h)

\* The agent call a handler is waiting for.
InFlight(h) ==
    CASE At(h, "create")  -> {"create"}
      [] At(h, "start")   -> {"start"}
      [] At(h, "cleanup") -> {"terminate"}
      [] At(h, "call")    -> {AgentOp(req[h].op)}
      [] OTHER            -> {}

\* The poller's loop ends when it finds its session in another status.
PollerStops(s) ==
    /\ s \in polling
    /\ row[s].status \notin {"ACTIVE", "DISCONNECTED"}
    /\ polling' = polling \ {s}
    /\ UNCHANGED <<storeVars, relayVars, req, drawn>>
=============================================================================
