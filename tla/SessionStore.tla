---------------------------- MODULE SessionStore ----------------------------
(***************************************************************************)
(* What the backend's request handlers and background jobs share: the      *)
(* browser_sessions rows in PostgreSQL, their row locks, the sandbox of     *)
(* each session on its node, and the agent calls still under way after     *)
(* their caller gave up.                                                   *)
(*                                                                         *)
(* PostgreSQL runs at READ COMMITTED.  A reader sees the last committed    *)
(* row and takes no lock.  A handler that flushes a change holds the row   *)
(* lock until it commits; other writers of the row wait, then write over   *)
(* what was committed.  SQLAlchemy writes only the columns whose value     *)
(* differs from the one the handler loaded.                                *)
(***************************************************************************)
EXTENDS Sandbox, FiniteSets, Naturals

CONSTANTS
    Sessions,           \* session ids (fresh UUIDs)
    Users,
    Owner,              \* the user each session id is created for
    Conns,              \* display WebSocket connections
    Requests,           \* HTTP requests the backend serves at a time
    Reaper,             \* the session_reaper task
    Reconciler,         \* the orphan_reconciler task
    Nobody,             \* NULL: no viewer, no lock holder, no session
    LateOps             \* agent operations that may outlive their caller

ASSUME OwnerAssumption == Owner \in [Sessions -> Users]

ASSUME LateAssumption == LateOps \subseteq AgentOps

ASSUME ActorAssumption ==
    /\ Nobody \notin Sessions \cup Conns \cup Requests
    /\ Reaper \notin Requests \cup {Nobody}
    /\ Reconciler \notin Requests \cup {Nobody, Reaper}

VARIABLES
    row,                \* the committed browser_sessions row of a session
    lock,               \* the actor whose transaction has locked the row
    box,                \* the sandbox container of a session
    late                \* agent operations that may still land

storeVars == <<row, lock, box, late>>

\* The actors that run a service function on a session.
Handlers == Requests \cup {Reaper}

SessionStatus ==
    {"QUEUED", "STARTING", "ACTIVE", "DISCONNECTED", "ISOLATING", "ISOLATED",
     "TERMINATING", "TERMINATED", "FAILED"}

\* viewer stands for viewer_connected_at: the connection whose time stamp it
\* is.  idle: last_activity_at is older than the unattended timeout.  aged:
\* updated_at is older than the stuck-transition timeout.
Rows == [status : SessionStatus \cup {"NONE"}, viewer : Conns \cup {Nobody},
         idle : BOOLEAN, aged : BOOLEAN]

NoRow == [status |-> "NONE", viewer |-> Nobody, idle |-> FALSE, aged |-> FALSE]

\* Every UPDATE refreshes updated_at (TimestampMixin's onupdate).
Touch(r) == [r EXCEPT !.aged = FALSE]

SetStatus(r, status) == [Touch(r) EXCEPT !.status = status]

StoreTypeOK ==
    /\ row \in [Sessions -> Rows]
    /\ lock \in [Sessions -> Handlers \cup {Reconciler, Nobody}]
    /\ box \in [Sessions -> Containers]
    /\ late \in [Sessions -> SUBSET AgentOps]

StoreInit ==
    /\ row = [s \in Sessions |-> NoRow]
    /\ lock = [s \in Sessions |-> Nobody]
    /\ box = [s \in Sessions |-> Absent]
    /\ late = [s \in Sessions |-> {}]

-----------------------------------------------------------------------------
\* A writer proceeds when the row is unlocked or already its own.
CanWrite(s, a) == lock[s] \in {Nobody, a}

\* A conditional UPDATE that matches the committed row waits for its lock;
\* it is then evaluated again on what was committed meanwhile.
Unlocked(s) == lock[s] = Nobody

Lock(s, a) == lock' = [lock EXCEPT ![s] = a]

Commit(s, r) ==
    /\ row' = [row EXCEPT ![s] = r]
    /\ lock' = [lock EXCEPT ![s] = Nobody]

\* The agent does the operation and its answer arrives.
AgentOk(s, op) ==
    /\ Accepts(op, box[s])
    /\ box' = [box EXCEPT ![s] = Apply(op, @)]
    /\ late' = late

\* SessionAgentError: the operation failed, or its answer did not arrive in
\* time, in which case the agent's thread may still complete it.
AgentError(s, op) ==
    /\ late' = [late EXCEPT ![s] = @ \cup ({op} \cap LateOps)]
    /\ box' = box

-----------------------------------------------------------------------------
\* The environment.
LateEffect(s) ==
    /\ \E op \in late[s] :
          /\ Accepts(op, box[s])
          /\ box' = [box EXCEPT ![s] = Apply(op, @)]
          /\ late' = [late EXCEPT ![s] = @ \ {op}]
    /\ UNCHANGED <<row, lock>>

LateNothing(s) ==
    /\ \E op \in late[s] : late' = [late EXCEPT ![s] = @ \ {op}]
    /\ UNCHANGED <<row, lock, box>>

\* The browser process dies or the container is killed by hand.
SandboxExits(s) ==
    /\ Running(box[s])
    /\ box' = [box EXCEPT ![s].run = "exited"]
    /\ UNCHANGED <<row, lock, late>>

\* Nothing writes the row for longer than the timeouts; it is in a status
\* some timeout applies to.
TimePasses(s) ==
    /\ row[s].status \in {"STARTING", "ACTIVE", "DISCONNECTED", "TERMINATING"}
    /\ ~(row[s].idle /\ row[s].aged)
    /\ row' = [row EXCEPT ![s].idle = TRUE, ![s].aged = TRUE]
    /\ UNCHANGED <<lock, box, late>>

Environment ==
    \E s \in Sessions :
        LateEffect(s) \/ LateNothing(s) \/ SandboxExits(s) \/ TimePasses(s)
=============================================================================
