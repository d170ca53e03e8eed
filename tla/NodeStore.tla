------------------------------ MODULE NodeStore ------------------------------
(***************************************************************************)
(* Browser nodes: the browser_nodes rows with the row locks transactions   *)
(* hold on them, the Session Agents behind the rows, and the jobs (HTTP    *)
(* requests and poll tasks) that load rows, call agents and write back.    *)
(*                                                                         *)
(* A job writes only the columns it changed against the row it loaded, as  *)
(* SQLAlchemy does; a flushed row stays locked until the job commits.      *)
(* The operator approves a node under its agent's real address, so an      *)
(* endpoint or a stored token is either there or not.                      *)
(***************************************************************************)
EXTENDS FiniteSets, Integers, Sequences

CONSTANTS
    Nodes,          \* host names; each has its own Session Agent
    Default,        \* the node of the Session Agent configured in .env
    Requests,       \* HTTP requests served at a time
    Sessions,       \* browser sessions
    Tokens,         \* node enrollment tokens, none drawn twice
    None,           \* NULL
    RecoveryPolls   \* capacity_recovery_polls

ASSUME NodeAssumption ==
    /\ Default \in Nodes
    /\ None \notin Nodes \cup Requests \cup Tokens
    /\ Nodes \cap Requests = {}

ASSUME FiniteAssumption == IsFiniteSet(Requests) /\ Requests # {} /\ IsFiniteSet(Sessions)

ASSUME RecoveryAssumption == RecoveryPolls \in Nat \ {0}

VARIABLES
    row,            \* the committed row of a host name
    lock,           \* the job whose transaction has written the row
    agent,          \* the Session Agent process on the host
    job,            \* what a job has loaded and where it stands
    sess,           \* the browser session row and where its container runs
    offered,        \* enrollment tokens in Redis
    drawn,          \* enrollment tokens generated so far
    held,           \* the token an agent still tries to enrol with
    enrolments,     \* enrolments committed so far
    use             \* what happens in this behaviour; never changes

nodeVars == <<row, lock, agent, job, sess, offered, drawn, held, enrolments>>

Jobs == Nodes \cup Requests     \* a poll task is named after its node

Status == {"ONLINE", "DRAINING", "OFFLINE", "DEGRADED", "MAINTENANCE"}

AdminHold == {"DRAINING", "MAINTENANCE"}

\* beat: the age of last_heartbeat against node_heartbeat_stale_seconds.
Rows == [exists : BOOLEAN, status : Status, trust : {"PENDING", "APPROVED", "REVOKED"},
         endpoint : BOOLEAN, token : BOOLEAN, capacity : Nat, active : Nat,
         beat : {"never", "fresh", "stale"}]

ASSUME NullAssumption == None \notin Rows

\* The column defaults: a row the legacy path creates is trusted.
NewRow == [exists |-> TRUE, status |-> "OFFLINE", trust |-> "APPROVED", endpoint |-> FALSE,
           token |-> FALSE, capacity |-> 0, active |-> 0, beat |-> "never"]

NoRow == [NewRow EXCEPT !.exists = FALSE]

\* recent: the latest raw capacities computed since the process started.
Agents == [up : BOOLEAN, reported : Nat \cup {None}, streak : Nat, recent : Seq(Nat)]

Started == [up |-> TRUE, reported |-> None, streak |-> 0, recent |-> <<>>]

\* replaced: an enrolment took the node's address away, or an approval gave
\* it one, after the session's row was loaded.
Placements == [status : {"none", "ACTIVE", "FAILED", "TERMINATED"},
               node : Nodes \cup {None}, at : Nodes \cup {None}, replaced : BOOLEAN]

Unplaced == [status |-> "none", node |-> None, at |-> None, replaced |-> FALSE]

Untouched == [n \in Nodes |-> None]

Points == {"idle", "admin", "enroll", "ask_default", "load", "ask", "bootstrap", "select",
           "write", "create"}

AdminOps == {"drain", "undrain", "maintenance", "unmaintenance", "approve", "revoke"}

\* A job keeps the rows it loaded (old) beside the objects it changed (new).
Handlers == [pc : Points, op : AdminOps \cup {"enroll", "none"}, node : Nodes \cup {None},
             sess : Sessions \cup {None}, todo : SUBSET Nodes,
             old : [Nodes -> Rows \cup {None}], new : [Nodes -> Rows \cup {None}]]

Idle == [pc |-> "idle", op |-> "none", node |-> None, sess |-> None, todo |-> {},
         old |-> Untouched, new |-> Untouched]

\* The operations that administrators and users use, the nodes they use them
\* on and whose heartbeats age, whether the listener with the poller runs,
\* the requests at a time, the sessions, the enrollment tokens, the free
\* slots a host may find beyond its reserve (below 0: it has eaten into the
\* reserve), the agents' OPENRBI_AGENT_CAPACITY, how often an agent goes down.
Uses == [ops : SUBSET (AdminOps \cup {"enroll", "create", "terminate"}),
         targets : SUBSET Nodes,
         polling : BOOLEAN,
         requests : SUBSET Requests,
         sessions : SUBSET Sessions,
         tokens : SUBSET Tokens,
         headroom : SUBSET Int,
         ceiling : Nat,
         downs : Nat]

StoreTypeOK ==
    /\ row \in [Nodes -> Rows]
    /\ lock \in [Nodes -> Jobs \cup {None}]
    /\ agent \in [Nodes -> Agents]
    /\ sess \in [Sessions -> Placements]
    /\ offered \subseteq drawn /\ drawn \subseteq Tokens
    /\ held \in [Nodes -> Tokens \cup {None}]
    /\ enrolments \in Nat
    /\ use \in Uses
    /\ job \in [Jobs -> Handlers]

-----------------------------------------------------------------------------
At(j, pc) == job[j].pc = pc

Free(j) == At(j, "idle")

Go(j, q) == job' = [job EXCEPT ![j] = q]

Finish(j) == Go(j, Idle)

Merge(cur, old, new) ==
    [c \in DOMAIN cur |-> IF new[c] = old[c] THEN cur[c] ELSE new[c]]

Loaded(j, n) == job[j].old[n]

Written(j) == {n \in Nodes : job[j].new[n] # None}

\* An INSERT of a host name that was committed meanwhile fails.
Conflicts(j) == \E n \in Written(j) : ~Loaded(j, n).exists /\ row[n].exists

Unlock(j) == lock' = [n \in Nodes |-> IF lock[n] = j THEN None ELSE lock[n]]

CommitRows(j) ==
    /\ row' = [n \in Nodes |-> IF n \in Written(j) /\ ~Conflicts(j)
                               THEN Merge(row[n], Loaded(j, n), job[j].new[n])
                               ELSE row[n]]
    /\ Unlock(j)

\* A one-row transaction flushes and commits as soon as the row is free.
CommitRow(j) ==
    /\ \A n \in Written(j) : lock[n] \in {None, j}
    /\ CommitRows(j)

-----------------------------------------------------------------------------
\* Variant: a revoked node's calls go to the default agent.
ConnectionOrDefault(n, r) == IF r.endpoint /\ r.token THEN n ELSE Default

\* connection_for_node: the agent that answers, None when the call fails for
\* want of a token.
ConnectionForNode(n, r) ==
    CASE r.endpoint /\ r.token  -> n
      [] r.endpoint /\ ~r.token -> None
      [] OTHER                  -> Default

Reached(n, r) ==
    LET a == ConnectionForNode(n, r) IN a # None /\ agent[a].up
=============================================================================
