------------------------------ MODULE NodeTrust ------------------------------
(***************************************************************************)
(* The fleet: heartbeats, administration, enrolment and scheduling over    *)
(* the same rows, with agents that go down, and what the fleet promises.   *)
(***************************************************************************)
EXTENDS NodeScheduling

CONSTANT Starts     \* the fleets to start from: rows, agents that run, use

VARIABLE downs      \* how often an agent has gone down

vars == <<nodeVars, downs, use>>

ASSUME StartAssumption ==
    \A st \in Starts :
        /\ st.rows \in [Nodes -> Rows]
        /\ \A n \in Nodes : st.rows[n].status # "DEGRADED"    \* nothing writes it
        /\ st.up \subseteq Nodes
        /\ st.use \in Uses

InitFrom(st) ==
    /\ row = st.rows
    /\ lock = Untouched
    /\ agent = [n \in Nodes |-> [Started EXCEPT !.up = n \in st.up]]
    /\ job = [j \in Jobs |-> Idle]
    /\ sess = [s \in Sessions |-> Unplaced]
    /\ offered = {} /\ drawn = {}
    /\ held = Untouched
    /\ enrolments = 0
    /\ downs = 0
    /\ use = st.use

Init == \E st \in Starts : InitFrom(st)

\* The steps of what has begun, and what keeps happening by itself.
RequestStep(j) == AdminStep(j) \/ CreateStep(j)

Proceed ==
    \/ PollTick
    \/ \E n \in Nodes : PollStep(n)
    \/ \E j \in Requests : RequestStep(j)
    \/ \E n \in Nodes : HeartbeatAges(n)

Environment ==
    \/ \E j \in use.requests : AdminBegins(j)
    \/ \E j \in use.requests, s \in use.sessions : SelectBegin(j, s)
    \/ \E s \in Sessions : TerminateSession(s)
    \/ \E n \in Nodes, t \in use.tokens : CreateToken(n, t)
    \/ \E t \in Tokens : TokenExpires(t)
    \/ \E n \in Nodes : AgentStarts(n)

Next ==
    \/ (Proceed \/ Environment) /\ UNCHANGED <<downs, use>>
    \/ /\ \E n \in Nodes : AgentStops(n)
       /\ downs < use.downs
       /\ downs' = downs + 1
       /\ UNCHANGED use

\* The poll loop runs for good, a request that has begun goes on, and time
\* passes.  Nobody is obliged to begin anything, and no agent to come back.
Fairness ==
    /\ WF_vars(PollTick /\ UNCHANGED <<downs, use>>)
    /\ \A n \in Nodes : WF_vars(PollStep(n) /\ UNCHANGED <<downs, use>>)
    /\ \A j \in Requests : WF_vars(RequestStep(j) /\ UNCHANGED <<downs, use>>)
    /\ \A n \in Nodes : WF_vars(HeartbeatAges(n) /\ UNCHANGED <<downs, use>>)

Spec == Init /\ [][Next]_vars /\ Fairness

-----------------------------------------------------------------------------
\* Types: rows, locks, agents, placements, tokens and jobs.
TypeOK == StoreTypeOK /\ downs \in Nat

\* A drain or a maintenance ends only by an administrator's request, the
\* revocation or a new enrolment of the node, never by a heartbeat, however
\* late: a heartbeat that loaded an ONLINE row does not write its status.
\* One that loaded an OFFLINE row before the hold still writes ONLINE.
HoldKept ==
    [][\A n \in Nodes :
          row[n].status \in AdminHold /\ row'[n].status # row[n].status =>
              \E j \in Jobs : /\ job[j].new[n] # None
                              /\ job'[j] = Idle
                              /\ \/ job[j].op \in AdminOps \cup {"enroll"}
                                 \/ Loaded(j, n).status = "OFFLINE"]_vars

\* A session recorded as TERMINATED has no container left, even when its
\* node was revoked, drained or lost in between; unless that node has lost
\* or got its own address since, when calls for it go to another agent.
TerminatedIsGone ==
    \A s \in Sessions :
        sess[s].status = "TERMINATED" /\ ~sess[s].replaced => sess[s].at = None

\* With a configured ceiling a host runs at most that many sessions, plus
\* the creations that had already asked its agent when the last one started.
CapacityOvershoot ==
    \A n \in Nodes :
        Cardinality(RunningOn(n)) <= use.ceiling + Cardinality(Requests) - 1

\* One enrollment token enrols one host once: an agent whose answer was lost
\* and that posts again does not bring a node back that was revoked since.
EnrolledOnce == enrolments <= Cardinality(drawn)

\* A reported capacity rises only when the readings before it, as many as
\* capacity_recovery_polls, were all above what was reported.
RiseSustained ==
    [][\A n \in Nodes :
          LET old == agent[n].reported
              new == agent'[n].reported
              recent == agent'[n].recent
          IN old # None /\ new # None /\ new > old =>
                 /\ Len(recent) = RecoveryPolls
                 /\ \A i \in 1 .. RecoveryPolls : recent[i] > old]_vars

\* An approved node that stays reachable and free of holds is ONLINE again
\* and again: neither stale writes nor a stuck tick keep it off for good.
Ready(n) ==
    /\ row[n].exists /\ row[n].trust = "APPROVED"
    /\ ConnectionForNode(n, row[n]) = n
    /\ agent[n].up
    /\ row[n].status \notin AdminHold

ComesOnline ==
    \A n \in Nodes : use.polling /\ <>[]Ready(n) => []<>(row[n].status = "ONLINE")

\* A node whose agent stays down is shown as OFFLINE or in MAINTENANCE,
\* whatever its status column says (compute_worker_health looks at the age
\* of the heartbeat first).
Dark(n) == row[n].exists /\ ConnectionForNode(n, row[n]) = n /\ ~agent[n].up

ShownOffline ==
    \A n \in Nodes :
        <>[](Dark(n) /\ n \in use.targets) =>
            <>[](\A loaded \in BOOLEAN :
                    ComputeWorkerHealth(row[n], loaded) \in {"OFFLINE", "MAINTENANCE"})
=============================================================================
