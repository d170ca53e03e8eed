---------------------------- MODULE NodeHeartbeat ----------------------------
(***************************************************************************)
(* How a row learns of its host: the agent's self-report with the smoothed *)
(* capacity, what a heartbeat writes, the poller, and the health label.    *)
(***************************************************************************)
EXTENDS NodeStore

RunningOn(n) == {s \in Sessions : sess[s].at = n}

Least(S) == CHOOSE x \in S : \A y \in S : x <= y

\* Free RAM and CPU are measured beside the running sandboxes, which count
\* again towards the total; the configured ceiling caps it.
ComputeCapacity(ram, cpu, active) ==
    LET slots(free) == IF free < 0 THEN 0 ELSE free IN
    Least({slots(ram) + active, slots(cpu) + active, use.ceiling})

\* Variant: an interrupted recovery keeps its streak.
ApplyKeepingStreak(g, raw) ==
    IF g.reported = None \/ raw <= g.reported
    THEN [g EXCEPT !.reported = raw]
    ELSE IF g.streak + 1 >= RecoveryPolls
    THEN [g EXCEPT !.reported = raw, !.streak = 0]
    ELSE [g EXCEPT !.streak = @ + 1]

\* _CapacityHysteresis.apply: a drop counts at once, a rise after
\* RecoveryPolls readings in a row above what is reported.
ApplyHysteresis(g, raw) ==
    IF g.reported = None \/ raw <= g.reported
    THEN [g EXCEPT !.reported = raw, !.streak = 0]
    ELSE IF g.streak + 1 >= RecoveryPolls
    THEN [g EXCEPT !.reported = raw, !.streak = 0]
    ELSE [g EXCEPT !.streak = @ + 1]

Remember(g, raw) ==
    LET seen == Append(g.recent, raw) IN
    [g EXCEPT !.recent = IF Len(seen) > RecoveryPolls THEN Tail(seen) ELSE seen]

\* GET /v1/nodes/self of node n at load (ram, cpu).
SelfReport(n, ram, cpu) ==
    LET active == Cardinality(RunningOn(n))
        raw == ComputeCapacity(ram, cpu, active)
    IN Remember(ApplyHysteresis(agent[n], raw), raw)

\* Variant: a heartbeat always takes over the agent's status.
HeartbeatStatus(r) == "ONLINE"

\* The agent always reports ONLINE; a drain or a maintenance stays.
NextStatus(r) == IF r.status \in AdminHold THEN r.status ELSE "ONLINE"

ApplyNodeStatus(r, report, active) ==
    [r EXCEPT !.exists = TRUE, !.status = NextStatus(r), !.capacity = report.reported,
              !.active = active, !.beat = "fresh"]

\* get_node_status of agent a for the row of node n as job j holds it.  The
\* heartbeat's time is always a new one, so that column is always written.
Report(j, a, n, old) ==
    \E ram, cpu \in use.headroom :
        LET report == SelfReport(a, ram, cpu) IN
        /\ agent' = [agent EXCEPT ![a] = report]
        /\ Go(j, [job[j] EXCEPT
                     !.pc = "write", !.node = n, !.old[n] = [old EXCEPT !.beat = "never"],
                     !.new[n] = ApplyNodeStatus(old, report, Cardinality(RunningOn(a)))])

-----------------------------------------------------------------------------
\* The poller.  A tick starts once every task of the last one has ended.
\* Variant: only nodes that are online are asked.
PollOnline == {n \in Nodes : row[n].exists /\ row[n].trust = "APPROVED"
                             /\ row[n].endpoint /\ row[n].status = "ONLINE"}

PollList == {n \in Nodes : row[n].exists /\ row[n].trust = "APPROVED" /\ row[n].endpoint}

PollTick ==
    /\ use.polling
    /\ \A n \in Nodes : Free(n)
    /\ job' = [j \in Jobs |->
                  IF j = Default THEN [Idle EXCEPT !.pc = "ask_default"]
                  ELSE IF j \in PollList THEN [Idle EXCEPT !.pc = "load", !.node = j]
                  ELSE job[j]]
    /\ UNCHANGED <<row, lock, agent, sess, offered, drawn, held, enrolments>>

\* _poll_enrolled_node looks at the row again before it asks.
PollLoad(n) ==
    /\ At(n, "load")
    /\ IF n \in PollList THEN Go(n, [job[n] EXCEPT !.pc = "ask", !.old[n] = row[n]])
                         ELSE Finish(n)
    /\ UNCHANGED <<row, lock, agent, sess, offered, drawn, held, enrolments>>

PollAsk(n) ==
    LET old == Loaded(n, n) IN
    /\ At(n, "ask")
    /\ \/ Reached(n, old) /\ Report(n, ConnectionForNode(n, old), n, old)
       \/ ~Reached(n, old) /\ Finish(n) /\ UNCHANGED agent
    /\ UNCHANGED <<row, lock, sess, offered, drawn, held, enrolments>>

\* refresh_node_from_agent: the row is looked up under the name the answer gives.
PollAskDefault(n) ==
    /\ At(n, "ask_default")
    /\ \/ agent[Default].up /\ Report(n, Default, Default, row[Default])
       \/ ~agent[Default].up /\ Finish(n) /\ UNCHANGED agent
    /\ UNCHANGED <<row, lock, sess, offered, drawn, held, enrolments>>

PollWrite(n) ==
    /\ At(n, "write")
    /\ CommitRow(n)
    /\ Finish(n)
    /\ UNCHANGED <<agent, sess, offered, drawn, held, enrolments>>

PollStep(n) == PollLoad(n) \/ PollAsk(n) \/ PollAskDefault(n) \/ PollWrite(n)

-----------------------------------------------------------------------------
\* Time passes without a heartbeat.
HeartbeatAges(n) ==
    /\ n \in use.targets
    /\ row[n].beat = "fresh"
    /\ row' = [row EXCEPT ![n].beat = "stale"]
    /\ UNCHANGED <<lock, agent, job, sess, offered, drawn, held, enrolments>>

\* Variant: the administrator's hold is looked at before the heartbeat.
HealthHoldFirst(r, loaded) ==
    CASE r.status \in AdminHold -> r.status
      [] r.status \notin AdminHold /\ r.beat # "fresh" -> "OFFLINE"
      [] OTHER -> IF r.status = "DEGRADED" \/ loaded THEN "DEGRADED" ELSE "HEALTHY"

\* compute_worker_health; loaded: CPU or RAM use is at its threshold.
ComputeWorkerHealth(r, loaded) ==
    CASE r.status = "MAINTENANCE" -> "MAINTENANCE"
      [] r.status # "MAINTENANCE" /\ r.beat # "fresh" -> "OFFLINE"
      [] r.status = "DRAINING" /\ r.beat = "fresh" -> "DRAINING"
      [] OTHER -> IF r.status = "DEGRADED" \/ loaded THEN "DEGRADED" ELSE "HEALTHY"

\* An agent stops, and starts with nothing but its containers.
AgentStops(n) ==
    /\ agent[n].up
    /\ agent' = [agent EXCEPT ![n].up = FALSE]
    /\ UNCHANGED <<row, lock, job, sess, offered, drawn, held, enrolments>>

AgentStarts(n) ==
    /\ ~agent[n].up
    /\ n \in use.targets
    /\ agent' = [agent EXCEPT ![n] = Started]
    /\ UNCHANGED <<row, lock, job, sess, offered, drawn, held, enrolments>>
=============================================================================
