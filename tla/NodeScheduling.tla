--------------------------- MODULE NodeScheduling ---------------------------
(***************************************************************************)
(* Which node a new session gets, and to which agent later calls about it  *)
(* go.  create_session is one transaction: the heartbeats select_node      *)
(* writes keep their rows locked until the sandbox has been started.       *)
(***************************************************************************)
EXTENDS NodeAdmin

Trusted == {n \in Nodes : row[n].exists /\ row[n].trust = "APPROVED"}

\* Without an approved row the default agent is asked and its row, whatever
\* that says, taken for the only candidate.
SelectBegin(j, s) ==
    /\ "create" \in use.ops
    /\ Free(j)
    /\ sess[s].status = "none"
    /\ \A k \in Jobs : job[k].sess # s
    /\ Go(j, [Idle EXCEPT !.pc = IF Trusted = {} THEN "bootstrap" ELSE "select", !.sess = s,
                          !.todo = Trusted,
                          !.old = [n \in Nodes |-> IF n \in Trusted THEN row[n] ELSE None]])
    /\ UNCHANGED <<row, lock, agent, sess, offered, drawn, held, enrolments>>

\* refresh_enrolled_node of one of the nodes, in the order the rows came.
SelectAsk(j, n) ==
    LET old == Loaded(j, n) IN
    /\ At(j, "select")
    /\ n \in job[j].todo
    /\ \/ Reached(n, old) /\ Report(j, ConnectionForNode(n, old), n, old)
       \/ /\ ~Reached(n, old)
          /\ Go(j, [job[j] EXCEPT !.todo = @ \ {n}])
          /\ UNCHANGED agent
    /\ UNCHANGED <<row, lock, sess, offered, drawn, held, enrolments>>

SelectAskDefault(j) ==
    /\ At(j, "bootstrap")
    /\ \/ agent[Default].up /\ Report(j, Default, Default, row[Default])
       \/ ~agent[Default].up /\ Finish(j) /\ UNCHANGED agent
    /\ UNCHANGED <<row, lock, sess, offered, drawn, held, enrolments>>

\* The flush waits for the row, and fails when its name is taken by now.
SelectFlush(j) ==
    LET n == job[j].node IN
    /\ j \in Requests
    /\ At(j, "write")
    /\ lock[n] = None
    /\ \/ /\ ~Conflicts(j)
          /\ lock' = [lock EXCEPT ![n] = j]
          /\ Go(j, [job[j] EXCEPT !.pc = "select", !.todo = @ \ {n}])
       \/ /\ Conflicts(j)
          /\ Unlock(j)
          /\ Finish(j)
    /\ UNCHANGED <<row, agent, sess, offered, drawn, held, enrolments>>

\* Two creations that wait for each other's rows: the database ends one.
WaitsFor(j, k) == At(j, "write") /\ lock[job[j].node] = k /\ k # j

DeadlockAbort(j) ==
    /\ j \in Requests
    /\ \E k \in Requests : WaitsFor(j, k) /\ WaitsFor(k, j)
    /\ Unlock(j)
    /\ Finish(j)
    /\ UNCHANGED <<row, agent, sess, offered, drawn, held, enrolments>>

\* Variant: a node that is exactly full still counts.
HasRoomOrFull(r) == r.active <= r.capacity

HasRoom(r) == r.active < r.capacity

Candidates(j) ==
    {n \in Written(j) : job[j].new[n].status = "ONLINE" /\ HasRoom(job[j].new[n])}

\* The most free slots; a tie goes to the lower host name, whichever it is.
Room(j, n) == job[j].new[n].capacity - job[j].new[n].active

Best(j) == CHOOSE n \in Candidates(j) : \A m \in Candidates(j) : Room(j, n) >= Room(j, m)

SelectPick(j) ==
    /\ At(j, "select")
    /\ job[j].todo = {}
    /\ \/ /\ Candidates(j) # {}
          /\ Go(j, [job[j] EXCEPT !.pc = "create", !.node = Best(j)])
          /\ UNCHANGED lock
       \/ /\ Candidates(j) = {}
          /\ Finish(j)
          /\ Unlock(j)
    /\ UNCHANGED <<row, agent, sess, offered, drawn, held, enrolments>>

\* Create, start and wait for the display: the session is ACTIVE or FAILED,
\* and the heartbeats are committed with it.  A failed one is cleaned up, or
\* left to the orphan reconciler, which is not part of this module.
PlaceSession(j, ok) ==
    LET n == job[j].node
        a == ConnectionForNode(n, job[j].new[n])
        runs == ok /\ Reached(n, job[j].new[n])
    IN
    /\ At(j, "create")
    /\ sess' = [sess EXCEPT ![job[j].sess] =
                   [status |-> IF runs THEN "ACTIVE" ELSE "FAILED", node |-> n,
                    at |-> IF runs THEN a ELSE None,
                    replaced |-> Loaded(j, n).endpoint # row[n].endpoint]]
    /\ CommitRows(j)
    /\ Finish(j)
    /\ UNCHANGED <<agent, offered, drawn, held, enrolments>>

\* terminate_session; the agent has nothing to do for a session it does not
\* run and reports success.
TerminateSession(s) ==
    LET n == sess[s].node
        a == ConnectionForNode(n, row[n])
        answered == Reached(n, row[n])
    IN
    /\ "terminate" \in use.ops
    /\ sess[s].status \in {"ACTIVE", "FAILED"}
    /\ sess' = [sess EXCEPT ![s].status = IF answered THEN "TERMINATED" ELSE "FAILED",
                            ![s].at = IF answered /\ @ = a THEN None ELSE @]
    /\ UNCHANGED <<row, lock, agent, job, offered, drawn, held, enrolments>>

CreateStep(j) ==
    \/ \E n \in Nodes : SelectAsk(j, n)
    \/ SelectAskDefault(j)
    \/ SelectFlush(j)
    \/ DeadlockAbort(j)
    \/ SelectPick(j)
    \/ \E ok \in BOOLEAN : PlaceSession(j, ok)
=============================================================================
