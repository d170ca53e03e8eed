-------------------------- MODULE OrphanReconciler --------------------------
(***************************************************************************)
(* The periodic comparison of a node's containers with the session rows    *)
(* (backend/app/core/orphan_reconciler.py).  One cycle lists the node's    *)
(* containers, terminates those that belong to no live row, fails the rows *)
(* that have no running container, and commits once.  Either happens only  *)
(* after GraceCycles cycles.                                               *)
(***************************************************************************)
EXTENDS SessionRequests

CONSTANTS GraceCycles

ASSUME GraceAssumption == GraceCycles \in Nat \ {0}

VARIABLES
    recon,              \* the cycle under way
    orphanSeen,         \* _candidates
    lostSeen            \* _lost_candidates

reconVars == <<recon, orphanSeen, lostSeen>>

\* managed and running are the listing; kill, lose and removed are what is left
\* to do; failed are the rows already set to FAILED in the cycle's transaction.
ReconIdle == [pc |-> "idle", reached |-> FALSE, managed |-> {}, running |-> {},
              kill |-> {}, lose |-> {}, removed |-> {}, failed |-> {}]

Cycles ==
    [pc : {"idle", "rows", "kill", "lost", "lose"}, reached : BOOLEAN,
     managed : SUBSET Sessions, running : SUBSET Sessions,
     kill : SUBSET Sessions, lose : SUBSET Sessions,
     removed : SUBSET Sessions, failed : SUBSET Sessions]

ReconTypeOK ==
    /\ recon \in Cycles
    /\ orphanSeen \in [Sessions -> 0..GraceCycles]
    /\ lostSeen \in [Sessions -> 0..GraceCycles]

ReconInit ==
    /\ recon = ReconIdle
    /\ orphanSeen = [s \in Sessions |-> 0]
    /\ lostSeen = [s \in Sessions |-> 0]

\* Variant: a FAILED row keeps its container.
KeepFailed == {"QUEUED", "STARTING", "ACTIVE", "DISCONNECTED", "ISOLATING",
               "ISOLATED", "TERMINATING", "FAILED"}

NotOrphanStatuses == {"QUEUED", "STARTING", "ACTIVE", "DISCONNECTED",
                      "ISOLATING", "ISOLATED", "TERMINATING"}

\* Variant: quarantined sessions are not watched.
WatchOpen == {"ACTIVE", "DISCONNECTED"}

LostCandidateStatuses == {"ACTIVE", "DISCONNECTED", "ISOLATING", "ISOLATED"}

\* Variant: the first sighting counts twice.
CountTwice(n) == IF n + 1 < GraceCycles THEN n + 2 ELSE GraceCycles

\* A counter that reached the grace stays there until it is used.
CountUp(n) == IF n < GraceCycles THEN n + 1 ELSE n

-----------------------------------------------------------------------------
\* The agent answers with its inventory.
ReconLists ==
    /\ recon.pc = "idle"
    /\ recon' = [ReconIdle EXCEPT
                   !.pc = "rows", !.reached = TRUE,
                   !.managed = {s \in Sessions : Present(box[s])},
                   !.running = {s \in Sessions : Running(box[s])}]
    /\ UNCHANGED <<storeVars, relayVars, requestVars, orphanSeen, lostSeen>>

\* The node cannot be reached: only rows are looked at, all of them lost.
ReconCannotList ==
    /\ recon.pc = "idle"
    /\ recon' = [ReconIdle EXCEPT !.pc = "lost"]
    /\ UNCHANGED <<storeVars, relayVars, requestVars, orphanSeen, lostSeen>>

\* Containers whose row is missing or over are counted; those over the grace
\* are to be terminated and lose their count.
ReconReadsRows ==
    LET orphans == {s \in recon.managed :
                      row[s].status \notin NotOrphanStatuses}
        kill == {s \in orphans : CountUp(orphanSeen[s]) >= GraceCycles}
    IN  /\ recon.pc = "rows"
        /\ orphanSeen' = [s \in Sessions |->
                            IF s \in kill THEN 0
                            ELSE IF s \in orphans THEN CountUp(orphanSeen[s])
                            ELSE IF s \in recon.managed THEN 0
                            ELSE orphanSeen[s]]
        /\ recon' = [recon EXCEPT !.pc = "kill", !.kill = kill, !.managed = {}]
        /\ UNCHANGED <<storeVars, relayVars, requestVars, lostSeen>>

ReconKills(s) ==
    /\ recon.pc = "kill"
    /\ s \in recon.kill
    /\ AgentOk(s, "terminate") \/ AgentError(s, "terminate")
    /\ recon' = [recon EXCEPT !.kill = @ \ {s}]
    /\ UNCHANGED <<row, lock, relayVars, requestVars, orphanSeen, lostSeen>>

ReconKillsDone ==
    /\ recon.pc = "kill"
    /\ recon.kill = {}
    /\ recon' = [recon EXCEPT !.pc = "lost"]
    /\ UNCHANGED <<storeVars, relayVars, requestVars, orphanSeen, lostSeen>>

\* Rows that should have a running container in the listing, but do not.
ReconFindsLost ==
    LET claimed == {s \in Sessions : row[s].status \in LostCandidateStatuses}
        lost == IF recon.reached THEN claimed \ recon.running ELSE claimed
        seen == [s \in Sessions |->
                    IF s \in lost THEN CountUp(lostSeen[s])
                    ELSE IF s \in claimed THEN 0
                    ELSE lostSeen[s]]
    IN  /\ recon.pc = "lost"
        /\ lostSeen' = seen
        /\ recon' = [recon EXCEPT !.pc = "lose", !.running = {},
                       !.lose = {s \in lost : seen[s] >= GraceCycles}]
        /\ UNCHANGED <<storeVars, relayVars, requestVars, orphanSeen>>

\* Remove what is left of the container of a lost session.  If that fails,
\* the count is kept and a later cycle tries again.  The next lost session
\* waits until this one is FAILED.
ReconRemoves(s) ==
    /\ recon.pc = "lose"
    /\ s \in recon.lose
    /\ recon.removed = {}
    /\ \/ /\ IF recon.reached THEN AgentOk(s, "terminate")
                              ELSE UNCHANGED <<box, late>>
          /\ recon' = [recon EXCEPT !.lose = @ \ {s}, !.removed = @ \cup {s}]
       \/ /\ recon.reached
          /\ AgentError(s, "terminate")
          /\ recon' = [recon EXCEPT !.lose = @ \ {s}]
    /\ UNCHANGED <<row, lock, relayVars, requestVars, orphanSeen, lostSeen>>

\* Set the row FAILED in the cycle's transaction.
ReconFails(s) ==
    /\ recon.pc = "lose"
    /\ s \in recon.removed
    /\ CanWrite(s, Reconciler)
    /\ Lock(s, Reconciler)
    /\ DiscardStaleConnection(s)
    /\ lostSeen' = [lostSeen EXCEPT ![s] = 0]
    /\ recon' = [recon EXCEPT !.removed = @ \ {s}, !.failed = @ \cup {s}]
    /\ UNCHANGED <<row, box, late, requestVars, orphanSeen>>

\* The cycle's one commit.
ReconCommits ==
    /\ recon.pc = "lose"
    /\ recon.lose = {} /\ recon.removed = {}
    /\ row' = [s \in Sessions |-> IF s \in recon.failed
                                  THEN SetStatus(row[s], "FAILED") ELSE row[s]]
    /\ lock' = [s \in Sessions |-> IF s \in recon.failed THEN Nobody ELSE lock[s]]
    /\ recon' = ReconIdle
    /\ UNCHANGED <<box, late, relayVars, requestVars, orphanSeen, lostSeen>>

\* The rest of a cycle, once the node was asked for its inventory.
ReconStep ==
    \/ ReconReadsRows
    \/ \E s \in Sessions : ReconKills(s) \/ ReconRemoves(s) \/ ReconFails(s)
    \/ ReconKillsDone
    \/ ReconFindsLost
    \/ ReconCommits
=============================================================================
