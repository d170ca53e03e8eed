--------------------------- MODULE UserRevocation ---------------------------
(***************************************************************************)
(* POST /admin/users/{id}/sessions/revoke: all live sessions of a user are *)
(* terminated one after the other in one transaction, beside single        *)
(* requests, other batches and the reconciler.  Each flush locks a row     *)
(* until the batch commits, in the order the SELECT returned the rows, so  *)
(* that actors can wait for each other; PostgreSQL then makes one of them  *)
(* fail.  The sandboxes a failed batch has removed stay removed.           *)
(***************************************************************************)
EXTENDS OrphanReconciler, SequencesExt, Relation

CONSTANTS
    Batches,            \* the revocations administrators request
    RivalOps,           \* what single requests do
    Uses,               \* the actors that take part in a behaviour
    Isolated            \* sessions that are isolated at the start

ASSUME BatchAssumption ==
    /\ Batches \cap (Requests \cup {Reaper, Reconciler, Nobody}) = {}
    /\ RivalOps \subseteq Ops \ {"reap", "create"}
    /\ Uses \subseteq SUBSET (Batches \cup Requests \cup {Reconciler})
    /\ LateOps = {}
    /\ Isolated \subseteq Sessions
    /\ IsFiniteSet(Sessions)

VARIABLES
    batch,              \* each revocation's progress
    use                 \* who takes part; never changes

vars == <<storeVars, relayVars, requestVars, reconVars, batch, use>>

otherVars == <<relayVars, req, drawn, reconVars>>

LiveStatuses == {"QUEUED", "STARTING", "ACTIVE", "DISCONNECTED", "ISOLATING", "ISOLATED"}

\* todo: sessions still to terminate; over: what was written of the others.
NewBatch == [pc |-> "new", todo |-> <<>>, over |-> [s \in {} |-> "NONE"]]

Ended == [NewBatch EXCEPT !.pc = "ended"]

\* The user's sessions are running, some of them isolated.
Init ==
    /\ row = [s \in Sessions |->
                 [NoRow EXCEPT !.status = IF s \in Isolated THEN "ISOLATED" ELSE "ACTIVE"]]
    /\ box = [s \in Sessions |-> [run |-> "running", net |-> s \notin Isolated]]
    /\ lock = [s \in Sessions |-> Nobody]
    /\ late = [s \in Sessions |-> {}]
    /\ RelayInit
    /\ req = [h \in Handlers |-> Idle]
    /\ drawn = Sessions
    /\ polling = Sessions \ Isolated
    /\ ReconInit
    /\ batch = [b \in Batches |-> NewBatch]
    /\ use \in Uses

-----------------------------------------------------------------------------
RevokeLoads(b, u) ==
    /\ batch[b].pc = "new"
    /\ \E todo \in SetToSeqs({s \in Sessions : /\ Owner[s] = u
                                               /\ row[s].status \in LiveStatuses}) :
          /\ todo # <<>>
          /\ batch' = [batch EXCEPT ![b].pc = "flush", ![b].todo = todo]
    /\ UNCHANGED <<storeVars, polling, otherVars>>

Current(b) == Head(batch[b].todo)

\* terminate_session flushes TERMINATING and stops the poller.
RevokeFlushes(b) ==
    LET s == Current(b) IN
    /\ batch[b].pc = "flush"
    /\ CanWrite(s, b)
    /\ Lock(s, b)
    /\ polling' = polling \ {s}
    /\ batch' = [batch EXCEPT ![b].pc = "call"]
    /\ UNCHANGED <<row, box, late, otherVars>>

Proceeds(b, s, status) ==
    LET rest == Tail(batch[b].todo)
    IN  batch' = [batch EXCEPT ![b] = [pc   |-> IF rest = <<>> THEN "commit" ELSE "flush",
                                       todo |-> rest,
                                       over |-> [x \in DOMAIN @.over \cup {s} |->
                                                    IF x = s THEN status ELSE @.over[x]]]]

\* Variant: a session whose sandbox cannot be removed counts as terminated.
RevokeCallsHoping(b) ==
    LET s == Current(b) IN
    /\ batch[b].pc = "call"
    /\ AgentOk(s, "terminate") \/ AgentError(s, "terminate")
    /\ Proceeds(b, s, "TERMINATED")
    /\ UNCHANGED <<row, lock, polling, otherVars>>

\* Variant: the first failure ends the batch and leaves its transaction open.
RevokeGivesUp(b) ==
    LET s == Current(b) IN
    /\ batch[b].pc = "call"
    /\ \/ AgentOk(s, "terminate") /\ Proceeds(b, s, "TERMINATED")
       \/ AgentError(s, "terminate") /\ batch' = [batch EXCEPT ![b] = Ended]
    /\ UNCHANGED <<row, lock, polling, otherVars>>

\* A session that fails to terminate is skipped.
RevokeCalls(b) ==
    LET s == Current(b) IN
    /\ batch[b].pc = "call"
    /\ \/ AgentOk(s, "terminate") /\ Proceeds(b, s, "TERMINATED")
       \/ AgentError(s, "terminate") /\ Proceeds(b, s, "FAILED")
    /\ UNCHANGED <<row, lock, polling, otherVars>>

\* The locks of an actor's transaction end with it.
LocksWithout(a) == [s \in Sessions |-> IF lock[s] = a THEN Nobody ELSE lock[s]]

RevokeCommits(b) ==
    LET over == batch[b].over IN
    /\ batch[b].pc = "commit"
    /\ row' = [s \in Sessions |-> IF s \in DOMAIN over THEN SetStatus(row[s], over[s])
                                  ELSE row[s]]
    /\ lock' = LocksWithout(b)
    /\ batch' = [batch EXCEPT ![b].pc = "kick"]
    /\ UNCHANGED <<box, late, polling, otherVars>>

\* Sessions that were terminated lose their viewers.
RevokeKicks(b, s) ==
    LET over == batch[b].over IN
    /\ batch[b].pc = "kick"
    /\ s \in DOMAIN over
    /\ IF over[s] = "TERMINATED" THEN ForceDisconnect(s) ELSE UNCHANGED relayVars
    /\ batch' = [batch EXCEPT ![b] =
                    IF DOMAIN over = {s} THEN Ended
                    ELSE [@ EXCEPT !.over = [x \in DOMAIN over \ {s} |-> over[x]]]]
    /\ UNCHANGED <<storeVars, polling, req, drawn, reconVars>>

RevokeStep(b) ==
    \/ RevokeFlushes(b) \/ RevokeCalls(b) \/ RevokeCommits(b)
    \/ \E s \in Sessions : RevokeKicks(b, s)

-----------------------------------------------------------------------------
\* The rows an actor with locks is waiting to lock.
Wanted(a) ==
    CASE a = Reconciler -> recon.removed
      [] a # Reconciler /\ batch[a].pc = "flush" -> {Current(a)}
      [] OTHER -> {}

Waiters == Batches \cup {Reconciler}

Deadlocked(a) ==
    TransitiveClosure([x, y \in Waiters |-> x # y /\ \E s \in Wanted(x) : lock[s] = y],
                      Waiters)[a, a]

\* PostgreSQL fails one of the transactions that wait for each other.
BatchAborted(b) ==
    /\ Deadlocked(b)
    /\ lock' = LocksWithout(b)
    /\ batch' = [batch EXCEPT ![b] = Ended]
    /\ UNCHANGED <<row, box, late, polling, otherVars>>

\* _poll_loop logs the error; the counts and registry entries of the rows it
\* was failing are gone.
ReconAborted ==
    /\ Deadlocked(Reconciler)
    /\ lock' = LocksWithout(Reconciler)
    /\ recon' = ReconIdle
    /\ lostSeen' = [s \in Sessions |-> IF s \in recon.removed THEN 0 ELSE lostSeen[s]]
    /\ \E s \in recon.removed : DiscardStaleConnection(s)
    /\ UNCHANGED <<row, box, late, requestVars, orphanSeen, batch>>

DeadlockResolved == (\E b \in Batches : BatchAborted(b)) \/ ReconAborted

\* Timeouts and late agent effects play no part here, and a crash leaves
\* what an aborted batch leaves.
Disturbance ==
    /\ \E s \in Sessions : SandboxExits(s)
    /\ UNCHANGED <<relayVars, requestVars, reconVars, batch>>

RivalStep(h) == ServiceStep(h) /\ UNCHANGED <<reconVars, batch>>

RivalArrives(h) ==
    /\ \E s \in Sessions, op \in RivalOps : RequestBegins(h, op, s)
    /\ UNCHANGED <<reconVars, batch>>

Lists == Reconciler \in use /\ (ReconLists \/ ReconCannotList) /\ UNCHANGED <<batch>>

Reconciles == ReconStep /\ UNCHANGED <<batch>>

Act ==
    \/ Disturbance
    \/ \E b \in Batches \cap use : (\E u \in Users : RevokeLoads(b, u)) \/ RevokeStep(b)
    \/ \E h \in Requests \cap use : RivalArrives(h) \/ RivalStep(h)
    \/ Lists \/ Reconciles
    \/ DeadlockResolved

Next == Act /\ UNCHANGED use

Spec == Init /\ [][Next]_vars

\* As for single requests: awaits end and row locks are granted in order;
\* PostgreSQL looks for deadlocks; the agent is not down for good.
Fairness ==
    /\ \A b \in Batches : SF_vars(RevokeStep(b) /\ UNCHANGED use)
    /\ \A h \in Requests : SF_vars(RivalStep(h) /\ UNCHANGED use)
    /\ WF_vars(DeadlockResolved /\ UNCHANGED use)
    /\ SF_vars(Reconciles /\ UNCHANGED use)
    /\ SF_vars(Lists /\ ReconLists /\ UNCHANGED use)
    /\ \A s \in Sessions :
          SF_vars(ReconRemoves(s) /\ s \in recon'.removed /\ UNCHANGED <<batch, use>>)

FairSpec == Spec /\ Fairness

-----------------------------------------------------------------------------
\* A session reported as terminated has no container, also when another
\* batch, a rival or the reconciler wrote the row in between.
RevokedHasNoSandbox ==
    \A s \in Sessions : row[s].status = "TERMINATED" => ~Present(box[s])

\* No revocation waits forever: not for a row of another one that takes the
\* rows in another order, nor for one whose sandbox could not be removed.
RevocationsEnd == \A b \in Batches : batch[b].pc # "new" ~> batch[b].pc = "ended"

\* A batch that PostgreSQL failed leaves live rows whose sandboxes it
\* has removed; they do not stay live.
NoGhostRows ==
    \A s \in Sessions :
        (/\ Reconciler \in use
         /\ row[s].status \in {"ACTIVE", "DISCONNECTED", "ISOLATED"} /\ ~Running(box[s]))
            ~> row[s].status \notin {"ACTIVE", "DISCONNECTED", "ISOLATED"}
=============================================================================
