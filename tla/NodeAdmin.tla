------------------------------ MODULE NodeAdmin ------------------------------
(***************************************************************************)
(* /admin/nodes: enrolling, approving, revoking, draining and maintaining  *)
(* nodes, and the agent's own enrolment loop.  Each request loads the row, *)
(* decides on what it loaded, and writes once the row is free.             *)
(***************************************************************************)
EXTENDS NodeHeartbeat

\* What each operation refuses or has nothing to do for.
Applies(op, r) ==
    /\ r.exists
    /\ CASE op = "drain"         -> r.status \notin AdminHold
         [] op = "undrain"       -> r.status = "DRAINING"
         [] op = "maintenance"   -> r.status # "MAINTENANCE"
         [] op = "unmaintenance" -> r.status = "MAINTENANCE"
         [] op = "approve"       -> r.trust = "PENDING" \/ (r.trust = "APPROVED" /\ ~r.endpoint)
         [] op = "revoke"        -> r.trust # "REVOKED"

Changed(op, r) ==
    CASE op = "drain"         -> [r EXCEPT !.status = "DRAINING"]
      [] op = "maintenance"   -> [r EXCEPT !.status = "MAINTENANCE"]
      [] op \in {"undrain", "unmaintenance"} -> [r EXCEPT !.status = "ONLINE"]
      [] op = "approve"       -> [r EXCEPT !.trust = "APPROVED", !.endpoint = TRUE]
      [] op = "revoke"        -> [r EXCEPT !.trust = "REVOKED", !.status = "OFFLINE",
                                           !.token = FALSE]

AdminLoad(j, n, op) ==
    /\ op \in use.ops
    /\ n \in use.targets
    /\ Free(j)
    /\ Applies(op, row[n])
    /\ Go(j, [Idle EXCEPT !.pc = "admin", !.op = op, !.node = n, !.old[n] = row[n],
                          !.new[n] = Changed(op, row[n])])
    /\ UNCHANGED <<row, lock, agent, sess, offered, drawn, held, enrolments>>

\* Whether a commit gave the session's node an address or took it away.
Readdressed(s) == \E n \in Nodes : sess[s].node = n /\ row'[n].endpoint # row[n].endpoint

NoteReplaced == sess' = [s \in Sessions |-> [sess[s] EXCEPT !.replaced = @ \/ Readdressed(s)]]

AdminCommit(j) ==
    /\ At(j, "admin")
    /\ CommitRow(j)
    /\ NoteReplaced
    /\ Finish(j)
    /\ UNCHANGED <<agent, offered, drawn, held, enrolments>>

-----------------------------------------------------------------------------
\* An administrator generates a token and the operator starts the agent of
\* node n with it; the token is gone after an hour.
CreateToken(n, t) ==
    /\ "enroll" \in use.ops
    /\ n \in use.targets
    /\ t \notin drawn
    /\ held[n] = None
    /\ drawn' = drawn \cup {t}
    /\ offered' = offered \cup {t}
    /\ held' = [held EXCEPT ![n] = t]
    /\ UNCHANGED <<row, lock, agent, job, sess, enrolments>>

TokenExpires(t) ==
    /\ t \in offered
    /\ offered' = offered \ {t}
    /\ UNCHANGED <<row, lock, agent, job, sess, drawn, held, enrolments>>

\* Variant: the token is read and left there.
ReadToken(t) == offered' = offered

\* GETDEL.
ConsumeToken(t) == offered' = offered \ {t}

\* POST /admin/nodes/enroll from the agent's loop.  The agent posts again
\* when the last call brought no answer, even while that one still runs; a
\* refusal ends the loop.
EnrollPost(j, n) ==
    LET t == held[n]
        taken == row[n].exists /\ row[n].trust # "REVOKED"
        refused == t \notin offered \/ taken
        fresh == IF row[n].exists THEN row[n] ELSE NewRow
    IN
    /\ Free(j)
    /\ agent[n].up
    /\ t # None
    /\ ConsumeToken(t)
    /\ \/ /\ refused
          /\ held' = [held EXCEPT ![n] = None]
          /\ UNCHANGED job
       \/ /\ ~refused
          /\ Go(j, [Idle EXCEPT !.pc = "enroll", !.op = "enroll", !.node = n, !.old[n] = row[n],
                       !.new[n] = [fresh EXCEPT !.status = "OFFLINE", !.trust = "PENDING",
                                                !.endpoint = FALSE, !.token = TRUE]])
          /\ UNCHANGED held
    /\ UNCHANGED <<row, lock, agent, sess, drawn, enrolments>>

\* enroll_node commits; the answer may be lost.
EnrollCommit(j, answered) ==
    LET n == job[j].node IN
    /\ At(j, "enroll")
    /\ CommitRow(j)
    /\ enrolments' = enrolments + IF Conflicts(j) THEN 0 ELSE 1
    /\ held' = [held EXCEPT ![n] = IF answered THEN None ELSE @]
    /\ NoteReplaced
    /\ Finish(j)
    /\ UNCHANGED <<agent, offered, drawn>>

AdminStep(j) == AdminCommit(j) \/ \E answered \in BOOLEAN : EnrollCommit(j, answered)

AdminBegins(j) ==
    \/ \E n \in Nodes, op \in AdminOps : AdminLoad(j, n, op)
    \/ \E n \in Nodes : EnrollPost(j, n)
=============================================================================
