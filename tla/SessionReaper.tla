---------------------------- MODULE SessionReaper ----------------------------
(***************************************************************************)
(* The unattended-session timeout and the recovery of stuck sessions       *)
(* (backend/app/core/session_reaper.py).  One task runs both, one session  *)
(* at a time: it selects a candidate, claims it with a conditional UPDATE  *)
(* that it commits, loads the row again and runs terminate_session.        *)
(***************************************************************************)
EXTENDS SessionRequests

\* Variant: only never-opened sessions time out.
UnattendedUnopened(r) == r.idle /\ r.status = "ACTIVE" /\ r.viewer = Nobody

Unattended(r) ==
    /\ r.idle
    /\ \/ r.status = "DISCONNECTED"
       \/ r.status = "ACTIVE" /\ r.viewer = Nobody

\* Variant: TERMINATING is not recovered.
StuckStarting(r) == r.status = "STARTING" /\ r.aged

Stuck(r) == r.status \in {"STARTING", "TERMINATING"} /\ r.aged

Selects(op, s) ==
    /\ At(Reaper, "idle")
    /\ req' = [req EXCEPT ![Reaper] = [Idle EXCEPT !.op = op, !.pc = "claim",
                                         !.s = s, !.seen = row[s].status]]
    /\ UNCHANGED <<storeVars, relayVars, drawn, polling>>

ReapSelects(s) == Unattended(row[s]) /\ Selects("reap", s)

RecoverSelects(s) == Stuck(row[s]) /\ Selects("recover", s)

\* The claim matches only a row still in the status the SELECT saw and still
\* unattended (still stuck).  A reap commits TERMINATING; a recovery only
\* refreshes updated_at.
ReaperClaims ==
    LET q == req[Reaper]
        r == row[q.s]
        matches == /\ r.status = q.seen
                   /\ IF q.op = "reap" THEN Unattended(r) ELSE Stuck(r)
    IN  /\ At(Reaper, "claim")
        /\ IF matches
           THEN /\ Unlocked(q.s)
                /\ Commit(q.s, IF q.op = "reap" THEN SetStatus(r, "TERMINATING")
                                                ELSE Touch(r))
                /\ Step(Reaper, "read")
           ELSE Done(Reaper) /\ UNCHANGED <<row, lock>>
        /\ UNCHANGED <<box, late, relayVars, drawn, polling>>

\* db.get(populate_existing=True), then terminate_session.
ReaperLoads ==
    /\ At(Reaper, "read")
    /\ Load(Reaper, "reap", req[Reaper].s)
    /\ UNCHANGED <<storeVars, relayVars, drawn, polling>>
=============================================================================
