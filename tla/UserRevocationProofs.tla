------------------------ MODULE UserRevocationProofs ------------------------
(***************************************************************************)
(* A session reported as terminated has no container, for any number of    *)
(* sessions, revocations and rival requests, in whatever order they lock   *)
(* the rows and whichever of them the database fails.                      *)
(***************************************************************************)
EXTENDS UserRevocation, FiniteSetTheorems, TLAPS

USE DEF storeVars, relayVars, requestVars, reconVars

\* What a batch has written of the sessions it is through with.
Outcomes == UNION {[D -> {"TERMINATED", "FAILED"}] : D \in SUBSET Sessions}

BatchStates ==
    [pc : {"new", "flush", "call", "commit", "kick", "ended"},
     todo : Seq(Sessions), over : Outcomes]

\* A batch that has sessions to terminate is at one of them.
BatchFits(q) == q.pc \in {"flush", "call"} => q.todo # <<>>

\* A rival acts on a session, and never creates one.
RivalFits(q) ==
    q.pc # "idle" => /\ q.s \in Sessions
                     /\ q.op \in {"end", "kill", "isolate", "restore", "disconnect"}
                     /\ q.pc \in {"flush", "call"} => q.op # "disconnect"

TypeInv ==
    /\ row \in [Sessions -> Rows]
    /\ box \in [Sessions -> Containers]
    /\ req \in [Handlers -> HandlerStates]
    /\ batch \in [Batches -> BatchStates]
    /\ \A b \in Batches : BatchFits(batch[b])
    /\ \A h \in Requests : RivalFits(req[h])

\* Whoever is going to write TERMINATED has the agent's answer that the
\* container is gone, and nobody creates it again.
GoneInv ==
    /\ RevokedHasNoSandbox
    /\ \A h \in Requests :
          At(h, "commit") /\ req[h].out = "TERMINATED" => ~Present(box[req[h].s])
    /\ \A b \in Batches : \A s \in DOMAIN batch[b].over :
          batch[b].over[s] = "TERMINATED" => ~Present(box[s])

-----------------------------------------------------------------------------
LEMMA OutcomesGrow ==
    ASSUME NEW f \in Outcomes, NEW s \in Sessions, NEW status \in {"TERMINATED", "FAILED"}
    PROVE  [x \in DOMAIN f \cup {s} |-> IF x = s THEN status ELSE f[x]] \in Outcomes
<1>1. PICK D \in SUBSET Sessions : f \in [D -> {"TERMINATED", "FAILED"}]
  BY DEF Outcomes
<1>2. [x \in DOMAIN f \cup {s} |-> IF x = s THEN status ELSE f[x]]
         \in [D \cup {s} -> {"TERMINATED", "FAILED"}]
  BY <1>1
<1>3. D \cup {s} \in SUBSET Sessions
  BY <1>1
<1> QED BY <1>2, <1>3 DEF Outcomes

LEMMA OutcomesShrink ==
    ASSUME NEW f \in Outcomes, NEW s
    PROVE  [x \in DOMAIN f \ {s} |-> f[x]] \in Outcomes
<1>1. PICK D \in SUBSET Sessions : f \in [D -> {"TERMINATED", "FAILED"}]
  BY DEF Outcomes
<1>2. [x \in DOMAIN f \ {s} |-> f[x]] \in [D \ {s} -> {"TERMINATED", "FAILED"}]
  BY <1>1
<1>3. D \ {s} \in SUBSET Sessions
  BY <1>1
<1> QED BY <1>2, <1>3 DEF Outcomes

LEMMA NewBatchType == NewBatch \in BatchStates /\ Ended \in BatchStates
<1>1. [s \in {} |-> "NONE"] \in [{} -> {"TERMINATED", "FAILED"}]
  OBVIOUS
<1>2. [s \in {} |-> "NONE"] \in Outcomes
  BY <1>1 DEF Outcomes
<1>3. <<>> \in Seq(Sessions)
  OBVIOUS
<1> QED BY <1>2, <1>3 DEF NewBatch, Ended, BatchStates

\* The statuses a batch has not written stay, the one it writes is added.
LEMMA Terminates ==
    ASSUME TypeInv, NEW b \in Batches, NEW s \in Sessions, batch[b].todo # <<>>,
           NEW status \in {"TERMINATED", "FAILED"}, Proceeds(b, s, status)
    PROVE  /\ batch' \in [Batches -> BatchStates]
           /\ \A c \in Batches : BatchFits(batch'[c])
           /\ \A c \in Batches : \A x \in DOMAIN batch'[c].over :
                 \/ x \in DOMAIN batch[c].over /\ batch'[c].over[x] = batch[c].over[x]
                 \/ x = s /\ batch'[c].over[x] = status
<1> DEFINE f == batch[b].over
           g == [x \in DOMAIN f \cup {s} |-> IF x = s THEN status ELSE f[x]]
           rest == Tail(batch[b].todo)
           q == [pc |-> IF rest = <<>> THEN "commit" ELSE "flush", todo |-> rest, over |-> g]
<1>1. batch[b] \in BatchStates
  BY DEF TypeInv
<1>2. f \in Outcomes /\ rest \in Seq(Sessions)
  BY <1>1 DEF BatchStates
<1>3. g \in Outcomes
  BY <1>2, OutcomesGrow
<1>4. q \in BatchStates /\ BatchFits(q)
  BY <1>2, <1>3 DEF BatchStates, BatchFits
<1>5. batch' = [batch EXCEPT ![b] = q]
  BY DEF Proceeds
<1> HIDE DEF q
<1>6. batch' \in [Batches -> BatchStates] /\ batch'[b] = q
      /\ \A c \in Batches : c # b => batch'[c] = batch[c]
  BY <1>4, <1>5 DEF TypeInv
<1>7. q.over = g
  BY DEF q
<1> QED BY <1>4, <1>6, <1>7 DEF TypeInv

-----------------------------------------------------------------------------
LEMMA TypeInit == Init => TypeInv
<1> SUFFICES ASSUME Init PROVE TypeInv
  OBVIOUS
<1>1. row \in [Sessions -> Rows]
  BY DEF Init, NoRow, Rows, SessionStatus
<1>2. box \in [Sessions -> Containers]
  BY DEF Init, Containers
<1>3. Idle \in HandlerStates
  BY DEF Idle, HandlerStates, HandlerPcs
<1>4. req \in [Handlers -> HandlerStates]
  BY <1>3 DEF Init
<1>5. batch \in [Batches -> BatchStates]
  BY NewBatchType DEF Init
<1>6. \A b \in Batches : BatchFits(batch[b])
  BY DEF Init, BatchFits, NewBatch
<1>7. \A h \in Requests : RivalFits(req[h])
  BY DEF Init, RivalFits, Idle, Handlers
<1> QED BY <1>1, <1>2, <1>4, <1>5, <1>6, <1>7 DEF TypeInv

LEMMA GoneInit == Init => GoneInv
<1> SUFFICES ASSUME Init PROVE GoneInv
  OBVIOUS
<1>1. RevokedHasNoSandbox
  BY DEF Init, RevokedHasNoSandbox, NoRow
<1>2. \A h \in Requests : ~At(h, "commit")
  BY DEF Init, At, Idle, Handlers
<1>3. \A b \in Batches : DOMAIN batch[b].over = {}
  BY DEF Init, NewBatch
<1> QED BY <1>1, <1>2, <1>3 DEF GoneInv

-----------------------------------------------------------------------------
\* What the steps do to the sandboxes.
\* No answer of the agent makes a container appear, unless it was asked to
\* create one; a termination it confirms leaves none.
LEMMA AgentAnswers ==
    ASSUME TypeInv, NEW s \in Sessions, NEW op \in AgentOps \ {"create"},
           AgentOk(s, op) \/ AgentError(s, op)
    PROVE  /\ box' \in [Sessions -> Containers]
           /\ \A x \in Sessions : Present(box'[x]) => Present(box[x])
           /\ op = "terminate" /\ AgentOk(s, op) => ~Present(box'[s])
<1> USE DEF TypeInv
<1>1. CASE AgentError(s, op) /\ ~AgentOk(s, op)
  BY <1>1 DEF AgentError
<1>2. CASE AgentOk(s, op)
  <2>1. box' = [box EXCEPT ![s] = Apply(op, box[s])] /\ Accepts(op, box[s])
    BY <1>2 DEF AgentOk
  <2>2. box[s] \in Containers
    OBVIOUS
  <2>3. /\ Apply(op, box[s]) \in Containers
        /\ Present(Apply(op, box[s])) => Present(box[s])
        /\ op = "terminate" => ~Present(Apply(op, box[s]))
    <3>1. CASE op = "terminate"
      BY <3>1 DEF Apply, TerminateSession, Absent, Containers, Present
    <3>2. CASE op = "start"
      BY <2>1, <2>2, <3>2 DEF Apply, Accepts, StartSession, Containers, Present
    <3>3. CASE op = "isolate"
      BY <2>1, <2>2, <3>3 DEF Apply, Accepts, IsolateSession, Containers, Present
    <3>4. CASE op = "restore"
      BY <2>1, <2>2, <3>4 DEF Apply, Accepts, RestoreSession, Containers, Present
    <3> QED BY <3>1, <3>2, <3>3, <3>4 DEF AgentOps
  <2> QED BY <2>1, <2>3
<1> QED BY <1>1, <1>2

\* A status written over a row makes a row.
LEMMA StatusTypes ==
    ASSUME NEW r \in Rows, NEW status \in SessionStatus
    PROVE  /\ SetStatus(r, status) \in Rows /\ SetStatus(r, status).status = status
           /\ Touch(r) \in Rows /\ Touch(r).status = r.status
  BY DEF SetStatus, Touch, Rows

\* Steps that leave sandboxes, rows, rivals and batches alone, or only remove
\* sandboxes.
LEMMA Calm ==
    ASSUME TypeInv, box' \in [Sessions -> Containers],
           \A x \in Sessions : Present(box'[x]) => Present(box[x]),
           row' = row, req' = req, batch' = batch
    PROVE  TypeInv' /\ (GoneInv => GoneInv')
<1>1. TypeInv'
  BY DEF TypeInv
<1>2. ASSUME GoneInv PROVE GoneInv'
  <2>1. RevokedHasNoSandbox'
    BY <1>2 DEF GoneInv, RevokedHasNoSandbox
  <2>2. \A h \in Requests :
           (At(h, "commit") /\ req[h].out = "TERMINATED")' => ~Present(box[req[h].s])'
    <3> SUFFICES ASSUME NEW h \in Requests, At(h, "commit"), req[h].out = "TERMINATED"
                 PROVE  ~Present(box'[req[h].s])
      BY DEF At
    <3>1. req[h].s \in Sessions
      BY DEF TypeInv, RivalFits, At
    <3> QED BY <1>2, <3>1 DEF GoneInv
  <2>3. \A b \in Batches : \A s \in DOMAIN batch[b].over : s \in Sessions
    BY DEF TypeInv, BatchStates, Outcomes
  <2>4. \A b \in Batches : \A s \in DOMAIN batch[b].over :
           batch[b].over[s] = "TERMINATED" => ~Present(box'[s])
    BY <1>2, <2>3 DEF GoneInv
  <2> QED BY <2>1, <2>2, <2>4 DEF GoneInv
<1> QED BY <1>1, <1>2

-----------------------------------------------------------------------------
\* Rivals.

\* What a rival's step changes of its own state; all else stays.
LEMMA RivalMoves ==
    ASSUME TypeInv, NEW h \in Requests, NEW q \in HandlerStates, RivalFits(q),
           req' = [req EXCEPT ![h] = q], batch' = batch,
           row' \in [Sessions -> Rows], box' \in [Sessions -> Containers]
    PROVE  TypeInv'
<1>1. h \in Handlers
  BY DEF Handlers
<1>2. req' \in [Handlers -> HandlerStates]
  BY DEF TypeInv
<1>3. \A k \in Requests : RivalFits(req'[k])
  BY <1>1 DEF TypeInv, Handlers
<1> QED BY <1>2, <1>3 DEF TypeInv

\* A rival that moves on carries no termination it did not carry before.
LEMMA RivalGone ==
    ASSUME TypeInv, GoneInv, NEW h \in Requests, NEW q \in HandlerStates,
           req' = [req EXCEPT ![h] = q], batch' = batch,
           q.pc = "commit" /\ q.out = "TERMINATED" => q.s \in Sessions /\ ~Present(box'[q.s]),
           \A x \in Sessions : Present(box'[x]) => Present(box[x]),
           RevokedHasNoSandbox'
    PROVE  GoneInv'
<1>1. ASSUME NEW k \in Requests, req'[k].pc = "commit", req'[k].out = "TERMINATED"
      PROVE  ~Present(box'[req'[k].s])
  <2>1. CASE k = h
    BY <1>1, <2>1 DEF TypeInv, Handlers
  <2>2. CASE k # h
    <3>1. req'[k] = req[k]
      BY <2>2 DEF TypeInv, Handlers
    <3>2. req[k].s \in Sessions
      BY <1>1, <3>1 DEF TypeInv, RivalFits
    <3> QED BY <1>1, <3>1, <3>2 DEF GoneInv, At
  <2> QED BY <2>1, <2>2
<1>2. \A b \in Batches : \A s \in DOMAIN batch[b].over : s \in Sessions
  BY DEF TypeInv, BatchStates, Outcomes
<1>3. \A b \in Batches : \A s \in DOMAIN batch'[b].over :
         batch'[b].over[s] = "TERMINATED" => ~Present(box'[s])
  BY <1>2 DEF GoneInv
<1> QED BY <1>1, <1>3 DEF GoneInv, At

\* A rival loads a row: it never starts at the commit of a termination.
LEMMA RivalStarts ==
    ASSUME TypeInv, GoneInv, NEW h \in Requests, RivalArrives(h)
    PROVE  TypeInv' /\ GoneInv'
<1>1. PICK s \in Sessions, op \in RivalOps : RequestBegins(h, op, s)
  BY DEF RivalArrives
<1> DEFINE first == FirstStep(op, row[s].status)
           q == IF first = "idle" THEN Idle
                ELSE [op |-> op, pc |-> first, s |-> s, seen |-> row[s].status,
                      sawViewer |-> op = "restore" /\ row[s].viewer # Nobody,
                      out |-> IF op = "disconnect" THEN "DISCONNECTED" ELSE "NONE"]
<1>2. op \in {"end", "kill", "isolate", "restore", "disconnect"}
  BY BatchAssumption DEF Ops, EndOps
<1>3. row[s].status \in SessionStatus \cup {"NONE"}
  BY DEF TypeInv, Rows
<1>4. first \in {"idle", "kick", "flush", "call", "commit"}
  BY <1>2 DEF FirstStep, EndOps
<1>5. (op = "restore" /\ row[s].viewer # Nobody) \in BOOLEAN
  OBVIOUS
<1>6. q \in HandlerStates
  <2>1. Idle \in HandlerStates
    BY DEF Idle, HandlerStates, HandlerPcs
  <2>2. op \in Ops \cup {"none", "recover"}
    BY <1>2 DEF Ops, EndOps
  <2> HIDE DEF first
  <2> QED BY <1>3, <1>4, <1>5, <2>1, <2>2 DEF HandlerStates, HandlerPcs, SessionStatus
<1>7. RivalFits(q)
  BY <1>2 DEF RivalFits, Idle, FirstStep, EndOps
<1>8. ~(q.pc = "commit" /\ q.out = "TERMINATED")
  BY DEF Idle
<1>9. /\ req' = [req EXCEPT ![h] = q]
      /\ batch' = batch /\ row' = row /\ box' = box
  BY <1>1 DEF RequestBegins, Load, RivalArrives
<1> HIDE DEF q
<1>10. TypeInv'
  BY <1>6, <1>7, <1>9, RivalMoves DEF TypeInv
<1>11. RevokedHasNoSandbox'
  BY <1>9 DEF GoneInv, RevokedHasNoSandbox
<1> QED BY <1>6, <1>8, <1>9, <1>10, <1>11, RivalGone

LEMMA RivalFlushes ==
    ASSUME TypeInv, GoneInv, NEW h \in Requests, Flush(h), batch' = batch
    PROVE  TypeInv' /\ GoneInv'
<1> DEFINE q == [req[h] EXCEPT !.pc = "call"]
<1>1. req[h] \in HandlerStates /\ RivalFits(req[h])
  BY DEF TypeInv, Handlers
<1>2. q \in HandlerStates /\ q.pc = "call"
  BY <1>1 DEF HandlerStates, HandlerPcs
<1>3. RivalFits(q)
  BY <1>1 DEF RivalFits, Flush, At, HandlerStates
<1>4. req' = [req EXCEPT ![h] = q] /\ row' = row /\ box' = box
  BY DEF Flush, Step
<1> HIDE DEF q
<1>5. TypeInv'
  BY <1>2, <1>3, <1>4, RivalMoves DEF TypeInv
<1>6. RevokedHasNoSandbox'
  BY <1>4 DEF GoneInv, RevokedHasNoSandbox
<1> QED BY <1>2, <1>4, <1>5, <1>6, RivalGone

\* The outcome is TERMINATED only when the agent has confirmed it.
LEMMA RivalCalls ==
    ASSUME TypeInv, GoneInv, NEW h \in Requests, CallAgent(h), batch' = batch
    PROVE  TypeInv' /\ GoneInv'
<1> DEFINE s == req[h].s
           op == AgentOp(req[h].op)
<1>1. req[h] \in HandlerStates /\ RivalFits(req[h]) /\ req[h].pc = "call"
  BY DEF TypeInv, Handlers, CallAgent, At
<1>2. s \in Sessions /\ req[h].op \in {"end", "kill", "isolate", "restore", "disconnect"}
  BY <1>1 DEF RivalFits
<1>3. req[h].op # "disconnect" /\ op \in AgentOps \ {"create"}
  BY <1>1, <1>2 DEF RivalFits, AgentOp, EndOps, AgentOps
<1>4. /\ box' \in [Sessions -> Containers]
      /\ \A x \in Sessions : Present(box'[x]) => Present(box[x])
      /\ op = "terminate" /\ AgentOk(s, op) => ~Present(box'[s])
  <2>1. AgentOk(s, op) \/ AgentError(s, op)
    BY DEF CallAgent
  <2> HIDE DEF s, op
  <2> QED BY <1>2, <1>3, <2>1, AgentAnswers
<1>5. PICK out \in SessionStatus :
        /\ Conclude(h, "commit", out)
        /\ out = "TERMINATED" => op = "terminate" /\ AgentOk(s, op)
  BY <1>2, <1>3 DEF CallAgent, Outcome, AgentOp, EndOps, SessionStatus
<1> DEFINE q == [req[h] EXCEPT !.pc = "commit", !.out = out]
<1>6. q \in HandlerStates /\ q.pc = "commit" /\ q.out = out /\ q.s = s /\ q.op = req[h].op
  BY <1>1 DEF HandlerStates, HandlerPcs
<1>7. RivalFits(q)
  BY <1>2, <1>6 DEF RivalFits
<1>8. req' = [req EXCEPT ![h] = q] /\ row' = row
  BY <1>5 DEF CallAgent, Conclude
<1> HIDE DEF q, op
<1>9. TypeInv'
  BY <1>4, <1>6, <1>7, <1>8, RivalMoves DEF TypeInv
<1>10. RevokedHasNoSandbox'
  BY <1>4, <1>8 DEF GoneInv, RevokedHasNoSandbox
<1> QED BY <1>2, <1>4, <1>5, <1>6, <1>8, <1>9, <1>10, RivalGone

\* The row becomes what the request carries, or keeps its status.
LEMMA WrittenRow ==
    ASSUME TypeInv, NEW h \in Requests, NEW r \in Rows
    PROVE  /\ Written(h, r) \in Rows
           /\ Written(h, r).status \in {req[h].out, r.status}
<1> DEFINE q == req[h]
<1>1. q \in HandlerStates
  BY DEF TypeInv, Handlers
<1>2. q.out \in SessionStatus \cup {"NONE"}
  BY <1>1 DEF HandlerStates
<1>3. /\ SetStatus(r, q.out) \in Rows /\ SetStatus(r, q.out).status = q.out
      /\ Touch(r) \in Rows /\ Touch(r).status = r.status
  BY <1>2 DEF SetStatus, Touch, Rows
<1>4. ASSUME NEW x \in Rows
      PROVE  /\ [x EXCEPT !.idle = FALSE] \in Rows
             /\ [x EXCEPT !.idle = FALSE].status = x.status
             /\ [x EXCEPT !.viewer = IF q.sawViewer THEN Nobody ELSE @, !.idle = FALSE] \in Rows
             /\ [x EXCEPT !.viewer = IF q.sawViewer THEN Nobody ELSE @, !.idle = FALSE].status
                   = x.status
  BY DEF Rows
<1>5. CASE q.op = "disconnect"
  <2> DEFINE x == IF q.seen = q.out THEN Touch(r) ELSE SetStatus(r, q.out)
  <2>1. x \in Rows /\ x.status \in {q.out, r.status}
    BY <1>3
  <2>2. Written(h, r) = [x EXCEPT !.idle = FALSE]
    BY <1>5 DEF Written
  <2> HIDE DEF x
  <2> QED BY <1>4, <2>1, <2>2
<1>6. CASE q.op = "restore" /\ q.out = "ACTIVE"
  <2>1. Written(h, r) = [SetStatus(r, q.out) EXCEPT
                           !.viewer = IF q.sawViewer THEN Nobody ELSE @, !.idle = FALSE]
    BY <1>6 DEF Written
  <2> QED BY <1>3, <1>4, <2>1
<1>7. CASE q.op # "disconnect" /\ ~(q.op = "restore" /\ q.out = "ACTIVE")
  BY <1>3, <1>7 DEF Written
<1> QED BY <1>5, <1>6, <1>7

LEMMA RivalCommits ==
    ASSUME TypeInv, GoneInv, NEW h \in Requests, RequestCommits(h), batch' = batch
    PROVE  TypeInv' /\ GoneInv'
<1> DEFINE s == req[h].s
           w == Written(h, row[s])
<1>1. req[h] \in HandlerStates /\ RivalFits(req[h]) /\ req[h].pc = "commit"
  BY DEF TypeInv, Handlers, RequestCommits, At
<1>2. s \in Sessions
  BY <1>1 DEF RivalFits
<1>3. row[s] \in Rows
  BY <1>2 DEF TypeInv
<1>4. w \in Rows /\ w.status \in {req[h].out, row[s].status}
  BY <1>3, WrittenRow
<1>5. row' = [row EXCEPT ![s] = w] /\ box' = box
  BY DEF RequestCommits, Commit
<1>6. PICK q \in HandlerStates : /\ RivalFits(q)
                                 /\ q.pc # "commit"
                                 /\ req' = [req EXCEPT ![h] = q]
  <2>1. CASE Step(h, "kick")
    <3> DEFINE q == [req[h] EXCEPT !.pc = "kick"]
    <3>1. q \in HandlerStates /\ q.pc = "kick" /\ RivalFits(q)
      BY <1>1 DEF HandlerStates, HandlerPcs, RivalFits
    <3> QED BY <2>1, <3>1 DEF Step
  <2>2. CASE Done(h)
    BY <2>2 DEF Done, Idle, HandlerStates, HandlerPcs, RivalFits
  <2> QED BY <2>1, <2>2 DEF RequestCommits
<1> HIDE DEF w
<1>7. TypeInv'
  BY <1>4, <1>5, <1>6, RivalMoves DEF TypeInv
<1>8. RevokedHasNoSandbox'
  <2>1. row[s].status = "TERMINATED" \/ req[h].out = "TERMINATED" => ~Present(box[s])
    BY <1>1, <1>2 DEF GoneInv, RevokedHasNoSandbox, At
  <2> QED BY <1>2, <1>4, <1>5, <2>1 DEF GoneInv, RevokedHasNoSandbox, TypeInv
<1> QED BY <1>5, <1>6, <1>7, <1>8, RivalGone

LEMMA RivalKicks ==
    ASSUME TypeInv, GoneInv, NEW h \in Requests, KickViewer(h), batch' = batch
    PROVE  TypeInv' /\ GoneInv'
<1>1. Idle \in HandlerStates /\ RivalFits(Idle) /\ Idle.pc # "commit"
  BY DEF Idle, HandlerStates, HandlerPcs, RivalFits
<1>2. req' = [req EXCEPT ![h] = Idle] /\ row' = row /\ box' = box
  BY DEF KickViewer, Done
<1>3. TypeInv'
  BY <1>1, <1>2, RivalMoves DEF TypeInv
<1>4. RevokedHasNoSandbox'
  BY <1>2 DEF GoneInv, RevokedHasNoSandbox
<1> QED BY <1>1, <1>2, <1>3, <1>4, RivalGone

-----------------------------------------------------------------------------
\* Revocations.

\* A batch that moves on and keeps, or forgets some of, what it has written.
LEMMA BatchMoves ==
    ASSUME TypeInv, GoneInv, NEW b \in Batches, NEW q \in BatchStates, BatchFits(q),
           batch' = [batch EXCEPT ![b] = q], req' = req,
           row' \in [Sessions -> Rows], box' = box, RevokedHasNoSandbox',
           \A x \in DOMAIN q.over : /\ x \in DOMAIN batch[b].over
                                    /\ q.over[x] = batch[b].over[x]
    PROVE  TypeInv' /\ GoneInv'
<1>1. batch' \in [Batches -> BatchStates] /\ \A c \in Batches : BatchFits(batch'[c])
  BY DEF TypeInv
<1>2. TypeInv'
  BY <1>1 DEF TypeInv
<1>3. \A c \in Batches : \A x \in DOMAIN batch'[c].over :
         batch'[c].over[x] = "TERMINATED" => ~Present(box[x])
  BY DEF TypeInv, GoneInv
<1> QED BY <1>2, <1>3 DEF GoneInv, At

LEMMA BatchLoads ==
    ASSUME TypeInv, GoneInv, NEW b \in Batches, NEW u \in Users, RevokeLoads(b, u)
    PROVE  TypeInv' /\ GoneInv'
<1>1. PICK todo \in SetToSeqs({s \in Sessions : /\ Owner[s] = u
                                                /\ row[s].status \in LiveStatuses}) :
          /\ todo # <<>>
          /\ batch' = [batch EXCEPT ![b].pc = "flush", ![b].todo = todo]
  BY DEF RevokeLoads
<1> DEFINE S == {s \in Sessions : Owner[s] = u /\ row[s].status \in LiveStatuses}
<1>2. todo \in Seq(Sessions)
  <2>1. S \subseteq Sessions
    OBVIOUS
  <2>2. todo \in SetToSeqs(S)
    BY <1>1
  <2> HIDE DEF S
  <2>3. IsFiniteSet(S)
    BY <2>1, BatchAssumption, FS_Subset
  <2>4. Cardinality(S) \in Nat
    BY <2>3, FS_CardinalityType
  <2>5. todo \in [1..Cardinality(S) -> S]
    BY <2>2 DEF SetToSeqs
  <2> QED BY <2>1, <2>4, <2>5
<1> DEFINE q == [batch[b] EXCEPT !.pc = "flush", !.todo = todo]
<1>3. batch[b] \in BatchStates
  BY DEF TypeInv
<1>4. q \in BatchStates /\ BatchFits(q) /\ q.over = batch[b].over
  BY <1>1, <1>2, <1>3 DEF BatchStates, BatchFits
<1>5. batch' = [batch EXCEPT ![b] = q] /\ req' = req /\ row' = row /\ box' = box
  BY <1>1, <1>3 DEF RevokeLoads, otherVars, BatchStates
<1> HIDE DEF q
<1>6. RevokedHasNoSandbox'
  BY <1>5 DEF GoneInv, RevokedHasNoSandbox
<1> QED BY <1>4, <1>5, <1>6, BatchMoves DEF TypeInv

LEMMA BatchFlushes ==
    ASSUME TypeInv, GoneInv, NEW b \in Batches, RevokeFlushes(b)
    PROVE  TypeInv' /\ GoneInv'
<1> DEFINE q == [batch[b] EXCEPT !.pc = "call"]
<1>1. batch[b] \in BatchStates /\ BatchFits(batch[b])
  BY DEF TypeInv
<1>2. q \in BatchStates /\ BatchFits(q) /\ q.over = batch[b].over
  BY <1>1 DEF BatchStates, BatchFits, RevokeFlushes
<1>3. batch' = [batch EXCEPT ![b] = q] /\ req' = req /\ row' = row /\ box' = box
  BY DEF RevokeFlushes, otherVars
<1> HIDE DEF q
<1>4. RevokedHasNoSandbox'
  BY <1>3 DEF GoneInv, RevokedHasNoSandbox
<1> QED BY <1>2, <1>3, <1>4, BatchMoves DEF TypeInv

\* A session counts as terminated only when the agent has confirmed it.
LEMMA BatchCalls ==
    ASSUME TypeInv, GoneInv, NEW b \in Batches, RevokeCalls(b)
    PROVE  TypeInv' /\ GoneInv'
<1> DEFINE s == Current(b)
<1>1. batch[b] \in BatchStates /\ batch[b].todo # <<>>
  BY DEF TypeInv, RevokeCalls, BatchFits
<1>2. s \in Sessions
  BY <1>1 DEF BatchStates, Current
<1>3. PICK status \in {"TERMINATED", "FAILED"} :
        /\ Proceeds(b, s, status)
        /\ AgentOk(s, "terminate") \/ AgentError(s, "terminate")
        /\ status = "TERMINATED" => AgentOk(s, "terminate")
  BY DEF RevokeCalls
<1> HIDE DEF s
<1>4. /\ box' \in [Sessions -> Containers]
      /\ \A x \in Sessions : Present(box'[x]) => Present(box[x])
      /\ status = "TERMINATED" => ~Present(box'[s])
  BY <1>2, <1>3, AgentAnswers DEF AgentOps
<1>5. row' = row /\ req' = req
  BY DEF RevokeCalls, otherVars
<1>6. /\ batch' \in [Batches -> BatchStates]
      /\ \A c \in Batches : BatchFits(batch'[c])
      /\ \A c \in Batches : \A x \in DOMAIN batch'[c].over :
            \/ x \in DOMAIN batch[c].over /\ batch'[c].over[x] = batch[c].over[x]
            \/ x = s /\ batch'[c].over[x] = status
  BY <1>1, <1>2, <1>3, Terminates
<1>7. TypeInv'
  BY <1>4, <1>5, <1>6 DEF TypeInv
<1>8. RevokedHasNoSandbox'
  BY <1>4, <1>5 DEF GoneInv, RevokedHasNoSandbox
<1>9. \A h \in Requests : req[h].pc = "commit" => req[h].s \in Sessions
  BY DEF TypeInv, RivalFits
<1>10. \A h \in Requests :
          req'[h].pc = "commit" /\ req'[h].out = "TERMINATED" => ~Present(box'[req'[h].s])
  BY <1>4, <1>5, <1>9 DEF GoneInv, At
<1>11. \A c \in Batches : \A x \in DOMAIN batch[c].over : x \in Sessions
  BY DEF TypeInv, BatchStates, Outcomes
<1>12. \A c \in Batches : \A x \in DOMAIN batch'[c].over :
          batch'[c].over[x] = "TERMINATED" => ~Present(box'[x])
  BY <1>4, <1>6, <1>11 DEF GoneInv
<1> QED BY <1>7, <1>8, <1>10, <1>12 DEF GoneInv, At

LEMMA BatchCommits ==
    ASSUME TypeInv, GoneInv, NEW b \in Batches, RevokeCommits(b)
    PROVE  TypeInv' /\ GoneInv'
<1> DEFINE over == batch[b].over
           q == [batch[b] EXCEPT !.pc = "kick"]
<1>1. batch[b] \in BatchStates
  BY DEF TypeInv
<1>2. q \in BatchStates /\ BatchFits(q) /\ q.over = batch[b].over
  BY <1>1 DEF BatchStates, BatchFits
<1>3. /\ batch' = [batch EXCEPT ![b] = q] /\ req' = req /\ box' = box
      /\ row' = [s \in Sessions |-> IF s \in DOMAIN over THEN SetStatus(row[s], over[s])
                                    ELSE row[s]]
  BY DEF RevokeCommits, otherVars
<1> HIDE DEF q
<1>4. \A s \in DOMAIN over : over[s] \in {"TERMINATED", "FAILED"}
  BY <1>1 DEF BatchStates, Outcomes
<1>5. \A s \in Sessions : /\ row'[s] \in Rows
                          /\ row'[s].status = IF s \in DOMAIN over THEN over[s]
                                              ELSE row[s].status
  BY <1>3, <1>4, StatusTypes DEF TypeInv, SessionStatus
<1>6. row' \in [Sessions -> Rows]
  BY <1>3, <1>5
<1>7. RevokedHasNoSandbox'
  BY <1>3, <1>5 DEF GoneInv, RevokedHasNoSandbox
<1> QED BY <1>2, <1>3, <1>6, <1>7, BatchMoves

LEMMA BatchKicks ==
    ASSUME TypeInv, GoneInv, NEW b \in Batches, NEW s \in Sessions, RevokeKicks(b, s)
    PROVE  TypeInv' /\ GoneInv'
<1> DEFINE over == batch[b].over
           rest == [x \in DOMAIN over \ {s} |-> over[x]]
<1>1. batch[b] \in BatchStates /\ batch[b].pc = "kick"
  BY DEF TypeInv, RevokeKicks
<1>2. rest \in Outcomes
  BY <1>1, OutcomesShrink DEF BatchStates
<1>3. PICK q \in BatchStates :
        /\ BatchFits(q)
        /\ batch' = [batch EXCEPT ![b] = q]
        /\ \A x \in DOMAIN q.over : x \in DOMAIN over /\ q.over[x] = over[x]
  <2>1. CASE DOMAIN over = {s}
    <3>1. batch' = [batch EXCEPT ![b] = Ended]
      BY <2>1 DEF RevokeKicks
    <3>2. BatchFits(Ended) /\ DOMAIN Ended.over = {}
      BY DEF BatchFits, Ended, NewBatch
    <3> QED BY <3>1, <3>2, NewBatchType
  <2>2. CASE DOMAIN over # {s}
    <3> DEFINE q == [batch[b] EXCEPT !.over = rest]
    <3>1. q \in BatchStates /\ BatchFits(q) /\ q.over = rest
      BY <1>1, <1>2 DEF BatchStates, BatchFits
    <3>2. batch' = [batch EXCEPT ![b] = q]
      BY <2>2 DEF RevokeKicks
    <3>3. \A x \in DOMAIN rest : x \in DOMAIN over /\ rest[x] = over[x]
      OBVIOUS
    <3> QED BY <3>1, <3>2, <3>3
  <2> QED BY <2>1, <2>2
<1>4. req' = req /\ row' = row /\ box' = box
  BY DEF RevokeKicks
<1>5. RevokedHasNoSandbox'
  BY <1>4 DEF GoneInv, RevokedHasNoSandbox
<1> QED BY <1>3, <1>4, <1>5, BatchMoves DEF TypeInv

\* What an aborted batch had written is forgotten; the rows stay live.
LEMMA BatchAborts ==
    ASSUME TypeInv, GoneInv, NEW b \in Batches, BatchAborted(b)
    PROVE  TypeInv' /\ GoneInv'
<1>1. BatchFits(Ended) /\ DOMAIN Ended.over = {}
  BY DEF BatchFits, Ended, NewBatch
<1>2. batch' = [batch EXCEPT ![b] = Ended] /\ req' = req /\ row' = row /\ box' = box
  BY DEF BatchAborted, otherVars
<1>3. RevokedHasNoSandbox'
  BY <1>2 DEF GoneInv, RevokedHasNoSandbox
<1> QED BY <1>1, <1>2, <1>3, NewBatchType, BatchMoves DEF TypeInv

-----------------------------------------------------------------------------
\* The reconciler removes containers and fails rows.
LEMMA ReconciliationKeeps ==
    ASSUME TypeInv, GoneInv, ReconStep \/ ReconLists \/ ReconCannotList, batch' = batch
    PROVE  TypeInv' /\ GoneInv'
<1>1. CASE \E s \in Sessions : ReconKills(s) \/ ReconRemoves(s)
  <2>1. PICK s \in Sessions : ReconKills(s) \/ ReconRemoves(s)
    BY <1>1
  <2>2. /\ row' = row /\ req' = req
        /\ \/ AgentOk(s, "terminate") \/ AgentError(s, "terminate")
           \/ box' = box
    BY <2>1 DEF ReconKills, ReconRemoves
  <2>3. /\ box' \in [Sessions -> Containers]
        /\ \A x \in Sessions : Present(box'[x]) => Present(box[x])
    BY <2>2, AgentAnswers DEF AgentOps, TypeInv
  <2> QED BY <2>2, <2>3, Calm
<1>2. CASE ReconCommits
  <2>1. /\ row' = [s \in Sessions |-> IF s \in recon.failed
                                      THEN SetStatus(row[s], "FAILED") ELSE row[s]]
        /\ box' = box /\ req' = req
    BY <1>2 DEF ReconCommits
  <2>2. \A s \in Sessions : /\ row'[s] \in Rows
                            /\ row'[s].status = "TERMINATED" => row[s].status = "TERMINATED"
    BY <2>1, StatusTypes DEF TypeInv, SessionStatus
  <2>3. row' \in [Sessions -> Rows]
    BY <2>1, <2>2
  <2>4. TypeInv'
    BY <2>1, <2>3 DEF TypeInv
  <2>5. RevokedHasNoSandbox'
    BY <2>1, <2>2 DEF GoneInv, RevokedHasNoSandbox
  <2> QED BY <2>1, <2>4, <2>5 DEF GoneInv, At
<1>3. CASE \/ ReconLists \/ ReconCannotList \/ ReconReadsRows \/ ReconKillsDone
           \/ ReconFindsLost \/ \E s \in Sessions : ReconFails(s)
  <2>1. row' = row /\ box' = box /\ req' = req
    BY <1>3 DEF ReconLists, ReconCannotList, ReconReadsRows, ReconKillsDone, ReconFindsLost,
                ReconFails
  <2> QED BY <2>1, Calm DEF TypeInv
<1> QED BY <1>1, <1>2, <1>3 DEF ReconStep

-----------------------------------------------------------------------------
LEMMA GoneStep ==
    ASSUME TypeInv, GoneInv, [Next]_vars
    PROVE  TypeInv' /\ GoneInv'
<1>1. CASE Disturbance
  <2>1. PICK s \in Sessions : SandboxExits(s)
    BY <1>1 DEF Disturbance
  <2>2. row' = row /\ req' = req /\ batch' = batch /\ box' = [box EXCEPT ![s].run = "exited"]
    BY <1>1, <2>1 DEF Disturbance, SandboxExits
  <2>3. box[s] \in Containers /\ box[s].run = "running"
    BY <2>1 DEF TypeInv, SandboxExits, Running
  <2>4. box' \in [Sessions -> Containers]
    BY <2>2, <2>3 DEF TypeInv, Containers
  <2>5. \A x \in Sessions : Present(box'[x]) => Present(box[x])
    BY <2>2, <2>3 DEF TypeInv, Present
  <2> QED BY <2>2, <2>4, <2>5, Calm
<1>2. CASE \E b \in Batches \cap use : (\E u \in Users : RevokeLoads(b, u)) \/ RevokeStep(b)
  BY <1>2, BatchLoads, BatchFlushes, BatchCalls, BatchCommits, BatchKicks DEF RevokeStep
<1>3. CASE \E h \in Requests \cap use : RivalArrives(h) \/ RivalStep(h)
  <2>1. PICK h \in Requests : RivalArrives(h) \/ RivalStep(h)
    BY <1>3
  <2>2. CASE RivalArrives(h)
    BY <2>2, RivalStarts
  <2>3. CASE RivalStep(h)
    BY <2>3, RivalFlushes, RivalCalls, RivalCommits, RivalKicks DEF RivalStep, ServiceStep
  <2> QED BY <2>1, <2>2, <2>3
<1>4. CASE Lists \/ Reconciles
  BY <1>4, ReconciliationKeeps DEF Lists, Reconciles
<1>5. CASE DeadlockResolved
  <2>1. CASE \E b \in Batches : BatchAborted(b)
    BY <2>1, BatchAborts
  <2>2. CASE ReconAborted
    BY <2>2, Calm DEF ReconAborted, TypeInv
  <2> QED BY <1>5, <2>1, <2>2 DEF DeadlockResolved
<1>6. CASE UNCHANGED vars
  BY <1>6, Calm DEF vars, TypeInv
<1> QED BY <1>1, <1>2, <1>3, <1>4, <1>5, <1>6 DEF Next, Act

\* A session that a revocation, a rival or another batch reports as TERMINATED
\* has no container, in whatever order they take the row's lock and whichever
\* of them is failed in a deadlock: terminate_session, api/admin_sessions.py.
THEOREM RevokedAreGone == Spec => []RevokedHasNoSandbox
<1>1. GoneInv => RevokedHasNoSandbox
  BY DEF GoneInv
<1> QED BY <1>1, TypeInit, GoneInit, GoneStep, PTL DEF Spec
=============================================================================
