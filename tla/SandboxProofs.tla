---------------------------- MODULE SandboxProofs ----------------------------
(***************************************************************************)
(* The sandbox of a TERMINATED session is not running, for any number of   *)
(* sessions, connections, requests and crashes.  Almost every step is      *)
(* calm: it begins no creation, starts no container and leaves no new      *)
(* create or start call behind.  Calm steps keep StartInv for one common   *)
(* reason, lemma CalmKeepsStartInv; the few others are treated one by one. *)
(***************************************************************************)
EXTENDS SessionTypeProofs

CalmStore ==
    /\ drawn' = drawn
    /\ \A s \in Sessions :
          /\ late'[s] \cap {"create", "start"} \subseteq late[s]
          /\ s \notin drawn => late'[s] = {}
          /\ Running(box'[s]) => Running(box[s])
          /\ Present(box'[s]) => Present(box[s])

CalmRows ==
    \A s \in Sessions :
        /\ row'[s].status = "NONE" <=> row[s].status = "NONE"
        /\ row'[s].status = "TERMINATED" => Over(s)

CalmRequests ==
    \A h \in Handlers :
        /\ req'[h].op = "create" =>
              /\ req[h].op = "create" /\ req'[h].s = req[h].s
              /\ req'[h].pc \in {"create", "start"} => req'[h].pc = req[h].pc
        /\ req'[h].pc # "idle" /\ req'[h].op # "create" =>
              row[req'[h].s].status # "NONE"
        /\ req'[h].pc = "commit" /\ req'[h].out = "TERMINATED" =>
              Over(req'[h].s) \/ Over(req[h].s)'

CalmConns ==
    \A c \in Conns : conn'[c].pc # "idle" => row[conn'[c].s].status # "NONE"

CalmCycle ==
    /\ recon'.managed \cup recon'.kill \cup recon'.lose \subseteq drawn
    /\ \A s \in recon'.lose \cup recon'.removed \cup recon'.failed :
          row[s].status # "NONE"

CalmStep == CalmStore /\ CalmRows /\ CalmRequests /\ CalmConns /\ CalmCycle

USE DEF storeVars, relayVars, requestVars, reconVars, boundVars, Running, Present

LEMMA CalmKeepsOver ==
    ASSUME TypeInv, TypeInv', CalmStore, CalmRequests, NEW s \in Sessions, Over(s)
    PROVE  Over(s)'
<1>1. ~ Running(box'[s])
  BY DEF CalmStore, Over
<1>2. ~ (s \notin drawn')
  BY DEF CalmStore, Over, MayStart
<1>3. ~ ("start" \in late'[s] /\ Present(box'[s]))
  BY DEF CalmStore, Over, MayStart
<1>4. ~ (\E h \in Requests : /\ req'[h].op = "create" /\ req'[h].s = s
                             /\ req'[h].pc \in {"create", "start"})
  BY DEF CalmRequests, Over, MayStart, Handlers
<1> QED BY <1>1, <1>2, <1>3, <1>4 DEF Over, MayStart

LEMMA CalmKeepsStartInv ==
    ASSUME StartInv, TypeInv', CalmStep
    PROVE  StartInv'
<1> USE DEF StartInv, CalmStep
<1>1. \A s \in Sessions : Over(s) => Over(s)'
  BY CalmKeepsOver
<1>2. UndrawnIsUntouched'
  BY DEF UndrawnIsUntouched, CalmStore, CalmRows, CalmCycle
<1>3. ActsOnCommittedRow'
  <2>1. ASSUME NEW h \in Handlers, req'[h].pc # "idle", req'[h].op # "create"
        PROVE  row'[req'[h].s].status # "NONE"
    BY <2>1 DEF CalmRows, CalmRequests, TypeInv, RequestShape
  <2>2. ASSUME NEW c \in Conns, conn'[c].pc # "idle"
        PROVE  row'[conn'[c].s].status # "NONE"
    BY <2>2 DEF CalmRows, CalmConns, TypeInv, ConnShape
  <2>3. recon'.lose \cup recon'.removed \cup recon'.failed \subseteq Sessions
    BY DEF TypeInv, TypeOK, ReconTypeOK, Cycles
  <2>4. ASSUME NEW s \in recon'.lose \cup recon'.removed \cup recon'.failed
        PROVE  row'[s].status # "NONE"
    BY <2>3 DEF CalmRows, CalmCycle
  <2> QED BY <2>1, <2>2, <2>4 DEF ActsOnCommittedRow
<1>4. CreatorIsAlone'
  <2> SUFFICES ASSUME NEW h \in Handlers, NEW s \in Sessions, Creator(h, s)'
               PROVE  /\ s \in drawn' /\ row'[s].status = "NONE"
                      /\ \A g \in Handlers : Creator(g, s)' => g = h
                      /\ req'[h].pc \in {"create", "start"} =>
                            ~Running(box'[s]) /\ late'[s] \cap {"create", "start"} = {}
                      /\ req'[h].pc = "create" => ~Present(box'[s])
    BY DEF CreatorIsAlone
  <2>1. \A g \in Handlers : Creator(g, s)' => Creator(g, s)
    BY DEF Creator, CalmRequests
  <2>2. req'[h].pc \in {"create", "start"} => req'[h].pc = req[h].pc
    BY DEF Creator, CalmRequests
  <2> QED BY <2>1, <2>2 DEF CreatorIsAlone, CalmStore, CalmRows
<1>5. LateStartIsOnly'
  BY DEF LateStartIsOnly, CalmStore
<1>6. TerminatedIsOver'
  <2>1. \A s \in Sessions : row'[s].status = "TERMINATED" => Over(s)'
    BY <1>1 DEF CalmRows
  <2>2. ASSUME NEW h \in Handlers, req'[h].pc = "commit", req'[h].out = "TERMINATED"
        PROVE  Over(req[h].s)'
    <3>1. req'[h].s \in Sessions
      BY <2>2 DEF TypeInv, RequestShape
    <3> QED BY <1>1, <2>2, <3>1 DEF CalmRequests
  <2> QED BY <2>1, <2>2 DEF TerminatedIsOver
<1> QED BY <1>2, <1>3, <1>4, <1>5, <1>6

-----------------------------------------------------------------------------
\* What a step leaves alone is calm.

LEMMA CalmWhenUnchanged ==
    ASSUME StartInv
    PROVE  /\ UNCHANGED <<box, late, drawn>> => CalmStore
           /\ UNCHANGED row => CalmRows
           /\ UNCHANGED req => CalmRequests
           /\ UNCHANGED conn => CalmConns
           /\ UNCHANGED recon => CalmCycle
<1> USE DEF StartInv
<1>1. UNCHANGED <<box, late, drawn>> => CalmStore
  BY DEF CalmStore, UndrawnIsUntouched
<1>2. UNCHANGED row => CalmRows
  BY DEF CalmRows, TerminatedIsOver
<1>3. UNCHANGED req => CalmRequests
  BY DEF CalmRequests, TerminatedIsOver, ActsOnCommittedRow
<1>4. UNCHANGED conn => CalmConns
  BY DEF CalmConns, ActsOnCommittedRow
<1>5. UNCHANGED recon => CalmCycle
  BY DEF CalmCycle, UndrawnIsUntouched, ActsOnCommittedRow
<1> QED BY <1>1, <1>2, <1>3, <1>4, <1>5

\* Writing a committed row is calm, unless it writes TERMINATED too early.
LEMMA CalmCommit ==
    ASSUME StartInv, NEW s \in Sessions, NEW r \in Rows, Commit(s, r),
           row[s].status # "NONE", r.status # "NONE",
           r.status = "TERMINATED" => Over(s)
    PROVE  CalmRows
BY DEF CalmRows, Commit, StartInv, TypeInv, TypeOK, StoreTypeOK, TerminatedIsOver

\* The agent's terminate, isolate and restore calls are calm, answered or not.
LEMMA CalmAgentCall ==
    ASSUME StartInv, NEW s \in drawn, NEW op \in {"terminate", "isolate", "restore"},
           AgentOk(s, op) \/ AgentError(s, op), drawn' = drawn
    PROVE  CalmStore
<1> USE DEF StartInv, TypeInv, TypeOK, StoreTypeOK
<1>1. CASE AgentOk(s, op)
  <2>1. s \in Sessions => /\ Running(Apply(op, box[s])) => Running(box[s])
                          /\ Present(Apply(op, box[s])) => Present(box[s])
    BY DEF Apply, TerminateSession, IsolateSession, RestoreSession, Absent, Containers
  <2> QED BY <1>1, <2>1 DEF AgentOk, CalmStore, UndrawnIsUntouched
<1>2. CASE AgentError(s, op)
  BY <1>2 DEF AgentError, CalmStore, UndrawnIsUntouched
<1> QED BY <1>1, <1>2

\* A session with a committed row has no creator any more, and its id is used.
LEMMA CommittedIsCreated ==
    ASSUME StartInv, NEW s \in Sessions, row[s].status # "NONE"
    PROVE  /\ s \in drawn
           /\ \A h \in Handlers : ~Creator(h, s)
BY DEF StartInv, UndrawnIsUntouched, CreatorIsAlone

-----------------------------------------------------------------------------
\* The calm steps.

LEMMA ViewerIsCalm ==
    ASSUME StartInv, NEW c \in Conns, ViewerActs(c)
    PROVE  CalmStep
<1> USE DEF StartInv
<1>1. UNCHANGED <<box, late, drawn, req, recon>>
  BY DEF ViewerActs, RelayStep, ViewerConnects, ViewerDials, ViewerDialFails, ViewerStamps,
         ViewerRegisters, ViewerLeaves, ViewerDisconnects, ViewerUnstamps
<1>2. CalmStore /\ CalmRequests /\ CalmCycle
  BY <1>1, CalmWhenUnchanged
<1>3. CalmConns
  <2>1. ASSUME NEW s \in Sessions, ViewerConnects(c, s) PROVE CalmConns
    BY <2>1 DEF ViewerConnects, CalmConns, ActsOnCommittedRow, TypeInv, TypeOK, RelayTypeOK
  <2>2. conn' = [conn EXCEPT ![c] = ConnIdle] => CalmConns
    BY DEF ConnIdle, CalmConns, ActsOnCommittedRow, TypeInv, TypeOK, RelayTypeOK
  <2>3. ASSUME NEW pc, GoTo(c, pc), conn[c].pc # "idle" PROVE CalmConns
    BY <2>3 DEF GoTo, CalmConns, ActsOnCommittedRow, TypeInv, TypeOK, RelayTypeOK
  <2> QED BY <2>1, <2>2, <2>3
          DEF ViewerActs, RelayStep, ViewerDials, ViewerDialFails, ViewerStamps,
              ViewerRegisters, ViewerLeaves, ViewerDisconnects, ViewerUnstamps
<1>4. CalmRows
  <2>1. UNCHANGED row => CalmRows
    BY CalmWhenUnchanged
  <2>2. ASSUME NEW r \in Rows, NEW s \in Sessions, s = conn[c].s, conn[c].pc # "idle",
               Commit(s, r), r.status \in {row[s].status, "ACTIVE", "DISCONNECTED"}
        PROVE  CalmRows
    BY <2>2, CalmCommit DEF ActsOnCommittedRow, TerminatedIsOver
  <2>3. conn[c].pc # "idle" => conn[c].s \in Sessions /\ row[conn[c].s] \in Rows
    BY DEF TypeInv, TypeOK, ConnShape, StoreTypeOK
  <2>4. CASE ViewerStamps(c)
    <3> DEFINE s == conn[c].s
               r == [(IF conn[c].seen = "ACTIVE" THEN Touch(row[s])
                                                 ELSE SetStatus(row[s], "ACTIVE"))
                       EXCEPT !.viewer = c, !.idle = FALSE]
    <3>1. conn[c].pc # "idle" /\ Commit(s, r)
      BY <2>4 DEF ViewerStamps
    <3>2. r \in Rows /\ r.status \in {row[s].status, "ACTIVE"}
      BY <2>3, <3>1 DEF Rows, Touch, SetStatus, SessionStatus
    <3> HIDE DEF r
    <3> QED BY <2>2, <2>3, <3>1, <3>2
  <2>5. CASE ViewerDisconnects(c)
    <3> DEFINE s == conn[c].s
               r == [SetStatus(row[s], "DISCONNECTED") EXCEPT !.viewer = Nobody, !.idle = FALSE]
    <3>1. conn[c].pc # "idle" /\ (Commit(s, r) \/ UNCHANGED row)
      BY <2>5 DEF ViewerDisconnects
    <3>2. r \in Rows /\ r.status = "DISCONNECTED"
      BY <2>3, <3>1 DEF Rows, Touch, SetStatus, SessionStatus
    <3> HIDE DEF r
    <3> QED BY <2>1, <2>2, <2>3, <3>1, <3>2
  <2>6. CASE ViewerUnstamps(c)
    <3> DEFINE s == conn[c].s
               r == [Touch(row[s]) EXCEPT !.viewer = Nobody]
    <3>1. conn[c].pc # "idle" /\ (Commit(s, r) \/ UNCHANGED row)
      BY <2>6 DEF ViewerUnstamps
    <3>2. r \in Rows /\ r.status = row[s].status
      BY <2>3, <3>1 DEF Rows, Touch
    <3> HIDE DEF r
    <3> QED BY <2>1, <2>2, <2>3, <3>1, <3>2
  <2> QED BY <2>1, <2>4, <2>5, <2>6
          DEF ViewerActs, RelayStep, ViewerConnects, ViewerDials, ViewerDialFails,
              ViewerRegisters, ViewerLeaves
<1> QED BY <1>2, <1>3, <1>4 DEF CalmStep

LEMMA ArrivalIsCalm ==
    ASSUME StartInv, NEW h \in Handlers, NEW op \in EndOps \cup {"isolate", "restore", "disconnect"},
           NEW s \in Sessions, row[s].status # "NONE", Load(h, op, s),
           UNCHANGED <<row, box, late, drawn, conn, recon>>
    PROVE  CalmStep
<1> USE DEF StartInv
<1>1. CalmStore /\ CalmRows /\ CalmConns /\ CalmCycle
  BY CalmWhenUnchanged
<1> DEFINE first == FirstStep(op, row[s].status)
           q == IF first = "idle" THEN Idle
                ELSE [op |-> op, pc |-> first, s |-> s, seen |-> row[s].status,
                      sawViewer |-> op = "restore" /\ row[s].viewer # Nobody,
                      out |-> IF op = "disconnect" THEN "DISCONNECTED" ELSE "NONE"]
<1>2. /\ req' = [req EXCEPT ![h] = q]
      /\ q.op # "create" /\ (q.pc # "idle" => q.s = s) /\ q.out # "TERMINATED"
  BY DEF Load, Idle, EndOps
<1> HIDE DEF q
<1>3. CalmRequests
  BY <1>2 DEF CalmRequests, TerminatedIsOver, ActsOnCommittedRow, TypeInv, TypeOK, RequestTypeOK
<1> QED BY <1>1, <1>3 DEF CalmStep

\* A handler's own steps keep it on its session.
LEMMA CalmProgress ==
    ASSUME StartInv, NEW h \in Handlers, NEW q, req' = [req EXCEPT ![h] = q],
           q.op = "create" => q.op = req[h].op /\ q.s = req[h].s /\ q.pc \notin {"create", "start"},
           q.pc # "idle" /\ q.op # "create" =>
               q.s = req[h].s /\ req[h].pc # "idle" /\ req[h].op # "create",
           q.pc = "commit" /\ q.out = "TERMINATED" => Over(q.s)'
    PROVE  CalmRequests
BY DEF CalmRequests, StartInv, TerminatedIsOver, ActsOnCommittedRow, TypeInv, TypeOK, RequestTypeOK

LEMMA ServiceIsCalm ==
    ASSUME StartInv, NEW h \in Handlers, ServiceStep(h), UNCHANGED recon
    PROVE  CalmStep
<1> USE DEF StartInv
<1>1. req[h].pc \in {"flush", "call", "commit", "kick"}
  BY DEF ServiceStep, Flush, CallAgent, RequestCommits, KickViewer, At
<1> PICK s \in Sessions : s = req[h].s
  BY <1>1 DEF TypeInv, RequestShape
<1>2. /\ row[s] \in Rows /\ row[s].status # "NONE"
      /\ req[h].op # "create" /\ s \in drawn
  BY <1>1, CommittedIsCreated
  DEF TypeInv, TypeOK, StoreTypeOK, RequestShape, ActsOnCommittedRow
<1>3. CalmCycle
  BY CalmWhenUnchanged
<1>4. CASE Flush(h)
  <2>1. CalmStore /\ CalmRows /\ CalmConns
    BY <1>4, CalmWhenUnchanged DEF Flush
  <2>2. req' = [req EXCEPT ![h] = [req[h] EXCEPT !.pc = "call"]]
    BY <1>4 DEF Flush, Step, TypeInv, TypeOK, RequestTypeOK
  <2>3. CalmRequests
    BY <1>1, <1>2, <2>2, CalmProgress DEF TypeInv, TypeOK, RequestTypeOK, HandlerStates
  <2> QED BY <1>3, <2>1, <2>3 DEF CalmStep
<1>5. CASE CallAgent(h)
  <2> DEFINE op == AgentOp(req[h].op)
  <2>1. req[h].op \in EndOps \cup {"isolate", "restore"}
    BY <1>5 DEF CallAgent, At, TypeInv, RequestShape
  <2>2. op \in {"terminate", "isolate", "restore"}
    BY <2>1 DEF AgentOp
  <2>3. AgentOk(s, op) \/ AgentError(s, op)
    BY <1>5 DEF CallAgent
  <2>4. CalmStore /\ CalmRows /\ CalmConns
    BY <1>2, <1>5, <2>2, <2>3, CalmAgentCall, CalmWhenUnchanged DEF CallAgent
  <2>5. PICK out : /\ Conclude(h, "commit", out)
                   /\ out = "TERMINATED" => AgentOk(s, "terminate")
    BY <1>5, <2>1 DEF CallAgent, Outcome, AgentOp, EndOps
  <2> DEFINE q == [req[h] EXCEPT !.pc = "commit", !.out = out]
  <2>6. req' = [req EXCEPT ![h] = q] /\ q.s = s /\ q.op = req[h].op /\ q.pc = "commit" /\ q.out = out
    BY <2>5 DEF Conclude, TypeInv, TypeOK, RequestTypeOK, HandlerStates
  <2> HIDE DEF q
  <2>7. out = "TERMINATED" => Over(s)'
    <3>1. CASE AgentOk(s, "terminate")
      <4>1. ~Present(box'[s]) /\ drawn' = drawn
        BY <1>2, <1>5, <3>1
        DEF CallAgent, AgentOk, Apply, TerminateSession, Absent, TypeInv, TypeOK, StoreTypeOK
      <4>2. \A g \in Handlers : ~(req'[g].op = "create" /\ req'[g].s = s)
        BY <1>2, <2>6, CommittedIsCreated DEF Creator, TypeInv, TypeOK, RequestTypeOK
      <4> QED BY <1>2, <4>1, <4>2 DEF Over, MayStart, Handlers
    <3> QED BY <2>5, <3>1
  <2>8. CalmRequests
    BY <1>1, <1>2, <2>6, <2>7, CalmProgress
  <2> QED BY <1>3, <2>4, <2>8 DEF CalmStep
<1>6. CASE RequestCommits(h)
  <2>1. CalmStore /\ CalmConns
    BY <1>6, CalmWhenUnchanged DEF RequestCommits
  <2> DEFINE r == Written(h, row[s])
  <2>2. r \in Rows /\ r.status \in {row[s].status, req[h].out}
    BY <1>2 DEF Written, Rows, Touch, SetStatus, TypeInv, TypeOK, RequestTypeOK,
                HandlerStates, SessionStatus
  <2>3. Commit(s, r)
    BY <1>6 DEF RequestCommits
  <2> HIDE DEF r
  <2>4. req[h].out # "NONE"
    BY <1>6 DEF RequestCommits, At, TypeInv, RequestShape
  <2>5. CalmRows
    BY <1>2, <1>6, <2>2, <2>3, <2>4, CalmCommit DEF RequestCommits, At, TerminatedIsOver
  <2>6. CASE Step(h, "kick")
    <3>1. req' = [req EXCEPT ![h] = [req[h] EXCEPT !.pc = "kick"]]
      BY <2>6 DEF Step, TypeInv, TypeOK, RequestTypeOK
    <3>2. CalmRequests
      BY <1>1, <1>2, <3>1, CalmProgress DEF TypeInv, TypeOK, RequestTypeOK, HandlerStates
    <3> QED BY <1>3, <2>1, <2>5, <3>2 DEF CalmStep
  <2>7. CASE Done(h)
    <3>1. CalmRequests
      BY <2>7, CalmProgress DEF Done, Idle
    <3> QED BY <1>3, <2>1, <2>5, <3>1 DEF CalmStep
  <2> QED BY <1>6, <2>6, <2>7 DEF RequestCommits
<1>7. CASE KickViewer(h)
  <2>1. CalmStore /\ CalmRows
    BY <1>7, CalmWhenUnchanged DEF KickViewer
  <2>2. CalmRequests
    BY <1>7, CalmProgress DEF KickViewer, Done, Idle
  <2>3. CalmConns
    <3>1. CASE UNCHANGED conn
      BY <3>1, CalmWhenUnchanged
    <3>2. ASSUME NEW c, c = registry[s], c # Nobody, GoTo(c, "closing") PROVE CalmConns
      <4>1. c \in Conns /\ conn[c].pc # "idle"
        BY <1>2, <3>2 DEF TypeInv, TypeOK, RelayTypeOK, ConnShape, RegisteredIsOpen
      <4> QED BY <3>2, <4>1 DEF GoTo, CalmConns, ActsOnCommittedRow, TypeInv, TypeOK, RelayTypeOK
    <3> QED BY <1>7, <3>1, <3>2 DEF KickViewer, ForceDisconnect
  <2> QED BY <1>3, <2>1, <2>2, <2>3 DEF CalmStep
<1> QED BY <1>4, <1>5, <1>6, <1>7 DEF ServiceStep

LEMMA ReaperIsCalm ==
    ASSUME StartInv, ReaperActs
    PROVE  CalmStep
<1> USE DEF StartInv
<1>0. Reaper \in Handlers
  BY DEF Handlers
<1>1. UNCHANGED recon
  BY DEF ReaperActs
<1>2. ASSUME NEW op \in {"reap", "recover"}, NEW s \in Sessions, Selects(op, s),
             row[s].status # "NONE"
      PROVE  CalmStep
  <2>1. CalmStore /\ CalmRows /\ CalmConns /\ CalmCycle
    BY <1>1, <1>2, CalmWhenUnchanged DEF Selects
  <2>2. CalmRequests
    BY <1>0, <1>2
    DEF Selects, Idle, CalmRequests, TerminatedIsOver, ActsOnCommittedRow, TypeInv, TypeOK, RequestTypeOK
  <2> QED BY <2>1, <2>2 DEF CalmStep
<1>3. CASE ReaperClaims
  <2>1. CalmStore /\ CalmConns /\ CalmCycle
    BY <1>1, <1>3, CalmWhenUnchanged DEF ReaperClaims
  <2> PICK s \in Sessions : s = req[Reaper].s
    BY <1>0, <1>3 DEF ReaperClaims, At, TypeInv, RequestShape
  <2>2. /\ req[Reaper].pc = "claim" /\ req[Reaper].op # "create"
        /\ row[s] \in Rows /\ row[s].status # "NONE"
    BY <1>0, <1>3
    DEF ReaperClaims, At, TypeInv, TypeOK, RequestShape, StoreTypeOK, ActsOnCommittedRow
  <2>3. CalmRows
    <3>1. CASE UNCHANGED row
      BY <3>1, CalmWhenUnchanged
    <3>2. \/ UNCHANGED row
          \/ Commit(s, SetStatus(row[s], "TERMINATING"))
          \/ Commit(s, Touch(row[s]))
      BY <1>3 DEF ReaperClaims
    <3>3. /\ SetStatus(row[s], "TERMINATING") \in Rows /\ Touch(row[s]) \in Rows
          /\ SetStatus(row[s], "TERMINATING").status = "TERMINATING"
          /\ Touch(row[s]).status = row[s].status
      BY <2>2 DEF SetStatus, Touch, Rows, SessionStatus
    <3> QED BY <2>2, <3>1, <3>2, <3>3, CalmCommit DEF TerminatedIsOver
  <2>4. CalmRequests
    <3>1. CASE Step(Reaper, "read")
      <4>1. req' = [req EXCEPT ![Reaper] = [req[Reaper] EXCEPT !.pc = "read"]]
        BY <3>1 DEF Step, TypeInv, TypeOK, RequestTypeOK
      <4> QED BY <1>0, <2>2, <4>1, CalmProgress DEF TypeInv, TypeOK, RequestTypeOK, HandlerStates
    <3>2. CASE Done(Reaper)
      BY <1>0, <3>2, CalmProgress DEF Done, Idle
    <3> QED BY <1>3, <3>1, <3>2 DEF ReaperClaims
  <2> QED BY <2>1, <2>3, <2>4 DEF CalmStep
<1>4. CASE ReaperLoads
  <2> PICK s \in Sessions : s = req[Reaper].s
    BY <1>0, <1>4 DEF ReaperLoads, At, TypeInv, RequestShape
  <2>1. row[s].status # "NONE"
    BY <1>0, <1>4 DEF ReaperLoads, At, TypeInv, RequestShape, ActsOnCommittedRow
  <2>2. Load(Reaper, "reap", s) /\ UNCHANGED <<row, box, late, drawn, conn>>
    BY <1>4 DEF ReaperLoads
  <2>3. "reap" \in EndOps
    BY DEF EndOps
  <2> QED BY <1>0, <1>1, <2>1, <2>2, <2>3, ArrivalIsCalm
<1>5. CASE ServiceStep(Reaper)
  BY <1>0, <1>1, <1>5, ServiceIsCalm
<1>6. ASSUME ReaperSelects PROVE CalmStep
  <2>1. PICK s \in Sessions : ReapSelects(s) \/ RecoverSelects(s)
    BY <1>6 DEF ReaperSelects
  <2>2. row[s].status # "NONE"
    BY <2>1 DEF ReapSelects, RecoverSelects, Unattended, Stuck
  <2> QED BY <1>2, <2>1, <2>2 DEF ReapSelects, RecoverSelects
<1> QED BY <1>3, <1>4, <1>5, <1>6 DEF ReaperActs

LEMMA ReconcilerIsCalm ==
    ASSUME StartInv, ReconcilerLists \/ ReconcilerActs
    PROVE  CalmStep
<1> USE DEF StartInv
<1>1. UNCHANGED <<req, drawn>>
  BY DEF ReconcilerLists, ReconLists, ReconCannotList, ReconcilerActs, ReconStep, ReconReadsRows,
         ReconKills, ReconKillsDone, ReconFindsLost, ReconRemoves, ReconFails, ReconCommits
<1>2. CalmRequests
  BY <1>1, CalmWhenUnchanged
<1>3. UNCHANGED conn
  BY DEF ReconcilerLists, ReconLists, ReconCannotList, ReconcilerActs, ReconStep, ReconReadsRows,
         ReconKills, ReconKillsDone, ReconFindsLost, ReconRemoves, ReconFails, ReconCommits,
         DiscardStaleConnection
<1>4. CalmConns
  BY <1>3, CalmWhenUnchanged
<1> SUFFICES CalmStore /\ CalmRows /\ CalmCycle
  BY <1>2, <1>4 DEF CalmStep
<1>5. /\ UNCHANGED <<box, late>> => CalmStore
      /\ UNCHANGED row => CalmRows
  BY <1>1, CalmWhenUnchanged
<1>6. recon \in Cycles
  BY DEF TypeInv, TypeOK, ReconTypeOK
<1>7. CASE ReconcilerLists
  <2>1. CalmCycle
    <3>1. CASE ReconLists
      <4>1. recon'.managed = {s \in Sessions : Present(box[s])}
        BY <3>1 DEF ReconLists, ReconIdle
      <4>2. recon'.managed \subseteq drawn
        BY <4>1 DEF UndrawnIsUntouched
      <4> QED BY <3>1, <4>2 DEF ReconLists, ReconIdle, CalmCycle
    <3>2. CASE ReconCannotList
      BY <3>2 DEF ReconCannotList, ReconIdle, CalmCycle
    <3> QED BY <1>7, <3>1, <3>2 DEF ReconcilerLists
  <2> QED BY <1>5, <1>7, <2>1 DEF ReconcilerLists, ReconLists, ReconCannotList
<1>8. CASE ReconReadsRows
  <2>1. PICK K \in SUBSET recon.managed :
          recon' = [recon EXCEPT !.pc = "kill", !.kill = K, !.managed = {}]
    BY <1>8 DEF ReconReadsRows
  <2>2. CalmCycle
    BY <1>6, <2>1 DEF Cycles, CalmCycle, UndrawnIsUntouched, ActsOnCommittedRow
  <2> QED BY <1>5, <1>8, <2>2 DEF ReconReadsRows
<1>9. ASSUME NEW s \in Sessions, ReconKills(s) PROVE CalmStore /\ CalmRows /\ CalmCycle
  <2>1. s \in drawn
    BY <1>9 DEF ReconKills, UndrawnIsUntouched
  <2>2. CalmStore
    BY <1>1, <1>9, <2>1, CalmAgentCall DEF ReconKills
  <2>3. CalmCycle
    BY <1>6, <1>9 DEF ReconKills, Cycles, CalmCycle, UndrawnIsUntouched, ActsOnCommittedRow
  <2> QED BY <1>5, <1>9, <2>2, <2>3 DEF ReconKills
<1>10. CASE ReconKillsDone
  <2>1. CalmCycle
    BY <1>6, <1>10 DEF ReconKillsDone, Cycles, CalmCycle, UndrawnIsUntouched, ActsOnCommittedRow
  <2> QED BY <1>5, <1>10, <2>1 DEF ReconKillsDone
<1>11. CASE ReconFindsLost
  <2>1. PICK L \in SUBSET Sessions :
          /\ recon' = [recon EXCEPT !.pc = "lose", !.running = {}, !.lose = L]
          /\ \A s \in L : row[s].status # "NONE"
    <3> DEFINE claimed == {s \in Sessions : row[s].status \in LostCandidateStatuses}
               lost == IF recon.reached THEN claimed \ recon.running ELSE claimed
               L == {s \in lost : lostSeen'[s] >= GraceCycles}
    <3>1. recon' = [recon EXCEPT !.pc = "lose", !.running = {}, !.lose = L]
      BY <1>11 DEF ReconFindsLost
    <3>2. L \subseteq Sessions /\ \A s \in L : row[s].status # "NONE"
      BY DEF LostCandidateStatuses
    <3> QED BY <3>1, <3>2
  <2>2. CalmCycle
    BY <1>6, <2>1 DEF Cycles, CalmCycle, UndrawnIsUntouched, ActsOnCommittedRow
  <2> QED BY <1>5, <1>11, <2>2 DEF ReconFindsLost
<1>12. ASSUME NEW s \in Sessions, ReconRemoves(s) PROVE CalmStore /\ CalmRows /\ CalmCycle
  <2>1. s \in drawn /\ row[s].status # "NONE"
    BY <1>12 DEF ReconRemoves, UndrawnIsUntouched, ActsOnCommittedRow
  <2>2. CalmStore
    BY <1>1, <1>5, <1>12, <2>1, CalmAgentCall DEF ReconRemoves
  <2>3. CalmCycle
    <3>1. CASE recon' = [recon EXCEPT !.lose = @ \ {s}, !.removed = @ \cup {s}]
      BY <1>6, <2>1, <3>1 DEF Cycles, CalmCycle, UndrawnIsUntouched, ActsOnCommittedRow
    <3>2. CASE recon' = [recon EXCEPT !.lose = @ \ {s}]
      BY <1>6, <3>2 DEF Cycles, CalmCycle, UndrawnIsUntouched, ActsOnCommittedRow
    <3> QED BY <1>12, <3>1, <3>2 DEF ReconRemoves
  <2> QED BY <1>5, <1>12, <2>2, <2>3 DEF ReconRemoves
<1>13. ASSUME NEW s \in Sessions, ReconFails(s) PROVE CalmStore /\ CalmRows /\ CalmCycle
  <2>1. CalmCycle
    BY <1>6, <1>13 DEF ReconFails, Cycles, CalmCycle, UndrawnIsUntouched, ActsOnCommittedRow
  <2> QED BY <1>5, <1>13, <2>1 DEF ReconFails
<1>14. CASE ReconCommits
  <2>1. CalmCycle
    BY <1>14 DEF ReconCommits, ReconIdle, CalmCycle
  <2>2. CalmRows
    BY <1>14 DEF ReconCommits, SetStatus, Touch, CalmRows, TerminatedIsOver, ActsOnCommittedRow,
                 TypeInv, TypeOK, StoreTypeOK, Rows
  <2> QED BY <1>5, <1>14, <2>1, <2>2 DEF ReconCommits
<1> QED BY <1>7, <1>8, <1>9, <1>10, <1>11, <1>12, <1>13, <1>14 DEF ReconcilerActs, ReconStep

\* The environment's steps are calm but for a late create or start.
LEMMA EnvironmentIsCalm ==
    ASSUME StartInv, EnvironmentActs, NEW s \in Sessions,
           \/ LateNothing(s) \/ SandboxExits(s) \/ TimePasses(s)
           \/ \E op \in late[s] \ {"create", "start"} :
                 /\ box' = [box EXCEPT ![s] = Apply(op, @)]
                 /\ late' = [late EXCEPT ![s] = @ \ {op}]
                 /\ UNCHANGED row
    PROVE  CalmStep
<1> USE DEF StartInv
<1>1. UNCHANGED <<drawn, req, conn, recon>>
  BY DEF EnvironmentActs
<1>2. CalmRequests /\ CalmConns /\ CalmCycle
  BY <1>1, CalmWhenUnchanged
<1>3. UNCHANGED row => CalmRows
  BY CalmWhenUnchanged
<1>4. CASE LateNothing(s)
  <2>1. CalmStore
    BY <1>1, <1>4 DEF LateNothing, CalmStore, UndrawnIsUntouched, TypeInv, TypeOK, StoreTypeOK
  <2> QED BY <1>2, <1>3, <1>4, <2>1 DEF LateNothing, CalmStep
<1>5. CASE SandboxExits(s)
  <2>1. CalmStore
    BY <1>1, <1>5 DEF SandboxExits, CalmStore, UndrawnIsUntouched, TypeInv, TypeOK, StoreTypeOK,
                      Containers
  <2> QED BY <1>2, <1>3, <1>5, <2>1 DEF SandboxExits, CalmStep
<1>6. CASE TimePasses(s)
  <2>1. CalmStore
    BY <1>1, <1>6, CalmWhenUnchanged DEF TimePasses
  <2>2. \A t \in Sessions : row'[t].status = row[t].status
    BY <1>6 DEF TimePasses, TypeInv, TypeOK, StoreTypeOK, Rows
  <2>3. CalmRows
    BY <2>2 DEF CalmRows, TerminatedIsOver
  <2> QED BY <1>2, <2>1, <2>3 DEF CalmStep
<1>7. ASSUME NEW op \in late[s] \ {"create", "start"},
             box' = [box EXCEPT ![s] = Apply(op, @)],
             late' = [late EXCEPT ![s] = @ \ {op}],
             UNCHANGED row
      PROVE  CalmStep
  <2>1. op \in {"isolate", "restore", "terminate"}
    BY DEF TypeInv, TypeOK, StoreTypeOK, AgentOps
  <2>2. /\ Running(Apply(op, box[s])) => Running(box[s])
        /\ Present(Apply(op, box[s])) => Present(box[s])
    BY <2>1 DEF Apply, TerminateSession, IsolateSession, RestoreSession, Absent, Containers,
                TypeInv, TypeOK, StoreTypeOK
  <2>3. CalmStore
    BY <1>1, <1>7, <2>2 DEF CalmStore, UndrawnIsUntouched, TypeInv, TypeOK, StoreTypeOK
  <2> QED BY <1>2, <1>3, <1>7, <2>3 DEF CalmStep
<1> QED BY <1>4, <1>5, <1>6, <1>7

LEMMA CreateEndIsCalm ==
    ASSUME StartInv, NEW h \in Requests, DisplayReady(h) \/ CreateCleansUp(h), UNCHANGED recon
    PROVE  CalmStep
<1> USE DEF StartInv
<1>1. h \in Handlers
  BY DEF Handlers
<1>2. CalmRows /\ CalmConns /\ CalmCycle
  BY CalmWhenUnchanged DEF DisplayReady, CreateCleansUp
<1>3. req[h].op = "create" /\ req[h].s \in Sessions /\ req[h].s \in drawn
  BY <1>1 DEF DisplayReady, CreateCleansUp, At, TypeInv, RequestShape, CreatorIsAlone, Creator
<1>4. CalmStore
  <2>1. CASE DisplayReady(h)
    BY <2>1, CalmWhenUnchanged DEF DisplayReady
  <2>2. CASE CreateCleansUp(h)
    BY <1>3, <2>2, CalmAgentCall DEF CreateCleansUp
  <2> QED BY <2>1, <2>2
<1>5. CalmRequests
  <2>1. PICK pc \in {"cleanup", "insert"} : Step(h, pc) \/ \E out : Conclude(h, pc, out)
    BY DEF DisplayReady, CreateCleansUp
  <2>2. CASE Step(h, pc)
    <3>1. req' = [req EXCEPT ![h] = [req[h] EXCEPT !.pc = pc]]
      BY <1>1, <2>2 DEF Step, TypeInv, TypeOK, RequestTypeOK
    <3> QED BY <1>1, <1>3, <3>1, CalmProgress DEF TypeInv, TypeOK, RequestTypeOK, HandlerStates
  <2>3. ASSUME NEW out, Conclude(h, pc, out) PROVE CalmRequests
    <3>1. req' = [req EXCEPT ![h] = [req[h] EXCEPT !.pc = pc, !.out = out]]
      BY <1>1, <2>3 DEF Conclude, TypeInv, TypeOK, RequestTypeOK
    <3> QED BY <1>1, <1>3, <3>1, CalmProgress DEF TypeInv, TypeOK, RequestTypeOK, HandlerStates
  <2> QED BY <2>1, <2>2, <2>3
<1> QED BY <1>2, <1>4, <1>5 DEF CalmStep

-----------------------------------------------------------------------------
\* The steps that are not calm.

LEMMA CreateBeginsKeeps ==
    ASSUME StartInv, TypeInv', NEW h \in Requests, NEW s \in Sessions, CreateBegins(h, s),
           UNCHANGED recon
    PROVE  StartInv'
<1> USE DEF StartInv, CreateBegins
<1>0. h \in Handlers
  BY DEF Handlers
<1>1. /\ UNCHANGED <<row, box, late, conn>> /\ drawn' = drawn \cup {s} /\ s \notin drawn
      /\ req' = [req EXCEPT ![h] = [Idle EXCEPT !.op = "create", !.s = s, !.pc = "create"]]
  OBVIOUS
<1>2. \A g \in Handlers : g # h => req'[g] = req[g]
  BY <1>0, <1>1 DEF TypeInv, TypeOK, RequestTypeOK
<1>3. req'[h].op = "create" /\ req'[h].pc = "create" /\ req'[h].s = s
  BY <1>0, <1>1 DEF Idle, TypeInv, TypeOK, RequestTypeOK
<1>4. row[s].status = "NONE" /\ ~Present(box[s]) /\ late[s] = {}
  BY <1>1 DEF UndrawnIsUntouched
<1>5. UndrawnIsUntouched'
  BY <1>1 DEF UndrawnIsUntouched
<1>6. ActsOnCommittedRow'
  BY <1>1, <1>2, <1>3 DEF ActsOnCommittedRow
<1>7. CreatorIsAlone'
  <2>1. \A g \in Handlers, t \in Sessions :
          Creator(g, t)' => (g # h /\ Creator(g, t)) \/ (g = h /\ t = s)
    BY <1>2, <1>3 DEF Creator
  <2>2. \A g \in Handlers : ~Creator(g, s)
    BY <1>1 DEF CreatorIsAlone
  <2> QED BY <1>1, <1>2, <1>3, <1>4, <2>1, <2>2 DEF CreatorIsAlone
<1>8. LateStartIsOnly'
  BY <1>1 DEF LateStartIsOnly
<1>9. TerminatedIsOver'
  <2>1. \A t \in Sessions : Over(t) => Over(t)'
    BY <1>1, <1>2, <1>3 DEF Over, MayStart, Handlers
  <2> QED BY <1>1, <1>2, <1>3, <2>1 DEF TerminatedIsOver, TypeInv, RequestShape
<1> QED BY <1>5, <1>6, <1>7, <1>8, <1>9

\* One agent call of a creation.
LEMMA CreateCallKeeps ==
    ASSUME StartInv, TypeInv', NEW h \in Requests, CreateSandbox(h) \/ StartSandbox(h),
           UNCHANGED recon
    PROVE  StartInv'
<1> USE DEF StartInv
<1>0. h \in Handlers
  BY DEF Handlers
<1> PICK s \in Sessions : s = req[h].s
  BY <1>0 DEF CreateSandbox, StartSandbox, CreateCalls, At, TypeInv, RequestShape
<1>1. PICK op \in {"create", "start"}, next \in {"start", "ready", "cleanup"} :
        /\ req[h].pc = op
        /\ Step(h, next)
        /\ \/ /\ AgentOk(s, op)
              /\ next = IF op = "create" THEN "start" ELSE "ready"
           \/ AgentError(s, op) /\ next = "cleanup"
        /\ UNCHANGED <<row, conn, drawn>>
  BY DEF CreateSandbox, StartSandbox, CreateCalls, At
<1>2. Creator(h, s)
  BY <1>0, <1>1 DEF Creator, TypeInv, RequestShape
<1>3. /\ s \in drawn /\ row[s].status = "NONE" /\ ~Running(box[s])
      /\ late[s] \cap {"create", "start"} = {}
      /\ op = "create" => ~Present(box[s])
  BY <1>0, <1>1, <1>2 DEF CreatorIsAlone
<1>4. \A g \in Handlers : g # h => req'[g] = req[g] /\ ~Creator(g, s)
  BY <1>0, <1>1, <1>2 DEF Step, CreatorIsAlone, TypeInv, TypeOK, RequestTypeOK
<1>5. req'[h].op = "create" /\ req'[h].pc = next /\ req'[h].s = s
  BY <1>0, <1>1, <1>2 DEF Step, Creator, TypeInv, TypeOK, RequestTypeOK, HandlerStates
<1>6. \A t \in Sessions : t # s => box'[t] = box[t] /\ late'[t] = late[t]
  BY <1>1 DEF AgentOk, AgentError, TypeInv, TypeOK, StoreTypeOK
\* What the call does to this session's sandbox.
<1>7. /\ "create" \in late'[s] => op = "create" /\ next = "cleanup"
      /\ "start" \in late'[s] => op = "start" /\ next = "cleanup"
      /\ Running(box'[s]) => op = "start" /\ next = "ready"
  <2>1. CASE AgentOk(s, op) /\ next = IF op = "create" THEN "start" ELSE "ready"
    <3>1. late'[s] = late[s] /\ box'[s] = Apply(op, box[s])
      BY <2>1 DEF AgentOk, TypeInv, TypeOK, StoreTypeOK
    <3>2. op = "create" => ~Running(Apply(op, box[s]))
      BY <1>3 DEF Apply, CreateSession
    <3> QED BY <1>3, <2>1, <3>1, <3>2
  <2>2. CASE AgentError(s, op) /\ next = "cleanup"
    <3>1. box'[s] = box[s] /\ late'[s] \subseteq late[s] \cup {op}
      BY <2>2 DEF AgentError, TypeInv, TypeOK, StoreTypeOK
    <3> QED BY <1>3, <2>2, <3>1
  <2> QED BY <1>1, <2>1, <2>2
<1>8. UndrawnIsUntouched'
  BY <1>1, <1>3, <1>6 DEF UndrawnIsUntouched
<1>9. ActsOnCommittedRow'
  BY <1>1, <1>4, <1>5 DEF ActsOnCommittedRow
<1>10. CreatorIsAlone'
  <2>1. \A g \in Handlers, t \in Sessions : Creator(g, t)' => Creator(g, t)
    BY <1>2, <1>4, <1>5 DEF Creator
  <2>2. req'[h].pc # "create"
    BY <1>1, <1>5
  <2>3. req'[h].pc = "start" => ~Running(box'[s]) /\ late'[s] \cap {"create", "start"} = {}
    BY <1>1, <1>5, <1>7
  <2>4. ASSUME NEW g \in Handlers, NEW t \in Sessions, Creator(g, t), t # s PROVE g # h
    BY <1>2, <2>4 DEF Creator
  <2> QED BY <1>1, <1>3, <1>4, <1>5, <1>6, <2>1, <2>2, <2>3, <2>4 DEF CreatorIsAlone
<1>11. LateStartIsOnly'
  BY <1>6, <1>7 DEF LateStartIsOnly
<1>12. TerminatedIsOver'
  <2>1. \A t \in Sessions \ {s} : Over(t) => Over(t)'
    BY <1>0, <1>1, <1>2, <1>4, <1>5, <1>6 DEF Over, MayStart, Handlers, Creator
  <2>2. \A g \in Handlers : req'[g].pc = "commit" => g # h /\ req[g].s # s
    <3>1. ASSUME NEW g \in Handlers, g # h, req[g].pc = "commit" PROVE req[g].s # s
      BY <1>3, <3>1 DEF ActsOnCommittedRow, TypeInv, RequestShape
    <3> QED BY <1>1, <1>4, <1>5, <3>1
  <2>3. \A g \in Handlers : req'[g].pc = "commit" => req'[g].s \in Sessions \ {s}
    BY <1>4, <2>2 DEF TypeInv, RequestShape
  <2> QED BY <1>1, <1>3, <1>4, <2>1, <2>2, <2>3 DEF TerminatedIsOver
<1> QED BY <1>8, <1>9, <1>10, <1>11, <1>12

LEMMA CreateCommitsKeeps ==
    ASSUME StartInv, TypeInv', NEW h \in Requests, CreateCommits(h), UNCHANGED recon
    PROVE  StartInv'
<1> USE DEF StartInv
<1>0. h \in Handlers
  BY DEF Handlers
<1> PICK s \in Sessions : s = req[h].s
  BY <1>0 DEF CreateCommits, At, TypeInv, RequestShape
<1>1. /\ Creator(h, s) /\ req[h].out \in {"ACTIVE", "FAILED"}
      /\ req' = [req EXCEPT ![h] = Idle] /\ UNCHANGED <<box, late, conn, drawn>>
      /\ row' = [row EXCEPT ![s] = [NoRow EXCEPT !.status = req[h].out]]
  BY <1>0 DEF CreateCommits, At, Commit, Done, Creator, TypeInv, RequestShape
<1>2. s \in drawn /\ row[s].status = "NONE" /\ \A g \in Handlers : g # h => ~Creator(g, s)
  BY <1>0, <1>1 DEF CreatorIsAlone
<1>3. \A t \in Sessions : t # s => row'[t] = row[t]
  BY <1>1 DEF TypeInv, TypeOK, StoreTypeOK
<1>4. row'[s].status \in {"ACTIVE", "FAILED"}
  BY <1>1 DEF NoRow, TypeInv, TypeOK, StoreTypeOK
<1>5. req'[h].pc = "idle" /\ req'[h].op = "none" /\ \A g \in Handlers : g # h => req'[g] = req[g]
  BY <1>0, <1>1 DEF Idle, TypeInv, TypeOK, RequestTypeOK
<1>6. UndrawnIsUntouched'
  BY <1>1, <1>2, <1>3 DEF UndrawnIsUntouched
<1>7. ActsOnCommittedRow'
  BY <1>1, <1>3, <1>4, <1>5 DEF ActsOnCommittedRow
<1>8. CreatorIsAlone'
  <2>1. \A g \in Handlers, t \in Sessions : Creator(g, t)' => g # h /\ Creator(g, t) /\ t # s
    BY <1>2, <1>5 DEF Creator
  <2> QED BY <1>1, <1>3, <1>5, <2>1 DEF CreatorIsAlone
<1>9. LateStartIsOnly'
  BY <1>1 DEF LateStartIsOnly
<1>10. TerminatedIsOver'
  <2>1. \A t \in Sessions : Over(t) => Over(t)'
    BY <1>1, <1>5 DEF Over, MayStart, Handlers
  <2>2. \A g \in Handlers : req'[g].pc = "commit" => req[g] = req'[g] /\ req[g].s \in Sessions
    BY <1>5 DEF TypeInv, RequestShape
  <2> QED BY <1>3, <1>4, <2>1, <2>2 DEF TerminatedIsOver
<1> QED BY <1>6, <1>7, <1>8, <1>9, <1>10

\* A create or start call that lands after its caller gave up.
LEMMA LateStartKeeps ==
    ASSUME StartInv, TypeInv', NEW s \in Sessions, NEW op \in late[s] \cap {"create", "start"},
           Accepts(op, box[s]), box' = [box EXCEPT ![s] = Apply(op, @)],
           late' = [late EXCEPT ![s] = @ \ {op}],
           UNCHANGED <<row, req, conn, drawn, recon>>
    PROVE  StartInv'
<1> USE DEF StartInv
<1>1. \A t \in Sessions : t # s => box'[t] = box[t] /\ late'[t] = late[t]
  BY DEF TypeInv, TypeOK, StoreTypeOK
<1>2. box'[s] = Apply(op, box[s]) /\ late'[s] = late[s] \ {op}
  BY DEF TypeInv, TypeOK, StoreTypeOK
<1>3. s \in drawn
  BY DEF UndrawnIsUntouched
<1>4. \A h \in Handlers : Creator(h, s) => req[h].pc \notin {"create", "start"}
  BY DEF CreatorIsAlone
<1>5. op = "create" => Running(box'[s]) = Running(box[s]) /\ "start" \notin late'[s]
  BY <1>2 DEF Apply, CreateSession, LateStartIsOnly
<1>6. op = "start" => "start" \notin late'[s] /\ "create" \notin late'[s] /\ Present(box[s])
  BY <1>2 DEF LateStartIsOnly, Accepts
<1>7. ~Over(s)' => ~Over(s)
  <2>1. CASE op = "create"
    BY <1>5, <2>1 DEF Over, MayStart
  <2>2. CASE op = "start"
    BY <1>6, <2>2 DEF Over, MayStart
  <2> QED BY <2>1, <2>2
<1>8. \A t \in Sessions : Over(t) => Over(t)'
  <2>1. \A t \in Sessions \ {s} : Over(t) => Over(t)'
    BY <1>1 DEF Over, MayStart
  <2> QED BY <1>7, <2>1
<1>9. UndrawnIsUntouched'
  BY <1>1, <1>3 DEF UndrawnIsUntouched
<1>10. ActsOnCommittedRow'
  BY DEF ActsOnCommittedRow
<1>11. CreatorIsAlone'
  BY <1>1, <1>4 DEF CreatorIsAlone, Creator
<1>12. LateStartIsOnly'
  BY <1>1, <1>5, <1>6 DEF LateStartIsOnly
<1>13. TerminatedIsOver'
  BY <1>8 DEF TerminatedIsOver, TypeInv, RequestShape
<1> QED BY <1>9, <1>10, <1>11, <1>12, <1>13

\* An agent call under way has a caller; a create or start call, the creator.
LEMMA AwaitedHasCaller ==
    ASSUME NEW s \in Sessions, NEW op \in AwaitedCalls(s)
    PROVE  \/ \E h \in Handlers : req[h].s = s /\ op \in InFlight(h)
           \/ op = "terminate" /\ s \in recon.kill \cup recon.lose
<1> DEFINE U == UNION {InFlight(h) : h \in {g \in Handlers : req[g].s = s}}
           T == IF s \in recon.kill \cup recon.lose THEN {"terminate"} ELSE {}
<1>1. CASE op \in U
  BY <1>1
<1>2. CASE op \in T
  BY <1>2
<1>3. AwaitedCalls(s) = U \cup T
  BY DEF AwaitedCalls
<1> HIDE DEF U, T
<1> QED BY <1>1, <1>2, <1>3

LEMMA AwaitedStartHasCreator ==
    ASSUME StartInv, NEW s \in Sessions, NEW op \in AwaitedCalls(s), op \in {"create", "start"}
    PROVE  \E h \in Handlers : Creator(h, s) /\ req[h].pc = op
<1> USE DEF StartInv
<1>1. PICK h \in Handlers : req[h].s = s /\ op \in InFlight(h)
  BY AwaitedHasCaller
<1>2. req[h].pc = op
  <2>1. req[h].pc = "call" => AgentOp(req[h].op) \in {"terminate", "isolate", "restore"}
    BY DEF AgentOp, TypeInv, RequestShape
  <2> QED BY <1>1, <2>1 DEF InFlight, At
<1> QED BY <1>1, <1>2 DEF Creator, TypeInv, RequestShape

\* A crash leaves behind the calls that were under way, and nobody to make
\* another one.
LEMMA RestartKeeps ==
    ASSUME StartInv, TypeInv', BackendRestarts
    PROVE  StartInv'
<1> USE DEF StartInv, BackendRestarts
<1>1. \A s \in Sessions : row'[s].status = row[s].status
  BY DEF ResetViewerStamps, Touch, TypeInv, TypeOK, StoreTypeOK, Rows
<1>2. \A h \in Handlers : req'[h].pc = "idle" /\ req'[h].op = "none"
  BY DEF Idle
<1>3. \A s \in Sessions : late'[s] \subseteq late[s] \cup AwaitedCalls(s)
  OBVIOUS
<1>0. ASSUME NEW s \in Sessions, NEW op \in AwaitedCalls(s)
      PROVE  \/ \E h \in Handlers : req[h].s = s /\ op \in InFlight(h)
             \/ op = "terminate" /\ s \in recon.kill \cup recon.lose
  BY AwaitedHasCaller
<1>4. ASSUME NEW s \in Sessions, NEW op \in AwaitedCalls(s), op \in {"create", "start"}
      PROVE  \E h \in Handlers : Creator(h, s) /\ req[h].pc = op
  BY <1>4, AwaitedStartHasCreator
<1>5. ASSUME NEW s \in Sessions, NEW op \in AwaitedCalls(s) PROVE s \in drawn
  <2>1. CASE s \in recon.kill \cup recon.lose
    BY <2>1 DEF UndrawnIsUntouched
  <2>2. ASSUME NEW h \in Handlers, req[h].s = s, op \in InFlight(h) PROVE s \in drawn
    <3>1. req[h].pc # "idle"
      BY <2>2 DEF InFlight, At
    <3>2. CASE req[h].op = "create"
      BY <2>2, <3>2 DEF CreatorIsAlone, Creator
    <3>3. CASE req[h].op # "create"
      BY <2>2, <3>1, <3>3 DEF ActsOnCommittedRow, UndrawnIsUntouched
    <3> QED BY <3>2, <3>3
  <2> QED BY <1>0, <2>1, <2>2
<1>6. UndrawnIsUntouched'
  BY <1>1, <1>3, <1>5 DEF UndrawnIsUntouched, ReconIdle
<1>7. ActsOnCommittedRow'
  BY <1>2 DEF ActsOnCommittedRow, ConnIdle, ReconIdle
<1>8. CreatorIsAlone'
  BY <1>2 DEF CreatorIsAlone, Creator
<1>9. LateStartIsOnly'
  <2> SUFFICES ASSUME NEW s \in Sessions, "start" \in late'[s]
               PROVE  ~Running(box[s]) /\ "create" \notin late'[s]
    BY DEF LateStartIsOnly
  <2>1. CASE "start" \in late[s]
    BY <1>3, <1>4, <2>1 DEF LateStartIsOnly, CreatorIsAlone
  <2>2. CASE "start" \in AwaitedCalls(s)
    <3>1. PICK h \in Handlers : Creator(h, s) /\ req[h].pc = "start"
      BY <1>4, <2>2
    <3>2. ~Running(box[s]) /\ "create" \notin late[s]
      BY <3>1 DEF CreatorIsAlone
    <3>3. "create" \notin AwaitedCalls(s)
      BY <1>4, <3>1 DEF CreatorIsAlone
    <3> QED BY <1>3, <3>2, <3>3
  <2> QED BY <1>3, <2>1, <2>2
<1>10. TerminatedIsOver'
  <2>1. ASSUME NEW s \in Sessions, Over(s) PROVE Over(s)'
    <3>1. "start" \in late'[s] => "start" \in late[s]
      BY <1>3, <1>4, <2>1 DEF Over, MayStart, Creator, TypeInv, RequestShape
    <3> QED BY <1>2, <2>1, <3>1 DEF Over, MayStart, Handlers
  <2> QED BY <1>1, <1>2, <2>1 DEF TerminatedIsOver
<1> QED BY <1>6, <1>7, <1>8, <1>9, <1>10

-----------------------------------------------------------------------------
LEMMA StartInvInit == Init => StartInv
<1> SUFFICES ASSUME Init PROVE StartInv
  OBVIOUS
<1>1. TypeInv
  BY TypeInit
<1>2. UndrawnIsUntouched
  BY DEF Init, StoreInit, RequestInit, ReconInit, ReconIdle, NoRow, Absent, UndrawnIsUntouched
<1>3. ActsOnCommittedRow
  BY DEF Init, RelayInit, RequestInit, ReconInit, ReconIdle, ConnIdle, Idle, ActsOnCommittedRow
<1>4. CreatorIsAlone
  BY DEF Init, RequestInit, Idle, CreatorIsAlone, Creator
<1>5. LateStartIsOnly
  BY DEF Init, StoreInit, LateStartIsOnly
<1>6. TerminatedIsOver
  BY DEF Init, StoreInit, RequestInit, NoRow, Idle, TerminatedIsOver
<1> QED BY <1>1, <1>2, <1>3, <1>4, <1>5, <1>6 DEF StartInv

\* A create or start call of session s lands late.
LateStart(s, op) ==
    /\ op \in late[s] \cap {"create", "start"}
    /\ Accepts(op, box[s])
    /\ box' = [box EXCEPT ![s] = Apply(op, @)]
    /\ late' = [late EXCEPT ![s] = @ \ {op}]
    /\ UNCHANGED <<row, req, conn, drawn, recon>>

\* A creation's own step that is not calm.
CreationMoves(h) ==
    /\ \/ \E s \in Sessions : CreateBegins(h, s)
       \/ CreateSandbox(h) \/ StartSandbox(h) \/ CreateCommits(h)
    /\ UNCHANGED recon

\* Every step is calm or one of the few that are not.
LEMMA StepKinds ==
    ASSUME StartInv, [Next]_vars
    PROVE  \/ CalmStep
           \/ \E s \in Sessions, op \in {"create", "start"} : LateStart(s, op)
           \/ \E h \in Requests : CreationMoves(h)
           \/ BackendRestarts
<1>1. CASE EnvironmentActs
  <2>1. PICK s \in Sessions :
          LateEffect(s) \/ LateNothing(s) \/ SandboxExits(s) \/ TimePasses(s)
    BY <1>1 DEF EnvironmentActs, Environment
  <2>2. CASE LateNothing(s) \/ SandboxExits(s) \/ TimePasses(s)
    BY <1>1, <2>2, EnvironmentIsCalm
  <2>3. CASE LateEffect(s)
    <3>1. PICK op \in late[s] : /\ Accepts(op, box[s])
                                /\ box' = [box EXCEPT ![s] = Apply(op, @)]
                                /\ late' = [late EXCEPT ![s] = @ \ {op}]
      BY <2>3 DEF LateEffect
    <3>2. UNCHANGED <<row, req, conn, drawn, recon>>
      BY <1>1, <2>3 DEF LateEffect, EnvironmentActs
    <3>3. CASE op \in {"create", "start"}
      BY <3>1, <3>2, <3>3 DEF LateStart
    <3>4. CASE op \notin {"create", "start"}
      BY <1>1, <3>1, <3>2, <3>4, EnvironmentIsCalm
    <3> QED BY <3>3, <3>4
  <2> QED BY <2>1, <2>2, <2>3
<1>2. ASSUME NEW c \in Conns, ViewerActs(c) PROVE CalmStep
  BY <1>2, ViewerIsCalm
<1>3. ASSUME NEW h \in Requests, RequestActs(h) PROVE CalmStep \/ CreationMoves(h)
  <2>1. UNCHANGED recon /\ h \in Handlers
    BY <1>3 DEF RequestActs, Handlers
  <2>2. ASSUME NEW s \in Sessions, CreateBegins(h, s) PROVE CreationMoves(h)
    BY <2>1, <2>2 DEF CreationMoves
  <2>3. ASSUME NEW s \in Sessions, NEW op \in RequestOps \ {"create"}, RequestBegins(h, op, s)
        PROVE  CalmStep
    <3>1. op \in EndOps \cup {"isolate", "restore", "disconnect"}
      BY InstanceAssumption DEF Ops
    <3> QED BY <2>1, <2>3, <3>1, ArrivalIsCalm DEF RequestBegins
  <2>4. CASE CreateStep(h)
    BY <2>1, <2>4, CreateEndIsCalm DEF CreateStep, CreationMoves
  <2>5. CASE ServiceStep(h)
    BY <2>1, <2>5, ServiceIsCalm
  <2> QED BY <1>3, <2>2, <2>3, <2>4, <2>5 DEF RequestActs, RequestArrives
<1>4. CASE PollerActs
  BY <1>4, CalmWhenUnchanged DEF PollerActs, PollerStops, CalmStep
<1>5. CASE ReaperActs
  BY <1>5, ReaperIsCalm
<1>6. CASE ReconcilerLists \/ ReconcilerActs
  BY <1>6, ReconcilerIsCalm
<1>7. CASE UNCHANGED vars
  BY <1>7, CalmWhenUnchanged DEF vars, CalmStep
<1> QED BY <1>1, <1>2, <1>3, <1>4, <1>5, <1>6, <1>7 DEF Next

LEMMA StartInvStep == StartInv /\ [Next]_vars => StartInv'
<1> SUFFICES ASSUME StartInv, [Next]_vars PROVE StartInv'
  OBVIOUS
<1>1. TypeInv'
  BY TypeStep DEF StartInv
<1>2. CASE CalmStep
  BY <1>1, <1>2, CalmKeepsStartInv
<1>3. ASSUME NEW s \in Sessions, NEW op \in {"create", "start"}, LateStart(s, op) PROVE StartInv'
  BY <1>1, <1>3, LateStartKeeps DEF LateStart
<1>4. ASSUME NEW h \in Requests, CreationMoves(h) PROVE StartInv'
  BY <1>1, <1>4, CreateBeginsKeeps, CreateCallKeeps, CreateCommitsKeeps DEF CreationMoves
<1>5. CASE BackendRestarts
  BY <1>1, <1>5, RestartKeeps
<1> QED BY <1>2, <1>3, <1>4, <1>5, StepKinds

\* At most one start of a session's sandbox is ever outstanding, and none once
\* its row says TERMINATED or a transaction is about to say so.
THEOREM StartInvariant == Spec => []StartInv
BY StartInvInit, StartInvStep, PTL DEF Spec

\* No container of a TERMINATED session is running, whatever agent calls are
\* lost, late or repeated and whenever the backend crashes.
THEOREM TerminatedStopsSandbox == Spec => []TerminatedIsNotRunning
<1>1. StartInv => TerminatedIsNotRunning
  BY DEF StartInv, TerminatedIsOver, Over, TerminatedIsNotRunning
<1> QED BY <1>1, StartInvariant, PTL
=============================================================================
