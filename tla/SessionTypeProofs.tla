-------------------------- MODULE SessionTypeProofs --------------------------
(***************************************************************************)
(* Type correctness of the session control plane, for any sets of          *)
(* sessions, connections and requests.                                     *)
(***************************************************************************)
EXTENDS SessionInvariants, TLAPS

USE DEF storeVars, relayVars, requestVars, reconVars, boundVars

\* The store's types are kept by the writes the handlers share.
LEMMA RowTypes ==
    ASSUME NEW r \in Rows
    PROVE  /\ Touch(r) \in Rows
           /\ \A t \in SessionStatus : SetStatus(r, t) \in Rows
           /\ NoRow \in Rows
           /\ \A v \in Conns \cup {Nobody}, b \in BOOLEAN :
                 /\ [r EXCEPT !.viewer = v] \in Rows
                 /\ [r EXCEPT !.idle = b] \in Rows
                 /\ [r EXCEPT !.viewer = v, !.idle = b] \in Rows
BY DEF Rows, Touch, SetStatus, NoRow, SessionStatus

LEMMA CommitTypes ==
    ASSUME StoreTypeOK, NEW s, NEW r \in Rows, Commit(s, r), UNCHANGED <<box, late>>
    PROVE  StoreTypeOK'
BY DEF StoreTypeOK, Commit

LEMMA ApplyTypes ==
    ASSUME NEW c \in Containers, NEW op \in AgentOps
    PROVE  Apply(op, c) \in Containers
BY DEF AgentOps, Containers, Apply, CreateSession, StartSession, IsolateSession,
       RestoreSession, TerminateSession, Absent, Present

LEMMA AgentTypes ==
    ASSUME StoreTypeOK, NEW s, NEW op \in AgentOps,
           AgentOk(s, op) \/ AgentError(s, op), UNCHANGED <<row, lock>>
    PROVE  StoreTypeOK'
<1>1. CASE AgentOk(s, op)
  <2>1. s \in Sessions => Apply(op, box[s]) \in Containers
    BY ApplyTypes DEF StoreTypeOK
  <2> QED BY <1>1, <2>1 DEF StoreTypeOK, AgentOk
<1>2. CASE AgentError(s, op)
  BY <1>2 DEF StoreTypeOK, AgentError
<1> QED BY <1>1, <1>2

LEMMA EnvironmentTypes ==
    ASSUME TypeInv, EnvironmentActs
    PROVE  TypeInv'
<1>1. PICK s \in Sessions :
         LateEffect(s) \/ LateNothing(s) \/ SandboxExits(s) \/ TimePasses(s)
  BY DEF EnvironmentActs, Environment
<1>2. StoreTypeOK'
  <2>1. CASE LateEffect(s)
    <3>1. PICK op \in late[s] : /\ box' = [box EXCEPT ![s] = Apply(op, @)]
                                /\ late' = [late EXCEPT ![s] = @ \ {op}]
      BY <2>1 DEF LateEffect
    <3>2. Apply(op, box[s]) \in Containers
      BY ApplyTypes DEF TypeInv, TypeOK, StoreTypeOK
    <3> QED BY <2>1, <3>1, <3>2 DEF LateEffect, TypeInv, TypeOK, StoreTypeOK
  <2>2. CASE LateNothing(s)
    BY <2>2 DEF LateNothing, TypeInv, TypeOK, StoreTypeOK
  <2>3. CASE SandboxExits(s)
    BY <2>3 DEF SandboxExits, TypeInv, TypeOK, StoreTypeOK, Containers
  <2>4. CASE TimePasses(s)
    BY <2>4 DEF TimePasses, TypeInv, TypeOK, StoreTypeOK, Rows
  <2> QED BY <1>1, <2>1, <2>2, <2>3, <2>4
<1> QED BY <1>2 DEF EnvironmentActs, TypeInv, TypeOK, RelayTypeOK, RequestTypeOK,
                    ReconTypeOK, RequestShape, ConnShape, RegisteredIsOpen

LEMMA ViewerTypes ==
    ASSUME TypeInv, NEW c \in Conns, ViewerActs(c)
    PROVE  TypeInv'
<1> USE DEF TypeInv, TypeOK, RelayTypeOK, ConnShape, RegisteredIsOpen, ConnIdle, SessionStatus
<1> SUFFICES StoreTypeOK' /\ RelayTypeOK' /\ ConnShape'
  BY DEF ViewerActs, RequestTypeOK, ReconTypeOK, RequestShape
<1>1. /\ StoreTypeOK
      /\ \A s \in Sessions : row[s] \in Rows
  BY DEF StoreTypeOK
<1>2. ASSUME NEW s \in Sessions, ViewerConnects(c, s)
      PROVE  StoreTypeOK' /\ RelayTypeOK' /\ ConnShape'
  BY <1>2, <1>1 DEF ViewerConnects, StoreTypeOK, Rows
<1>3. CASE ViewerDials(c)
  BY <1>3 DEF ViewerDials, GoTo, StoreTypeOK
<1>4. CASE ViewerDialFails(c)
  BY <1>4 DEF ViewerDialFails, StoreTypeOK
<1>5. CASE ViewerStamps(c)
  <2>1. conn[c].s \in Sessions
    BY <1>5 DEF ViewerStamps
  <2>2. PICK r \in Rows : Commit(conn[c].s, r)
    BY <2>1, <1>1, <1>5, RowTypes DEF ViewerStamps
  <2> QED BY <1>1, <1>5, <2>2, CommitTypes DEF ViewerStamps, GoTo
<1>6. CASE ViewerRegisters(c)
  BY <1>6 DEF ViewerRegisters, GoTo, StoreTypeOK
<1>7. CASE ViewerLeaves(c)
  <2>1. registry' \in [Sessions -> Conns \cup {Nobody}]
    BY <1>7 DEF ViewerLeaves, Unregister
  <2>2. \A s \in Sessions : registry'[s] # c
    BY <1>7, ActorAssumption DEF ViewerLeaves, Unregister
  <2>3. \A s \in Sessions : registry'[s] \in {registry[s], Nobody}
    BY <1>7 DEF ViewerLeaves, Unregister
  <2> QED BY <1>7, <2>1, <2>2, <2>3, ActorAssumption DEF ViewerLeaves, GoTo, StoreTypeOK
<1>8. CASE ViewerDisconnects(c)
  <2>1. conn[c].s \in Sessions
    BY <1>8 DEF ViewerDisconnects
  <2>2. CASE UNCHANGED <<row, lock>>
    BY <1>8, <2>2 DEF ViewerDisconnects, GoTo, StoreTypeOK
  <2>3. CASE ~ UNCHANGED <<row, lock>>
    <3>1. PICK r \in Rows : Commit(conn[c].s, r)
      BY <2>1, <2>3, <1>1, <1>8, RowTypes DEF ViewerDisconnects
    <3> QED BY <1>1, <1>8, <3>1, CommitTypes DEF ViewerDisconnects, GoTo
  <2> QED BY <2>2, <2>3
<1>9. CASE ViewerUnstamps(c)
  <2>1. conn[c].s \in Sessions
    BY <1>9 DEF ViewerUnstamps
  <2>2. CASE UNCHANGED <<row, lock>>
    BY <1>9, <2>2 DEF ViewerUnstamps, StoreTypeOK
  <2>3. CASE ~ UNCHANGED <<row, lock>>
    <3>1. PICK r \in Rows : Commit(conn[c].s, r)
      BY <2>1, <2>3, <1>1, <1>9, RowTypes DEF ViewerUnstamps
    <3> QED BY <1>1, <1>9, <3>1, CommitTypes DEF ViewerUnstamps
  <2> QED BY <2>2, <2>3
<1> QED BY <1>2, <1>3, <1>4, <1>5, <1>6, <1>7, <1>8, <1>9 DEF ViewerActs, RelayStep

-----------------------------------------------------------------------------
\* Handlers.  What a step of a handler has to keep:
HandlerTypes == StoreTypeOK /\ RelayTypeOK /\ ConnShape /\ RequestTypeOK /\ RequestShape

LEMMA HandlerStateTypes ==
    /\ Idle \in HandlerStates
    /\ \A q \in HandlerStates, pc \in HandlerPcs, out \in SessionStatus \cup {"NONE"} :
          /\ [q EXCEPT !.pc = pc] \in HandlerStates
          /\ [q EXCEPT !.pc = pc, !.out = out] \in HandlerStates
BY DEF Idle, HandlerStates, HandlerPcs

LEMMA ProgressTypes ==
    ASSUME RequestTypeOK, NEW h \in Handlers, NEW pc \in HandlerPcs,
           NEW out \in SessionStatus \cup {"NONE"},
           Step(h, pc) \/ Conclude(h, pc, out) \/ Done(h),
           drawn' \subseteq Sessions, polling' \subseteq Sessions
    PROVE  RequestTypeOK'
<1>1. req' \in {[req EXCEPT ![h] = [req[h] EXCEPT !.pc = pc]],
                [req EXCEPT ![h] = [req[h] EXCEPT !.pc = pc, !.out = out]],
                [req EXCEPT ![h] = Idle]}
  BY DEF Step, Conclude, Done, RequestTypeOK, HandlerStates, HandlerPcs
<1>2. PICK q \in HandlerStates : req' = [req EXCEPT ![h] = q]
  BY <1>1, HandlerStateTypes DEF RequestTypeOK
<1> QED BY <1>2 DEF RequestTypeOK

LEMMA ArrivalTypes ==
    ASSUME TypeInv, NEW h \in Requests, RequestArrives(h)
    PROVE  HandlerTypes'
<1> USE DEF TypeInv, TypeOK, HandlerTypes
<1>1. PICK s \in Sessions : \/ CreateBegins(h, s)
                            \/ \E op \in RequestOps \ {"create"} : RequestBegins(h, op, s)
  BY DEF RequestArrives
<1>2. UNCHANGED <<storeVars, relayVars>> => (StoreTypeOK /\ RelayTypeOK /\ ConnShape)'
  BY DEF StoreTypeOK, RelayTypeOK, ConnShape, RegisteredIsOpen
<1>3. CASE CreateBegins(h, s)
  BY <1>2, <1>3 DEF CreateBegins, RequestTypeOK, HandlerStates, HandlerPcs, RequestShape, Idle, Ops, Handlers
<1>4. ASSUME NEW op \in RequestOps \ {"create"}, RequestBegins(h, op, s)
      PROVE  HandlerTypes'
  <2>1. op \in EndOps \cup {"isolate", "restore", "disconnect"}
    BY InstanceAssumption DEF Ops
  <2>2. row[s].status \in SessionStatus \cup {"NONE"}
    BY DEF StoreTypeOK, Rows
  <2>3. /\ FirstStep(op, row[s].status) \in {"kick", "idle", "flush", "call", "commit"}
        /\ FirstStep(op, row[s].status) \in {"flush", "call"} =>
              op \in EndOps \cup {"isolate", "restore"}
        /\ FirstStep(op, row[s].status) = "commit" => op = "disconnect"
    BY <2>1 DEF FirstStep, EndOps
  <2> DEFINE q == [op |-> op, pc |-> FirstStep(op, row[s].status), s |-> s,
                   seen |-> row[s].status,
                   sawViewer |-> op = "restore" /\ row[s].viewer # Nobody,
                   out |-> IF op = "disconnect" THEN "DISCONNECTED" ELSE "NONE"]
  <2>4. req' = [req EXCEPT ![h] = IF FirstStep(op, row[s].status) = "idle" THEN Idle ELSE q]
    BY <1>4 DEF RequestBegins, Load
  <2>5. RequestTypeOK'
    BY <1>4, <2>1, <2>2, <2>3, <2>4
    DEF RequestBegins, RequestTypeOK, HandlerStates, HandlerPcs, Idle, Ops, Handlers, SessionStatus
  <2>6. RequestShape'
    BY <2>1, <2>3, <2>4 DEF RequestShape, RequestTypeOK, HandlerStates, HandlerPcs, Idle, EndOps
  <2> QED BY <1>2, <1>4, <2>5, <2>6 DEF RequestBegins
<1> QED BY <1>1, <1>3, <1>4

LEMMA CreateTypes ==
    ASSUME TypeInv, NEW h \in Requests, CreateStep(h)
    PROVE  HandlerTypes'
<1> USE DEF TypeInv, TypeOK, HandlerTypes
<1>0. h \in Handlers /\ AgentOps = {"create", "start", "isolate", "restore", "terminate"}
  BY DEF Handlers, AgentOps
<1>1. UNCHANGED relayVars => RelayTypeOK' /\ ConnShape'
  BY DEF RelayTypeOK, ConnShape, RegisteredIsOpen
<1>2. ASSUME NEW pc \in {"create", "start"}, NEW next \in {"start", "ready"},
             CreateCalls(h, pc, pc, next)
      PROVE  HandlerTypes'
  <2>1. StoreTypeOK'
    BY <1>0, <1>2, AgentTypes DEF CreateCalls
  <2>2. RequestTypeOK' /\ RequestShape'
    BY <1>0, <1>2 DEF CreateCalls, RequestTypeOK, HandlerStates, HandlerPcs, RequestShape, At, Step
  <2> QED BY <1>1, <1>2, <2>1, <2>2 DEF CreateCalls
<1>3. CASE DisplayReady(h)
  BY <1>0, <1>1, <1>3
  DEF DisplayReady, StoreTypeOK, RequestTypeOK, HandlerStates, HandlerPcs, RequestShape, At, Step, Conclude, SessionStatus
<1>4. CASE CreateCleansUp(h)
  <2>1. StoreTypeOK'
    BY <1>0, <1>4, AgentTypes DEF CreateCleansUp
  <2>2. RequestTypeOK'
    BY <1>0, <1>4, ProgressTypes DEF CreateCleansUp, RequestTypeOK, HandlerStates, HandlerPcs, SessionStatus
  <2>3. RequestShape'
    BY <1>0, <1>4 DEF CreateCleansUp, RequestTypeOK, HandlerStates, HandlerPcs, RequestShape, At, Conclude
  <2> QED BY <1>1, <1>4, <2>1, <2>2, <2>3 DEF CreateCleansUp
<1>5. CASE CreateCommits(h)
  <2>1. [NoRow EXCEPT !.status = req[h].out] \in Rows
    BY <1>0 DEF NoRow, Rows, RequestTypeOK, HandlerStates, HandlerPcs
  <2>2. StoreTypeOK'
    BY <1>5, <2>1, CommitTypes DEF CreateCommits
  <2>3. req[h].s \in Sessions
    BY <1>0, <1>5 DEF CreateCommits, At, RequestShape
  <2>4. RequestTypeOK' /\ RequestShape'
    BY <1>0, <1>5, <2>3 DEF CreateCommits, RequestTypeOK, HandlerStates, HandlerPcs, RequestShape, Done, Idle
  <2> QED BY <1>1, <1>5, <2>2, <2>4 DEF CreateCommits
<1> QED BY <1>2, <1>3, <1>4, <1>5 DEF CreateStep, CreateSandbox, StartSandbox

LEMMA ServiceTypes ==
    ASSUME TypeInv, NEW h \in Handlers, ServiceStep(h)
    PROVE  HandlerTypes'
<1> USE DEF TypeInv, TypeOK, HandlerTypes
<1>1. UNCHANGED relayVars => RelayTypeOK' /\ ConnShape'
  BY DEF RelayTypeOK, ConnShape, RegisteredIsOpen
<1>2. CASE Flush(h)
  <2>1. StoreTypeOK'
    BY <1>2 DEF Flush, Lock, StoreTypeOK
  <2>2. RequestTypeOK' /\ RequestShape'
    BY <1>2 DEF Flush, At, Step, RequestTypeOK, HandlerStates, HandlerPcs, RequestShape
  <2> QED BY <1>1, <1>2, <2>1, <2>2 DEF Flush
<1>3. CASE CallAgent(h)
  <2>1. req[h].op \in {"end", "kill", "reap", "isolate", "restore"}
    BY <1>3 DEF CallAgent, At, RequestShape, EndOps
  <2>2. AgentOp(req[h].op) \in AgentOps
        /\ Outcome(req[h].op) \in {"TERMINATED", "ISOLATED", "ACTIVE"}
    BY <2>1 DEF AgentOp, AgentOps, Outcome, EndOps
  <2>3. StoreTypeOK'
    BY <1>3, <2>2, AgentTypes DEF CallAgent
  <2>4. PICK out \in {"TERMINATED", "ISOLATED", "ACTIVE", "FAILED"} : Conclude(h, "commit", out)
    BY <1>3, <2>2 DEF CallAgent
  <2>5. RequestTypeOK'
    BY <1>3, <2>4, ProgressTypes DEF CallAgent, RequestTypeOK, HandlerPcs, SessionStatus
  <2>6. RequestShape'
    BY <1>3, <2>1, <2>4 DEF CallAgent, Conclude, At, RequestTypeOK, HandlerStates, RequestShape
  <2> QED BY <1>1, <1>3, <2>3, <2>5, <2>6 DEF CallAgent
<1>4. CASE RequestCommits(h)
  <2>1. req[h].s \in Sessions
    BY <1>4 DEF RequestCommits, At, RequestShape
  <2>2. row[req[h].s] \in Rows
    BY <2>1 DEF StoreTypeOK
  <2>3. Written(h, row[req[h].s]) \in Rows
    BY <2>2 DEF Written, Rows, Touch, SetStatus, RequestTypeOK, HandlerStates, HandlerPcs, SessionStatus
  <2>4. StoreTypeOK'
    BY <1>4, <2>3, CommitTypes DEF RequestCommits
  <2>5. RequestTypeOK'
    BY <1>4, ProgressTypes DEF RequestCommits, RequestTypeOK, HandlerStates, HandlerPcs
  <2>6. RequestShape'
    <3>1. CASE Step(h, "kick")
      BY <1>4, <3>1 DEF RequestCommits, At, Step, RequestTypeOK, HandlerStates, HandlerPcs, RequestShape
    <3>2. CASE Done(h)
      BY <3>2 DEF Done, Idle, RequestTypeOK, HandlerStates, HandlerPcs, RequestShape
    <3> QED BY <1>4, <3>1, <3>2 DEF RequestCommits
  <2> QED BY <1>1, <1>4, <2>4, <2>5, <2>6 DEF RequestCommits
<1>5. CASE KickViewer(h)
  <2>1. req[h].s \in Sessions
    BY <1>5 DEF KickViewer, At, RequestShape
  <2>2. RelayTypeOK' /\ ConnShape'
    BY <1>5, <2>1, ActorAssumption DEF KickViewer, ForceDisconnect, Unregister, GoTo, RelayTypeOK, ConnShape, RegisteredIsOpen
  <2>3. RequestTypeOK' /\ RequestShape'
    BY <1>5 DEF KickViewer, Done, Idle, RequestTypeOK, HandlerStates, HandlerPcs, RequestShape
  <2> QED BY <1>5, <2>2, <2>3 DEF KickViewer, StoreTypeOK
<1> QED BY <1>2, <1>3, <1>4, <1>5 DEF ServiceStep

LEMMA ReaperTypes ==
    ASSUME TypeInv, ReaperSelects \/ ReaperClaims \/ ReaperLoads
    PROVE  HandlerTypes'
<1> USE DEF TypeInv, TypeOK, HandlerTypes
<1>0. Reaper \in Handlers /\ Reaper \notin Requests
  BY ActorAssumption DEF Handlers
<1>1. UNCHANGED relayVars => RelayTypeOK' /\ ConnShape'
  BY DEF RelayTypeOK, ConnShape, RegisteredIsOpen
<1>2. ASSUME NEW op \in {"reap", "recover"}, NEW s \in Sessions, Selects(op, s)
      PROVE  HandlerTypes'
  <2>1. row[s].status \in SessionStatus \cup {"NONE"}
    BY DEF StoreTypeOK, Rows
  <2>2. RequestTypeOK' /\ RequestShape'
    BY <1>0, <1>2, <2>1 DEF Selects, RequestTypeOK, HandlerStates, HandlerPcs, RequestShape, Idle, Ops, EndOps, At
  <2> QED BY <1>1, <1>2, <2>2 DEF Selects, StoreTypeOK
<1>3. CASE ReaperClaims
  <2>1. req[Reaper].s \in Sessions
    BY <1>0, <1>3 DEF ReaperClaims, At, RequestShape
  <2>2. row[req[Reaper].s] \in Rows
    BY <2>1 DEF StoreTypeOK
  <2>3. StoreTypeOK'
    <3>1. CASE UNCHANGED <<row, lock>>
      BY <1>3, <3>1 DEF ReaperClaims, StoreTypeOK
    <3>2. CASE ~ UNCHANGED <<row, lock>>
      <4>1. PICK r \in Rows : Commit(req[Reaper].s, r)
        BY <1>3, <2>2, <3>2, RowTypes DEF ReaperClaims, SessionStatus
      <4> QED BY <1>3, <4>1, CommitTypes DEF ReaperClaims
    <3> QED BY <3>1, <3>2
  <2>4. RequestTypeOK'
    BY <1>0, <1>3, ProgressTypes DEF ReaperClaims, RequestTypeOK, HandlerStates, HandlerPcs
  <2>5. RequestShape'
    <3>1. CASE Step(Reaper, "read")
      BY <1>0, <1>3, <2>1, <3>1 DEF ReaperClaims, At, Step, RequestTypeOK, HandlerStates, HandlerPcs, RequestShape
    <3>2. CASE Done(Reaper)
      BY <1>0, <3>2 DEF Done, Idle, RequestTypeOK, HandlerStates, HandlerPcs, RequestShape
    <3> QED BY <1>3, <3>1, <3>2 DEF ReaperClaims
  <2> QED BY <1>1, <1>3, <2>3, <2>4, <2>5 DEF ReaperClaims
<1>4. CASE ReaperLoads
  <2> DEFINE s == req[Reaper].s
  <2>1. s \in Sessions
    BY <1>0, <1>4 DEF ReaperLoads, At, RequestShape
  <2>2. row[s].status \in SessionStatus \cup {"NONE"}
    BY <2>1 DEF StoreTypeOK, Rows
  <2>3. FirstStep("reap", row[s].status) \in {"idle", "flush"}
    BY DEF FirstStep, EndOps
  <2>4. req' \in {[req EXCEPT ![Reaper] = Idle],
                  [req EXCEPT ![Reaper] =
                     [op |-> "reap", pc |-> "flush", s |-> s, seen |-> row[s].status,
                      sawViewer |-> FALSE, out |-> "NONE"]]}
    BY <1>4, <2>3 DEF ReaperLoads, Load
  <2>5. RequestTypeOK'
    <3>1. [op |-> "reap", pc |-> "flush", s |-> s, seen |-> row[s].status,
           sawViewer |-> FALSE, out |-> "NONE"] \in HandlerStates
      BY <2>1, <2>2 DEF HandlerStates, HandlerPcs, Ops, EndOps
    <3>2. PICK q \in HandlerStates : req' = [req EXCEPT ![Reaper] = q]
      BY <2>4, <3>1, HandlerStateTypes
    <3> QED BY <1>0, <1>4, <3>2 DEF ReaperLoads, RequestTypeOK
  <2>6. RequestShape'
    BY <1>0, <2>1, <2>4 DEF RequestTypeOK, HandlerStates, HandlerPcs, RequestShape, Idle, EndOps
  <2> QED BY <1>1, <1>4, <2>5, <2>6 DEF ReaperLoads, StoreTypeOK
<1> QED BY <1>2, <1>3, <1>4 DEF ReaperSelects, ReapSelects, RecoverSelects

LEMMA HandlerTypesSuffice ==
    ASSUME TypeInv, HandlerTypes', UNCHANGED <<reconVars, boundVars>>
    PROVE  TypeInv'
BY DEF TypeInv, TypeOK, HandlerTypes, ReconTypeOK

-----------------------------------------------------------------------------
\* The reconciler and the restart.

LEMMA CountTypes ==
    ASSUME NEW n \in 0..GraceCycles
    PROVE  CountUp(n) \in 0..GraceCycles
BY GraceAssumption DEF CountUp

LEMMA ReconcilerTypes ==
    ASSUME TypeInv, ReconcilerLists \/ ReconcilerActs
    PROVE  TypeInv'
<1> USE DEF TypeInv, TypeOK
<1>1. UNCHANGED requestVars => RequestTypeOK' /\ RequestShape'
  BY DEF RequestTypeOK, RequestShape
<1>2. UNCHANGED relayVars => RelayTypeOK' /\ ConnShape'
  BY DEF RelayTypeOK, ConnShape, RegisteredIsOpen
<1>3. UNCHANGED storeVars => StoreTypeOK'
  BY DEF StoreTypeOK
<1>4. CASE ReconcilerLists
  <2>1. recon' \in Cycles
    BY <1>4 DEF ReconcilerLists, ReconLists, ReconCannotList, ReconIdle, Cycles
  <2>2. /\ UNCHANGED <<storeVars, relayVars, requestVars, orphanSeen, lostSeen, crashes>>
        /\ straddled' \subseteq Sessions
    BY <1>4 DEF ReconcilerLists, ReconLists, ReconCannotList
  <2> QED BY <1>1, <1>2, <1>3, <2>1, <2>2 DEF ReconTypeOK
<1>5. CASE ReconcilerActs
  <2> SUFFICES StoreTypeOK' /\ RelayTypeOK' /\ ConnShape' /\ ReconTypeOK'
               /\ UNCHANGED requestVars
    BY <1>1, <1>5 DEF ReconcilerActs
  <2>1. CASE ReconReadsRows
    <3>1. orphanSeen' \in [Sessions -> 0..GraceCycles]
      BY <2>1, CountTypes, GraceAssumption DEF ReconReadsRows, ReconTypeOK, Cycles
    <3> QED BY <1>2, <1>3, <2>1, <3>1 DEF ReconReadsRows, ReconTypeOK, Cycles
  <2>2. ASSUME NEW s \in Sessions, ReconKills(s)
        PROVE  StoreTypeOK' /\ RelayTypeOK' /\ ConnShape' /\ ReconTypeOK' /\ UNCHANGED requestVars
    <3>1. StoreTypeOK'
      BY <2>2, AgentTypes DEF ReconKills, AgentOps
    <3> QED BY <1>2, <2>2, <3>1 DEF ReconKills, ReconTypeOK, Cycles
  <2>3. CASE ReconKillsDone
    BY <1>2, <1>3, <2>3 DEF ReconKillsDone, ReconTypeOK, Cycles
  <2>4. CASE ReconFindsLost
    <3>1. lostSeen' \in [Sessions -> 0..GraceCycles]
      BY <2>4, CountTypes, GraceAssumption DEF ReconFindsLost, ReconTypeOK, Cycles
    <3> QED BY <1>2, <1>3, <2>4, <3>1 DEF ReconFindsLost, ReconTypeOK, Cycles
  <2>5. ASSUME NEW s \in Sessions, ReconRemoves(s)
        PROVE  StoreTypeOK' /\ RelayTypeOK' /\ ConnShape' /\ ReconTypeOK' /\ UNCHANGED requestVars
    <3>1. StoreTypeOK'
      BY <1>3, <2>5, AgentTypes DEF ReconRemoves, AgentOps
    <3>2. recon' \in {[recon EXCEPT !.lose = @ \ {s}, !.removed = @ \cup {s}],
                       [recon EXCEPT !.lose = @ \ {s}]}
      BY <2>5 DEF ReconRemoves
    <3>3. recon' \in Cycles
      <4>1. recon \in Cycles
        BY DEF ReconTypeOK
      <4>2. CASE recon' = [recon EXCEPT !.lose = @ \ {s}, !.removed = @ \cup {s}]
        BY <4>1, <4>2 DEF Cycles
      <4>3. CASE recon' = [recon EXCEPT !.lose = @ \ {s}]
        BY <4>1, <4>3 DEF Cycles
      <4> QED BY <3>2, <4>2, <4>3
    <3> QED BY <1>2, <2>5, <3>1, <3>3 DEF ReconRemoves, ReconTypeOK
  <2>6. ASSUME NEW s \in Sessions, ReconFails(s)
        PROVE  StoreTypeOK' /\ RelayTypeOK' /\ ConnShape' /\ ReconTypeOK' /\ UNCHANGED requestVars
    <3>1. StoreTypeOK'
      BY <2>6 DEF ReconFails, Lock, StoreTypeOK
    <3>2. RelayTypeOK' /\ ConnShape'
      BY <2>6, ActorAssumption
      DEF ReconFails, DiscardStaleConnection, RelayTypeOK, ConnShape, RegisteredIsOpen
    <3>3. recon' \in Cycles
      BY <2>6 DEF ReconFails, ReconTypeOK, Cycles
    <3>4. lostSeen' \in [Sessions -> 0..GraceCycles]
      BY <2>6, GraceAssumption DEF ReconFails, ReconTypeOK
    <3> QED BY <2>6, <3>1, <3>2, <3>3, <3>4 DEF ReconFails, ReconTypeOK
  <2>7. CASE ReconCommits
    <3>1. StoreTypeOK'
      BY <2>7, RowTypes DEF ReconCommits, StoreTypeOK, SessionStatus
    <3> QED BY <1>2, <2>7, <3>1 DEF ReconCommits, ReconTypeOK, ReconIdle, Cycles
  <2> QED BY <1>5, <2>1, <2>2, <2>3, <2>4, <2>5, <2>6, <2>7 DEF ReconcilerActs, ReconStep
<1> QED BY <1>4, <1>5

LEMMA RestartTypes ==
    ASSUME TypeInv, BackendRestarts
    PROVE  TypeInv'
<1> USE DEF TypeInv, TypeOK, BackendRestarts
<1>1. row' \in [Sessions -> Rows]
  BY RowTypes DEF ResetViewerStamps, StoreTypeOK
<1>2. StoreTypeOK'
  BY <1>1, LateAssumption DEF StoreTypeOK
<1>3. RelayTypeOK' /\ ConnShape'
  BY ActorAssumption DEF RelayTypeOK, ConnShape, RegisteredIsOpen, ConnIdle
<1>4. RequestTypeOK' /\ RequestShape'
  BY DEF RequestTypeOK, HandlerStates, HandlerPcs, RequestShape, Idle
<1>5. ReconTypeOK'
  BY GraceAssumption DEF ReconTypeOK, ReconIdle, Cycles
<1> QED BY <1>2, <1>3, <1>4, <1>5, InstanceAssumption

LEMMA TypeInit == Init => TypeInv
<1> SUFFICES ASSUME Init PROVE TypeInv
  OBVIOUS
<1>1. StoreTypeOK
  BY DEF Init, StoreInit, StoreTypeOK, Rows, NoRow, Containers, Absent
<1>2. RelayTypeOK /\ ConnShape
  BY ActorAssumption
  DEF Init, RelayInit, RelayTypeOK, ConnShape, RegisteredIsOpen, ConnIdle
<1>3. RequestTypeOK /\ RequestShape
  BY DEF Init, RequestInit, RequestTypeOK, HandlerStates, HandlerPcs, RequestShape, Idle
<1>4. ReconTypeOK
  BY GraceAssumption DEF Init, ReconInit, ReconTypeOK, ReconIdle, Cycles
<1> QED BY <1>1, <1>2, <1>3, <1>4, InstanceAssumption DEF Init, TypeInv, TypeOK

LEMMA TypeStep == TypeInv /\ [Next]_vars => TypeInv'
<1> SUFFICES ASSUME TypeInv, [Next]_vars PROVE TypeInv'
  OBVIOUS
<1>1. CASE EnvironmentActs
  BY <1>1, EnvironmentTypes
<1>2. ASSUME NEW c \in Conns, ViewerActs(c) PROVE TypeInv'
  BY <1>2, ViewerTypes
<1>3. ASSUME NEW h \in Requests, RequestActs(h) PROVE TypeInv'
  <2>1. HandlerTypes'
    BY <1>3, ArrivalTypes, CreateTypes, ServiceTypes DEF RequestActs, Handlers
  <2> QED BY <1>3, <2>1, HandlerTypesSuffice DEF RequestActs
<1>4. CASE PollerActs
  BY <1>4 DEF PollerActs, PollerStops, TypeInv, TypeOK, StoreTypeOK, RelayTypeOK,
              RequestTypeOK, ReconTypeOK, RequestShape, ConnShape, RegisteredIsOpen
<1>5. CASE ReaperActs
  <2>1. HandlerTypes'
    BY <1>5, ReaperTypes, ServiceTypes DEF ReaperActs, Handlers
  <2> QED BY <1>5, <2>1, HandlerTypesSuffice DEF ReaperActs
<1>6. CASE ReconcilerLists \/ ReconcilerActs
  BY <1>6, ReconcilerTypes
<1>7. CASE BackendRestarts
  BY <1>7, RestartTypes
<1>8. CASE UNCHANGED vars
  BY <1>8 DEF vars, TypeInv, TypeOK, StoreTypeOK, RelayTypeOK, RequestTypeOK,
              ReconTypeOK, RequestShape, ConnShape, RegisteredIsOpen
<1> QED BY <1>1, <1>2, <1>3, <1>4, <1>5, <1>6, <1>7, <1>8 DEF Next

\* The state of the control plane has its type, and a handler's program counter
\* its operation, whatever interleaving of requests, jobs, late agent effects
\* and crashes happens.
THEOREM TypeInvariant == Spec => []TypeInv
BY TypeInit, TypeStep, PTL DEF Spec

\* Every variable of the control plane keeps its type.
THEOREM TypeCorrect == Spec => []TypeOK
<1>1. TypeInv => TypeOK
  BY DEF TypeInv
<1> QED BY <1>1, TypeInvariant, PTL

\* A connection in the registry is open on the session it is registered for,
\* so force_disconnect never closes another session's display.
THEOREM RegistryCorrect == Spec => []RegisteredIsOpen
<1>1. TypeInv => RegisteredIsOpen
  BY DEF TypeInv, ConnShape
<1> QED BY <1>1, TypeInvariant, PTL
=============================================================================
