------------------------- MODULE SessionSafetyProofs -------------------------
(***************************************************************************)
(* What the rows say, for any number of actors: no intermediate status is  *)
(* ever committed, no viewer stamp is left behind, and no row lock; the    *)
(* reconciler spares creations; an ISOLATED session has no network; and a  *)
(* sandbox runs in one stretch.                                            *)
(***************************************************************************)
EXTENDS SandboxProofs

USE DEF storeVars, relayVars, requestVars, reconVars, boundVars

Settled == {"ACTIVE", "DISCONNECTED", "ISOLATED", "TERMINATING", "TERMINATED", "FAILED"}

\* Every write of the status column is of a settled status.
SettledWrites == \A s \in Sessions : row'[s].status \in Settled \cup {row[s].status}

LEMMA CommitIsSettled ==
    ASSUME TypeInv, NEW s \in Sessions, NEW r \in Rows, Commit(s, r),
           r.status \in Settled \cup {row[s].status}
    PROVE  SettledWrites
BY DEF SettledWrites, Commit, TypeInv, TypeOK, StoreTypeOK

LEMMA WritesAreSettled ==
    ASSUME TypeInv, [Next]_vars
    PROVE  SettledWrites
<1>1. UNCHANGED row => SettledWrites
  BY DEF SettledWrites
<1>2. \A s \in Sessions : row[s] \in Rows
  BY DEF TypeInv, TypeOK, StoreTypeOK
<1>3. SessionStatus = Settled \cup {"QUEUED", "STARTING", "ISOLATING"}
  BY DEF SessionStatus, Settled
<1>4. CASE EnvironmentActs
  BY <1>1, <1>2, <1>4
  DEF EnvironmentActs, Environment, LateEffect, LateNothing, SandboxExits, TimePasses,
      SettledWrites, TypeInv, TypeOK, StoreTypeOK, Rows
<1>5. ASSUME NEW c \in Conns, ViewerActs(c) PROVE SettledWrites
  <2>1. CASE ViewerStamps(c)
    <3> PICK s \in Sessions : s = conn[c].s
      BY <2>1 DEF ViewerStamps, TypeInv, ConnShape
    <3> DEFINE r == [(IF conn[c].seen = "ACTIVE" THEN Touch(row[s])
                                                 ELSE SetStatus(row[s], "ACTIVE"))
                       EXCEPT !.viewer = c, !.idle = FALSE]
    <3>1. r \in Rows /\ r.status \in {row[s].status, "ACTIVE"}
      BY <1>2 DEF Rows, Touch, SetStatus, SessionStatus
    <3>2. Commit(s, r)
      BY <2>1 DEF ViewerStamps
    <3> HIDE DEF r
    <3> QED BY <3>1, <3>2, CommitIsSettled DEF Settled
  <2>2. CASE ViewerDisconnects(c)
    <3> PICK s \in Sessions : s = conn[c].s
      BY <2>2 DEF ViewerDisconnects, TypeInv, ConnShape
    <3> DEFINE r == [SetStatus(row[s], "DISCONNECTED") EXCEPT !.viewer = Nobody, !.idle = FALSE]
    <3>1. r \in Rows /\ r.status = "DISCONNECTED"
      BY <1>2 DEF Rows, Touch, SetStatus, SessionStatus
    <3>2. Commit(s, r) \/ UNCHANGED row
      BY <2>2 DEF ViewerDisconnects
    <3> HIDE DEF r
    <3> QED BY <1>1, <3>1, <3>2, CommitIsSettled DEF Settled
  <2>3. CASE ViewerUnstamps(c)
    <3> PICK s \in Sessions : s = conn[c].s
      BY <2>3 DEF ViewerUnstamps, TypeInv, ConnShape
    <3> DEFINE r == [Touch(row[s]) EXCEPT !.viewer = Nobody]
    <3>1. r \in Rows /\ r.status = row[s].status
      BY <1>2 DEF Rows, Touch
    <3>2. Commit(s, r) \/ UNCHANGED row
      BY <2>3 DEF ViewerUnstamps
    <3> HIDE DEF r
    <3> QED BY <1>1, <3>1, <3>2, CommitIsSettled
  <2> QED BY <1>1, <1>5, <2>1, <2>2, <2>3
          DEF ViewerActs, RelayStep, ViewerConnects, ViewerDials, ViewerDialFails,
              ViewerRegisters, ViewerLeaves
<1>6. ASSUME NEW h \in Handlers, RequestCommits(h) PROVE SettledWrites
  <2> PICK s \in Sessions : s = req[h].s
    BY <1>6 DEF RequestCommits, At, TypeInv, RequestShape
  <2>1. req[h].out \in Settled
    BY <1>6 DEF RequestCommits, At, TypeInv, RequestShape, Settled
  <2>2. Written(h, row[s]) \in Rows /\ Written(h, row[s]).status \in {row[s].status, req[h].out}
    BY <1>2 DEF Written, Rows, Touch, SetStatus, TypeInv, TypeOK, RequestTypeOK,
                HandlerStates, SessionStatus
  <2> QED BY <1>6, <2>1, <2>2, CommitIsSettled DEF RequestCommits
<1>7. ASSUME NEW h \in Handlers, ServiceStep(h) PROVE SettledWrites
  BY <1>1, <1>6, <1>7 DEF ServiceStep, Flush, CallAgent, KickViewer
<1>8. ASSUME NEW h \in Requests, RequestActs(h) PROVE SettledWrites
  <2>0. h \in Handlers
    BY DEF Handlers
  <2>1. CASE CreateCommits(h)
    <3> PICK s \in Sessions : s = req[h].s
      BY <2>0, <2>1 DEF CreateCommits, At, TypeInv, RequestShape
    <3>1. req[h].out \in Settled
      BY <2>0, <2>1 DEF CreateCommits, At, TypeInv, RequestShape, Settled
    <3> DEFINE r == [NoRow EXCEPT !.status = req[h].out]
    <3>2. r \in Rows /\ r.status = req[h].out
      BY <1>3, <3>1 DEF NoRow, Rows
    <3>3. Commit(s, r)
      BY <2>1 DEF CreateCommits
    <3> HIDE DEF r
    <3> QED BY <3>1, <3>2, <3>3, CommitIsSettled
  <2> QED BY <1>1, <1>7, <1>8, <2>0, <2>1
          DEF RequestActs, RequestArrives, CreateBegins, RequestBegins, CreateStep,
              CreateSandbox, StartSandbox, CreateCalls, DisplayReady, CreateCleansUp
<1>9. CASE PollerActs
  BY <1>1, <1>9 DEF PollerActs, PollerStops
<1>10. CASE ReaperActs
  <2>0. Reaper \in Handlers
    BY DEF Handlers
  <2>1. CASE ReaperClaims
    <3> PICK s \in Sessions : s = req[Reaper].s
      BY <2>0, <2>1 DEF ReaperClaims, At, TypeInv, RequestShape
    <3>1. \/ UNCHANGED row
          \/ Commit(s, SetStatus(row[s], "TERMINATING"))
          \/ Commit(s, Touch(row[s]))
      BY <2>1 DEF ReaperClaims
    <3>2. /\ SetStatus(row[s], "TERMINATING") \in Rows /\ Touch(row[s]) \in Rows
          /\ SetStatus(row[s], "TERMINATING").status = "TERMINATING"
          /\ Touch(row[s]).status = row[s].status
      BY <1>2 DEF SetStatus, Touch, Rows, SessionStatus
    <3> QED BY <1>1, <3>1, <3>2, CommitIsSettled DEF Settled
  <2> QED BY <1>1, <1>7, <1>10, <2>0, <2>1
          DEF ReaperActs, ReaperSelects, ReapSelects, RecoverSelects, Selects, ReaperLoads
<1>11. CASE ReconcilerLists \/ ReconcilerActs
  <2>1. CASE ReconCommits
    BY <1>2, <2>1 DEF ReconCommits, SetStatus, Touch, Rows, SettledWrites, Settled
  <2> QED BY <1>1, <1>11, <2>1
          DEF ReconcilerLists, ReconLists, ReconCannotList, ReconcilerActs, ReconStep,
              ReconReadsRows, ReconKills, ReconKillsDone, ReconFindsLost, ReconRemoves, ReconFails
<1>12. CASE BackendRestarts
  BY <1>2, <1>12 DEF BackendRestarts, ResetViewerStamps, Touch, Rows, SettledWrites
<1>13. CASE UNCHANGED vars
  BY <1>1, <1>13 DEF vars
<1> QED BY <1>4, <1>5, <1>8, <1>9, <1>10, <1>11, <1>12, <1>13 DEF Next

\* QUEUED, STARTING and ISOLATING never reach a committed row, so a crash
\* cannot leave a session in one of them.
THEOREM TransientStaysPrivate == Spec => []TransientNeverCommitted
<1>1. Init => TransientNeverCommitted
  BY DEF Init, StoreInit, NoRow, TransientNeverCommitted
<1>2. TypeInv /\ TransientNeverCommitted /\ [Next]_vars => TransientNeverCommitted'
  BY WritesAreSettled DEF TransientNeverCommitted, SettledWrites, Settled
<1> QED BY <1>1, <1>2, TypeInvariant, PTL DEF Spec

-----------------------------------------------------------------------------
\* Nobody but a connecting viewer writes a stamp; the others keep or clear it.
StampsKept == \A s \in Sessions : row'[s].viewer \in {row[s].viewer, Nobody}

LEMMA CommitKeepsStamps ==
    ASSUME TypeInv, NEW s \in Sessions, NEW r, Commit(s, r), r.viewer \in {row[s].viewer, Nobody}
    PROVE  StampsKept
BY DEF StampsKept, Commit, TypeInv, TypeOK, StoreTypeOK

LEMMA HandlersKeepStamps ==
    ASSUME TypeInv, NEW h \in Handlers, ServiceStep(h) \/ CreateStep(h)
    PROVE  StampsKept
<1>1. UNCHANGED row => StampsKept
  BY DEF StampsKept
<1>2. CASE RequestCommits(h)
  <2> PICK s \in Sessions : s = req[h].s
    BY <1>2 DEF RequestCommits, At, TypeInv, RequestShape
  <2>1. Written(h, row[s]).viewer \in {row[s].viewer, Nobody}
    BY DEF Written, Rows, Touch, SetStatus, TypeInv, TypeOK, StoreTypeOK
  <2> QED BY <1>2, <2>1, CommitKeepsStamps DEF RequestCommits
<1>3. CASE CreateCommits(h)
  <2> PICK s \in Sessions : s = req[h].s
    BY <1>3 DEF CreateCommits, At, TypeInv, RequestShape
  <2>1. [NoRow EXCEPT !.status = req[h].out].viewer = Nobody
    BY DEF NoRow
  <2> QED BY <1>3, <2>1, CommitKeepsStamps DEF CreateCommits
<1> QED BY <1>1, <1>2, <1>3
        DEF ServiceStep, Flush, CallAgent, KickViewer, CreateStep,
            CreateSandbox, StartSandbox, CreateCalls, DisplayReady, CreateCleansUp

LEMMA JobsKeepStamps ==
    ASSUME TypeInv, \/ EnvironmentActs \/ PollerActs \/ ReaperActs \/ ReconcilerLists
                    \/ ReconcilerActs \/ \E h \in Requests : RequestActs(h)
    PROVE  StampsKept
<1>1. UNCHANGED row => StampsKept
  BY DEF StampsKept
<1>2. \A s \in Sessions : row[s] \in Rows
  BY DEF TypeInv, TypeOK, StoreTypeOK
<1>3. CASE EnvironmentActs
  BY <1>1, <1>2, <1>3
  DEF EnvironmentActs, Environment, LateEffect, LateNothing, SandboxExits, TimePasses,
      StampsKept, TypeInv, TypeOK, StoreTypeOK, Rows
<1>4. CASE PollerActs
  BY <1>1, <1>4 DEF PollerActs, PollerStops
<1>5. CASE ReaperActs
  <2>0. Reaper \in Handlers
    BY DEF Handlers
  <2>1. CASE ReaperClaims
    <3> PICK s \in Sessions : s = req[Reaper].s
      BY <2>0, <2>1 DEF ReaperClaims, At, TypeInv, RequestShape
    <3>1. \/ UNCHANGED row
          \/ Commit(s, SetStatus(row[s], "TERMINATING"))
          \/ Commit(s, Touch(row[s]))
      BY <2>1 DEF ReaperClaims
    <3>2. /\ SetStatus(row[s], "TERMINATING").viewer = row[s].viewer
          /\ Touch(row[s]).viewer = row[s].viewer
      BY <1>2 DEF SetStatus, Touch, Rows
    <3> QED BY <1>1, <3>1, <3>2, CommitKeepsStamps
  <2> QED BY <1>1, <1>5, <2>0, <2>1, HandlersKeepStamps
          DEF ReaperActs, ReaperSelects, ReapSelects, RecoverSelects, Selects, ReaperLoads
<1>6. CASE ReconcilerLists \/ ReconcilerActs
  <2>1. CASE ReconCommits
    BY <1>2, <2>1 DEF ReconCommits, SetStatus, Touch, Rows, StampsKept
  <2> QED BY <1>1, <1>6, <2>1
          DEF ReconcilerLists, ReconLists, ReconCannotList, ReconcilerActs, ReconStep,
              ReconReadsRows, ReconKills, ReconKillsDone, ReconFindsLost, ReconRemoves, ReconFails
<1>7. ASSUME NEW h \in Requests, RequestActs(h) PROVE StampsKept
  BY <1>1, <1>7, HandlersKeepStamps
  DEF RequestActs, RequestArrives, CreateBegins, RequestBegins, Handlers
<1> QED BY <1>3, <1>4, <1>5, <1>6, <1>7

\* Who closes a connection on purpose.
LEMMA KickMovesOneConnection ==
    ASSUME TypeInv, \/ EnvironmentActs \/ PollerActs \/ ReaperActs \/ ReconcilerLists
                    \/ ReconcilerActs \/ \E h \in Requests : RequestActs(h)
    PROVE  \/ UNCHANGED conn
           \/ \E c \in Conns : GoTo(c, "closing")
<1>1. ASSUME NEW h \in Handlers, KickViewer(h)
      PROVE  UNCHANGED conn \/ \E c \in Conns : GoTo(c, "closing")
  <2>1. req[h].s \in Sessions
    BY <1>1 DEF KickViewer, At, TypeInv, RequestShape
  <2> QED BY <1>1, <2>1 DEF KickViewer, ForceDisconnect, TypeInv, TypeOK, RelayTypeOK
<1>2. ASSUME NEW h \in Handlers, ServiceStep(h) \/ CreateStep(h)
      PROVE  UNCHANGED conn \/ KickViewer(h)
  BY <1>2 DEF ServiceStep, Flush, CallAgent, RequestCommits, CreateStep,
              CreateSandbox, StartSandbox, CreateCalls, DisplayReady, CreateCleansUp, CreateCommits
<1>3. CASE ReaperActs
  BY <1>1, <1>2, <1>3
  DEF ReaperActs, ReaperSelects, ReapSelects, RecoverSelects, Selects, ReaperClaims, ReaperLoads,
      Handlers
<1>4. ASSUME NEW h \in Requests, RequestActs(h)
      PROVE  UNCHANGED conn \/ \E c \in Conns : GoTo(c, "closing")
  BY <1>1, <1>2, <1>4 DEF RequestActs, RequestArrives, CreateBegins, RequestBegins, Handlers
<1>5. CASE EnvironmentActs \/ PollerActs
  BY <1>5 DEF EnvironmentActs, PollerActs, PollerStops
<1>6. CASE ReconcilerLists \/ ReconcilerActs
  BY <1>6 DEF ReconcilerLists, ReconLists, ReconCannotList, ReconcilerActs, ReconStep,
              ReconReadsRows, ReconKills, ReconKillsDone, ReconFindsLost, ReconRemoves,
              ReconFails, ReconCommits, DiscardStaleConnection
<1> QED BY <1>3, <1>4, <1>5, <1>6

LEMMA ViewerKeepsStampInv ==
    ASSUME TypeInv, StampHasItsConnection, NEW c \in Conns, ViewerActs(c)
    PROVE  StampHasItsConnection'
<1> USE DEF StampHasItsConnection
<1>0. /\ \A s \in Sessions : row[s] \in Rows
      /\ Nobody \notin Conns
  BY ActorAssumption DEF TypeInv, TypeOK, StoreTypeOK
<1>1. ASSUME NEW s \in Sessions, ViewerConnects(c, s) PROVE StampHasItsConnection'
  BY <1>1 DEF ViewerConnects, TypeInv, TypeOK, RelayTypeOK
<1>2. CASE ViewerDials(c)
  BY <1>2 DEF ViewerDials, GoTo, TypeInv, TypeOK, RelayTypeOK
<1>3. CASE ViewerDialFails(c)
  BY <1>3 DEF ViewerDialFails, TypeInv, TypeOK, RelayTypeOK
<1>4. CASE ViewerStamps(c)
  <2> PICK s \in Sessions : s = conn[c].s
    BY <1>4 DEF ViewerStamps, TypeInv, ConnShape
  <2>1. /\ \A t \in Sessions : t # s => row'[t] = row[t]
        /\ row'[s].viewer = c
    BY <1>0, <1>4 DEF ViewerStamps, Commit, Touch, SetStatus, Rows, TypeInv, TypeOK, StoreTypeOK
  <2>2. /\ conn'[c].s = s /\ conn'[c].pc = "register"
        /\ \A d \in Conns : d # c => conn'[d] = conn[d]
    BY <1>4 DEF ViewerStamps, GoTo, TypeInv, TypeOK, RelayTypeOK
  <2>3. \A t \in Sessions : row[t].viewer # c
    BY <1>4 DEF ViewerStamps
  <2> QED BY <2>1, <2>2, <2>3
<1>5. CASE ViewerRegisters(c)
  BY <1>5 DEF ViewerRegisters, GoTo, TypeInv, TypeOK, RelayTypeOK
<1>6. CASE ViewerLeaves(c)
  BY <1>6 DEF ViewerLeaves, GoTo, TypeInv, TypeOK, RelayTypeOK
<1>7. CASE ViewerDisconnects(c) /\ GoTo(c, "unstamp") /\ UNCHANGED row
  BY <1>7 DEF ViewerDisconnects, GoTo, TypeInv, TypeOK, RelayTypeOK
<1>8. ASSUME conn' = [conn EXCEPT ![c] = ConnIdle], conn[c].pc # "idle",
             \A t \in Sessions : t # conn[c].s => row'[t] = row[t],
             row'[conn[c].s].viewer = Nobody \/ (row' = row /\ row[conn[c].s].viewer # c)
      PROVE  StampHasItsConnection'
  <2>1. \A t \in Sessions : row'[t].viewer # c
    BY <1>0, <1>8
  <2> QED BY <1>0, <1>8, <2>1 DEF TypeInv, TypeOK, RelayTypeOK
<1>9. CASE ViewerDisconnects(c) /\ ~(GoTo(c, "unstamp") /\ UNCHANGED row)
  <2> PICK s \in Sessions : s = conn[c].s
    BY <1>9 DEF ViewerDisconnects, TypeInv, ConnShape
  <2> DEFINE r == [SetStatus(row[s], "DISCONNECTED") EXCEPT !.viewer = Nobody, !.idle = FALSE]
  <2>0. \/ Commit(s, r) /\ conn' = [conn EXCEPT ![c] = ConnIdle]
        \/ GoTo(c, "unstamp") /\ UNCHANGED row
    BY <1>9 DEF ViewerDisconnects
  <2>1. conn' = [conn EXCEPT ![c] = ConnIdle] /\ conn[c].pc # "idle" /\ Commit(s, r)
    BY <1>9, <2>0 DEF ViewerDisconnects
  <2>2. \A t \in Sessions : t # s => row'[t] = row[t]
    BY <2>1 DEF Commit, TypeInv, TypeOK, StoreTypeOK
  <2>3. row'[s].viewer = Nobody
    BY <1>0, <2>1 DEF Commit, SetStatus, Touch, Rows, TypeInv, TypeOK, StoreTypeOK
  <2> QED BY <1>8, <2>1, <2>2, <2>3
<1>10. CASE ViewerUnstamps(c)
  <2> PICK s \in Sessions : s = conn[c].s
    BY <1>10 DEF ViewerUnstamps, TypeInv, ConnShape
  <2> DEFINE r == [Touch(row[s]) EXCEPT !.viewer = Nobody]
  <2>0. Commit(s, r) \/ (row' = row /\ row[s].viewer # c)
    BY <1>10 DEF ViewerUnstamps
  <2>1. /\ conn' = [conn EXCEPT ![c] = ConnIdle] /\ conn[c].pc # "idle"
        /\ Commit(s, r) \/ (row' = row /\ row[s].viewer # c)
    BY <1>10, <2>0 DEF ViewerUnstamps
  <2>2. \A t \in Sessions : t # s => row'[t] = row[t]
    BY <2>1 DEF Commit, TypeInv, TypeOK, StoreTypeOK
  <2>3. row'[s].viewer = Nobody \/ (row' = row /\ row[s].viewer # c)
    <3>1. r.viewer = Nobody
      BY <1>0 DEF Touch, Rows
    <3>2. Commit(s, r) => row'[s] = r
      BY DEF Commit, TypeInv, TypeOK, StoreTypeOK
    <3> HIDE DEF r
    <3> QED BY <2>1, <3>1, <3>2
  <2> QED BY <1>8, <2>1, <2>2, <2>3
<1> QED BY <1>1, <1>2, <1>3, <1>4, <1>5, <1>6, <1>7, <1>9, <1>10 DEF ViewerActs, RelayStep

\* A viewer stamp always belongs to a connection that is open on the session
\* or still has its cleanup ahead of it, so none is left behind.
THEOREM StampsAreCleaned == Spec => []StampHasItsConnection
<1>1. Init => StampHasItsConnection
  BY ActorAssumption DEF Init, StoreInit, NoRow, StampHasItsConnection
<1>2. TypeInv /\ StampHasItsConnection /\ [Next]_vars => StampHasItsConnection'
  <2> SUFFICES ASSUME TypeInv, StampHasItsConnection, [Next]_vars PROVE StampHasItsConnection'
    OBVIOUS
  <2>1. ASSUME NEW c \in Conns, ViewerActs(c) PROVE StampHasItsConnection'
    BY <2>1, ViewerKeepsStampInv
  <2>2. CASE BackendRestarts
    <3>1. \A s \in Sessions : row'[s].viewer = Nobody
      BY <2>2 DEF BackendRestarts, ResetViewerStamps, Touch, TypeInv, TypeOK, StoreTypeOK, Rows
    <3> QED BY <3>1, ActorAssumption DEF StampHasItsConnection
  <2>3. CASE \/ EnvironmentActs \/ PollerActs \/ ReaperActs \/ ReconcilerLists
             \/ ReconcilerActs \/ \E h \in Requests : RequestActs(h)
    <3>1. StampsKept
      BY <2>3, JobsKeepStamps
    <3>2. \/ UNCHANGED conn
          \/ \E c \in Conns : GoTo(c, "closing")
      BY <2>3, KickMovesOneConnection
    <3> QED BY <3>1, <3>2, ActorAssumption
            DEF StampsKept, GoTo, StampHasItsConnection, TypeInv, TypeOK, RelayTypeOK
  <2>4. CASE UNCHANGED vars
    BY <2>4 DEF vars, StampHasItsConnection
  <2> QED BY <2>1, <2>2, <2>3, <2>4 DEF Next
<1> QED BY <1>1, <1>2, TypeInvariant, PTL DEF Spec


-----------------------------------------------------------------------------
\* A transaction that may hold a lock keeps on.
HoldersStay ==
    \A h \in Handlers :
        req[h].pc \in {"call", "commit"} =>
            req'[h].s = req[h].s /\ req'[h].pc \in {"call", "commit"}

LEMMA LocksKept ==
    ASSUME LockHasItsTransaction, HoldersStay, lock' = lock, recon'.failed = recon.failed
    PROVE  LockHasItsTransaction'
BY DEF LockHasItsTransaction, HoldersStay

\* Releasing the lock of a row that the cycle has not written.
LEMMA LockReleased ==
    ASSUME TypeInv, LockHasItsTransaction, NEW s \in Sessions, s \notin recon.failed,
           lock' = [lock EXCEPT ![s] = Nobody], recon' = recon,
           \A h \in Handlers :
              req[h].pc \in {"call", "commit"} =>
                \/ req'[h].s = req[h].s /\ req'[h].pc \in {"call", "commit"}
                \/ req[h].s = s
    PROVE  LockHasItsTransaction'
<1>1. Nobody \notin Handlers /\ Nobody # Reconciler
  BY ActorAssumption DEF Handlers
<1>2. \A t \in Sessions : lock'[t] = IF t = s THEN Nobody ELSE lock[t]
  BY DEF TypeInv, TypeOK, StoreTypeOK
<1> QED BY <1>1, <1>2 DEF LockHasItsTransaction

LEMMA UnlockedIsFree ==
    ASSUME LockHasItsTransaction, NEW s \in Sessions, NEW h \in Handlers, CanWrite(s, h)
    PROVE  s \notin recon.failed
BY ActorAssumption DEF LockHasItsTransaction, CanWrite, Handlers

LEMMA ViewerKeepsLocks ==
    ASSUME TypeInv, LockHasItsTransaction, NEW c \in Conns, ViewerActs(c)
    PROVE  LockHasItsTransaction'
<1>1. req' = req /\ recon' = recon
  BY DEF ViewerActs
<1>2. lock' = lock => LockHasItsTransaction'
  BY <1>1, LocksKept DEF HoldersStay
<1>3. ASSUME NEW s \in Sessions, NEW r, Unlocked(s), Commit(s, r)
      PROVE  LockHasItsTransaction'
  <2>1. s \notin recon.failed
    BY <1>3, ActorAssumption DEF Unlocked, LockHasItsTransaction
  <2> QED BY <1>1, <1>3, <2>1, LockReleased DEF Commit
<1>4. CASE ViewerStamps(c)
  <2>1. conn[c].s \in Sessions
    BY <1>4 DEF ViewerStamps, TypeInv, ConnShape
  <2> QED BY <1>3, <1>4, <2>1 DEF ViewerStamps
<1>5. CASE ViewerDisconnects(c)
  <2>1. conn[c].s \in Sessions
    BY <1>5 DEF ViewerDisconnects, TypeInv, ConnShape
  <2> QED BY <1>2, <1>3, <1>5, <2>1 DEF ViewerDisconnects
<1>6. CASE ViewerUnstamps(c)
  <2>1. conn[c].s \in Sessions
    BY <1>6 DEF ViewerUnstamps, TypeInv, ConnShape
  <2> QED BY <1>2, <1>3, <1>6, <2>1 DEF ViewerUnstamps
<1> QED BY <1>2, <1>4, <1>5, <1>6
        DEF ViewerActs, RelayStep, ViewerConnects, ViewerDials, ViewerDialFails,
            ViewerRegisters, ViewerLeaves

LEMMA HandlersKeepLocks ==
    ASSUME StartInv, LockHasItsTransaction, NEW h \in Handlers, recon' = recon,
           ServiceStep(h) \/ CreateStep(h)
    PROVE  LockHasItsTransaction'
<1>0. TypeInv /\ req \in [Handlers -> HandlerStates]
  BY DEF StartInv, TypeInv, TypeOK, RequestTypeOK
<1>1. CASE Flush(h)
  <2> PICK s \in Sessions : s = req[h].s
    BY <1>0, <1>1 DEF Flush, At, TypeInv, RequestShape
  <2>1. HoldersStay /\ req'[h].s = s /\ req'[h].pc = "call"
    BY <1>0, <1>1 DEF Flush, At, Step, HoldersStay, HandlerStates
  <2>2. CASE lock' = lock
    BY <2>1, <2>2, LocksKept
  <2>3. CASE CanWrite(s, h) /\ Lock(s, h)
    <3>1. \A t \in Sessions : lock'[t] = IF t = s THEN h ELSE lock[t]
      BY <1>0, <2>3 DEF Lock, TypeInv, TypeOK, StoreTypeOK
    <3>2. s \notin recon.failed /\ h # Reconciler
      BY <2>3, UnlockedIsFree, ActorAssumption DEF Handlers
    <3> QED BY <2>1, <3>1, <3>2 DEF LockHasItsTransaction, HoldersStay
  <2> QED BY <1>1, <2>2, <2>3 DEF Flush
<1>2. CASE CallAgent(h)
  <2>1. HoldersStay
    BY <1>0, <1>2 DEF CallAgent, At, Conclude, HoldersStay, HandlerStates
  <2> QED BY <1>2, <2>1, LocksKept DEF CallAgent
<1>3. CASE RequestCommits(h)
  <2> PICK s \in Sessions : s = req[h].s
    BY <1>0, <1>3 DEF RequestCommits, At, TypeInv, RequestShape
  <2>1. s \notin recon.failed
    BY <1>3, UnlockedIsFree DEF RequestCommits
  <2>2. \A g \in Handlers : g # h => req'[g] = req[g]
    BY <1>0, <1>3 DEF RequestCommits, Step, Done
  <2> QED BY <1>0, <1>3, <2>1, <2>2, LockReleased DEF RequestCommits, Commit
<1>4. CASE CreateCommits(h)
  <2> PICK s \in Sessions : s = req[h].s
    BY <1>0, <1>4 DEF CreateCommits, At, TypeInv, RequestShape
  <2>1. Creator(h, s)
    BY <1>0, <1>4 DEF CreateCommits, At, Creator, TypeInv, RequestShape
  <2>2. s \notin recon.failed
    BY <2>1 DEF StartInv, CreatorIsAlone, ActsOnCommittedRow
  <2>3. \A g \in Handlers : g # h => req'[g] = req[g]
    BY <1>0, <1>4 DEF CreateCommits, Done
  <2> QED BY <1>0, <1>4, <2>2, <2>3, LockReleased DEF CreateCommits, Commit
<1>5. CASE \/ KickViewer(h) \/ CreateSandbox(h) \/ StartSandbox(h)
           \/ DisplayReady(h) \/ CreateCleansUp(h)
  <2>1. HoldersStay
    BY <1>0, <1>5 DEF KickViewer, CreateSandbox, StartSandbox, CreateCalls, DisplayReady,
                      CreateCleansUp, At, Step, Conclude, Done, HoldersStay
  <2>2. lock' = lock
    BY <1>5 DEF KickViewer, CreateSandbox, StartSandbox, CreateCalls, DisplayReady,
                CreateCleansUp
  <2> QED BY <2>1, <2>2, LocksKept
<1> QED BY <1>1, <1>2, <1>3, <1>4, <1>5 DEF ServiceStep, CreateStep

LEMMA ReaperKeepsLocks ==
    ASSUME StartInv, LockHasItsTransaction, ReaperActs
    PROVE  LockHasItsTransaction'
<1>0. Reaper \in Handlers /\ TypeInv /\ recon' = recon /\ req \in [Handlers -> HandlerStates]
  BY DEF Handlers, ReaperActs, StartInv, TypeInv, TypeOK, RequestTypeOK
<1>1. CASE ReaperSelects \/ ReaperLoads
  <2>1. HoldersStay
    BY <1>0, <1>1 DEF ReaperSelects, ReapSelects, RecoverSelects, Selects, ReaperLoads, Load,
                      At, HoldersStay
  <2> QED BY <1>0, <1>1, <2>1, LocksKept
          DEF ReaperSelects, ReapSelects, RecoverSelects, Selects, ReaperLoads
<1>2. CASE ReaperClaims
  <2> PICK s \in Sessions : s = req[Reaper].s
    BY <1>0, <1>2 DEF ReaperClaims, At, TypeInv, RequestShape
  <2>1. HoldersStay
    BY <1>0, <1>2 DEF ReaperClaims, At, Step, Done, HoldersStay
  <2>2. CASE lock' = lock
    BY <1>0, <2>1, <2>2, LocksKept
  <2>3. CASE Unlocked(s) /\ lock' = [lock EXCEPT ![s] = Nobody]
    <3>1. s \notin recon.failed
      BY <2>3, ActorAssumption DEF Unlocked, LockHasItsTransaction
    <3> QED BY <1>0, <2>1, <2>3, <3>1, LockReleased DEF HoldersStay
  <2> QED BY <1>2, <2>2, <2>3 DEF ReaperClaims, Commit
<1> QED BY <1>0, <1>1, <1>2, HandlersKeepLocks DEF ReaperActs

\* Between two cycles no row is set FAILED.
CycleRests == recon.pc = "idle" => recon.failed = {}

LEMMA CycleRestsStep == TypeInv /\ CycleRests /\ [Next]_vars => CycleRests'
<1> SUFFICES ASSUME TypeInv, CycleRests, [Next]_vars PROVE CycleRests'
  OBVIOUS
<1>0. recon \in Cycles
  BY DEF TypeInv, TypeOK, ReconTypeOK
<1>1. recon' = recon => CycleRests'
  BY DEF CycleRests
<1>2. CASE ReconcilerLists
  <2>1. recon'.failed = {}
    BY <1>2 DEF ReconcilerLists, ReconLists, ReconCannotList, ReconIdle
  <2> QED BY <2>1 DEF CycleRests
<1>3. CASE ReconCommits \/ BackendRestarts
  <2>1. recon'.failed = {}
    BY <1>3 DEF ReconCommits, BackendRestarts, ReconIdle
  <2> QED BY <2>1 DEF CycleRests
<1>4. CASE ReconcilerActs /\ ~ReconCommits
  <2>1. recon'.pc # "idle"
    BY <1>0, <1>4
    DEF ReconcilerActs, ReconStep, ReconReadsRows, ReconKills, ReconKillsDone,
        ReconFindsLost, ReconRemoves, ReconFails, Cycles
  <2> QED BY <2>1 DEF CycleRests
<1>5. ASSUME NEW h \in Requests, RequestActs(h) PROVE recon' = recon
  BY <1>5 DEF RequestActs
<1> QED BY <1>1, <1>2, <1>3, <1>4, <1>5
        DEF Next, vars, EnvironmentActs, ViewerActs, PollerActs, ReaperActs

LEMMA ReconcilerKeepsLocks ==
    ASSUME TypeInv, CycleRests, LockHasItsTransaction, ReconcilerLists \/ ReconcilerActs
    PROVE  LockHasItsTransaction'
<1>0. recon \in Cycles /\ req' = req
  BY DEF TypeInv, TypeOK, ReconTypeOK, ReconcilerLists, ReconLists, ReconCannotList,
         ReconcilerActs, ReconStep, ReconReadsRows, ReconKills, ReconKillsDone, ReconFindsLost,
         ReconRemoves, ReconFails, ReconCommits
<1>1. HoldersStay
  BY <1>0 DEF HoldersStay
<1>2. ASSUME NEW s \in Sessions, ReconFails(s) PROVE LockHasItsTransaction'
  <2>1. recon'.failed = recon.failed \cup {s}
    BY <1>0, <1>2 DEF ReconFails, Cycles
  <2>2. \A t \in Sessions : lock'[t] = IF t = s THEN Reconciler ELSE lock[t]
    BY <1>2 DEF ReconFails, Lock, TypeInv, TypeOK, StoreTypeOK
  <2> QED BY <1>0, <2>1, <2>2, ActorAssumption DEF LockHasItsTransaction, Handlers
<1>3. CASE ReconCommits
  <2>1. recon'.failed = {}
    BY <1>3 DEF ReconCommits, ReconIdle
  <2>2. \A t \in Sessions : lock'[t] = IF t \in recon.failed THEN Nobody ELSE lock[t]
    BY <1>3 DEF ReconCommits
  <2> QED BY <1>0, <2>1, <2>2, ActorAssumption DEF LockHasItsTransaction, Handlers
<1>4. CASE ReconcilerLists
  <2>1. lock' = lock /\ recon.pc = "idle" /\ recon'.failed = {}
    BY <1>4 DEF ReconcilerLists, ReconLists, ReconCannotList, ReconIdle
  <2> QED BY <1>1, <2>1, LocksKept DEF CycleRests
<1>5. ASSUME NEW s \in Sessions,
             \/ ReconReadsRows \/ ReconKills(s) \/ ReconKillsDone
             \/ ReconFindsLost \/ ReconRemoves(s)
      PROVE  LockHasItsTransaction'
  <2>1. lock' = lock /\ recon'.failed = recon.failed
    BY <1>0, <1>5 DEF ReconReadsRows, ReconKills, ReconKillsDone, ReconFindsLost, ReconRemoves,
                      Cycles
  <2> QED BY <1>1, <2>1, LocksKept
<1>6. CASE ReconReadsRows \/ ReconKillsDone \/ ReconFindsLost
  <2>1. lock' = lock /\ recon'.failed = recon.failed
    BY <1>0, <1>6 DEF ReconReadsRows, ReconKillsDone, ReconFindsLost, Cycles
  <2> QED BY <1>1, <2>1, LocksKept
<1> QED BY <1>2, <1>3, <1>4, <1>5, <1>6 DEF ReconcilerActs, ReconStep

LEMMA LocksStep ==
    ASSUME StartInv, CycleRests, LockHasItsTransaction, [Next]_vars
    PROVE  LockHasItsTransaction'
<1>0. TypeInv /\ req \in [Handlers -> HandlerStates]
  BY DEF StartInv, TypeInv, TypeOK, RequestTypeOK
<1>1. CASE EnvironmentActs \/ PollerActs
  <2>1. lock' = lock /\ recon' = recon /\ req' = req
    BY <1>1 DEF EnvironmentActs, Environment, LateEffect, LateNothing, SandboxExits, TimePasses,
                PollerActs, PollerStops
  <2> QED BY <2>1, LocksKept DEF HoldersStay
<1>2. ASSUME NEW c \in Conns, ViewerActs(c) PROVE LockHasItsTransaction'
  BY <1>0, <1>2, ViewerKeepsLocks
<1>3. ASSUME NEW h \in Requests, RequestActs(h) PROVE LockHasItsTransaction'
  <2>1. h \in Handlers /\ recon' = recon
    BY <1>3 DEF Handlers, RequestActs
  <2>2. CASE RequestArrives(h)
    <3>1. HoldersStay
      BY <1>0, <2>1, <2>2 DEF RequestArrives, CreateBegins, RequestBegins, Load, At, HoldersStay
    <3> QED BY <2>1, <2>2, <3>1, LocksKept DEF RequestArrives, CreateBegins, RequestBegins
  <2> QED BY <1>3, <2>1, <2>2, HandlersKeepLocks DEF RequestActs
<1>4. CASE ReaperActs
  BY <1>4, ReaperKeepsLocks
<1>5. CASE ReconcilerLists \/ ReconcilerActs
  BY <1>0, <1>5, ReconcilerKeepsLocks
<1>6. CASE BackendRestarts
  <2>1. recon'.failed = {} /\ \A s \in Sessions : lock'[s] = Nobody
    BY <1>6 DEF BackendRestarts, ReconIdle
  <2> QED BY <2>1, ActorAssumption DEF LockHasItsTransaction, Handlers
<1>7. CASE UNCHANGED vars
  BY <1>7 DEF vars, LockHasItsTransaction
<1> QED BY <1>1, <1>2, <1>3, <1>4, <1>5, <1>6, <1>7 DEF Next

\* A row lock always belongs to a transaction that is between its flush and its
\* commit: no handler, reaper or cycle that finished or died keeps others waiting.
THEOREM LocksAreReleased == Spec => []LockHasItsTransaction
<1>1. Init => LockHasItsTransaction
  BY ActorAssumption DEF Init, StoreInit, ReconInit, ReconIdle, LockHasItsTransaction, Handlers
<1>2. Init => CycleRests
  BY DEF Init, ReconInit, ReconIdle, CycleRests
<1>3. StartInv => TypeInv
  BY DEF StartInv
<1>4. StartInv /\ CycleRests /\ LockHasItsTransaction /\ [Next]_vars => LockHasItsTransaction'
  BY LocksStep
<1> QED BY <1>1, <1>2, <1>3, <1>4, CycleRestsStep, StartInvariant, PTL DEF Spec


-----------------------------------------------------------------------------
\* The grace period.

NoNewCreation ==
    \A h \in Handlers :
        req'[h].op = "create" => req[h].op = "create" /\ req'[h].s = req[h].s

LEMMA GraceKept ==
    ASSUME GraceInv, NoNewCreation, orphanSeen' = orphanSeen, straddled' = straddled,
           drawn' = drawn, recon'.kill \subseteq recon.kill,
           recon'.managed \subseteq recon.managed
    PROVE  GraceInv'
<1>1. \A s \in Sessions : Creating(s)' => Creating(s)
  BY DEF Creating, NoNewCreation, Handlers
<1> QED BY <1>1 DEF GraceInv

LEMMA HandlersKeepGrace ==
    ASSUME TypeInv, GraceInv, NEW h \in Handlers, ServiceStep(h) \/ CreateStep(h),
           UNCHANGED <<reconVars, boundVars>>
    PROVE  GraceInv'
<1>0. req \in [Handlers -> HandlerStates]
  BY DEF TypeInv, TypeOK, RequestTypeOK
<1>1. drawn' = drawn
  BY DEF ServiceStep, Flush, CallAgent, RequestCommits, KickViewer, CreateStep, CreateSandbox,
         StartSandbox, CreateCalls, DisplayReady, CreateCleansUp, CreateCommits
<1>2. \A g \in Handlers : req'[g].op = "create" => req'[g].op = req[g].op /\ req'[g].s = req[g].s
  BY <1>0 DEF ServiceStep, Flush, CallAgent, RequestCommits, KickViewer, CreateStep, CreateSandbox,
         StartSandbox, CreateCalls, DisplayReady, CreateCleansUp, CreateCommits,
         Step, Conclude, Done, Idle, HandlerStates
<1>3. NoNewCreation
  BY <1>2 DEF NoNewCreation
<1> QED BY <1>1, <1>3, GraceKept

LEMMA ArrivalKeepsGrace ==
    ASSUME StartInv, GraceInv, NEW h \in Requests, RequestArrives(h),
           UNCHANGED <<reconVars, boundVars>>
    PROVE  GraceInv'
<1>0. req \in [Handlers -> HandlerStates] /\ h \in Handlers
  BY DEF StartInv, TypeInv, TypeOK, RequestTypeOK, Handlers
<1>1. ASSUME NEW s \in Sessions, CreateBegins(h, s) PROVE GraceInv'
  <2>1. /\ drawn' = drawn \cup {s} /\ s \notin drawn
        /\ \A g \in Handlers : g # h => req'[g] = req[g]
        /\ req'[h].s = s
    BY <1>0, <1>1 DEF CreateBegins, Idle
  <2>2. \A t \in Sessions : t # s /\ Creating(t)' => Creating(t)
    BY <2>1 DEF Creating, Handlers
  <2>3. s \notin recon.kill \cup recon.managed /\ orphanSeen[s] = 0
    BY <2>1 DEF StartInv, UndrawnIsUntouched, GraceInv
  <2> QED BY <2>1, <2>2, <2>3 DEF GraceInv
<1>2. ASSUME NEW s \in Sessions, NEW op \in RequestOps \ {"create"}, RequestBegins(h, op, s)
      PROVE  GraceInv'
  <2>1. NoNewCreation
    BY <1>0, <1>2 DEF RequestBegins, Load, Idle, NoNewCreation
  <2> QED BY <1>2, <2>1, GraceKept DEF RequestBegins
<1> QED BY <1>1, <1>2 DEF RequestArrives

LEMMA ReaperKeepsGrace ==
    ASSUME TypeInv, GraceInv, ReaperActs
    PROVE  GraceInv'
<1>0. Reaper \in Handlers /\ req \in [Handlers -> HandlerStates]
  BY DEF Handlers, TypeInv, TypeOK, RequestTypeOK
<1>1. CASE ReaperSelects \/ ReaperLoads \/ ReaperClaims
  <2>1. NoNewCreation
    <3>1. CASE ReaperSelects
      BY <1>0, <3>1 DEF ReaperSelects, ReapSelects, RecoverSelects, Selects, Idle, NoNewCreation
    <3>2. CASE ReaperLoads
      BY <1>0, <3>2 DEF ReaperLoads, Load, Idle, NoNewCreation
    <3>3. CASE ReaperClaims
      BY <1>0, <3>3 DEF ReaperClaims, Step, Done, Idle, NoNewCreation, HandlerStates
    <3> QED BY <1>1, <3>1, <3>2, <3>3
  <2>2. drawn' = drawn
    BY <1>1 DEF ReaperSelects, ReapSelects, RecoverSelects, Selects, ReaperLoads, ReaperClaims
  <2> QED BY <2>1, <2>2, GraceKept DEF ReaperActs
<1> QED BY <1>0, <1>1, HandlersKeepGrace DEF ReaperActs

LEMMA ReconcilerKeepsGrace ==
    ASSUME GraceCycles > 1, StartInv, GraceInv, ReconcilerLists \/ ReconcilerActs
    PROVE  GraceInv'
<1>0. /\ recon \in Cycles /\ req' = req /\ drawn' = drawn
      /\ orphanSeen \in [Sessions -> 0..GraceCycles] /\ GraceCycles \in Nat
  BY GraceAssumption
  DEF StartInv, TypeInv, TypeOK, ReconTypeOK, ReconcilerLists, ReconLists, ReconCannotList,
      ReconcilerActs, ReconStep, ReconReadsRows, ReconKills, ReconKillsDone, ReconFindsLost,
      ReconRemoves, ReconFails, ReconCommits
<1>1. NoNewCreation
  BY <1>0 DEF NoNewCreation
<1>2. \A s \in Sessions : Creating(s)' <=> Creating(s)
  BY <1>0 DEF Creating
<1>3. CASE ReconcilerLists
  <2>1. \A s \in Sessions : Creating(s) => s \notin straddled /\ orphanSeen[s] = 0
    <3>1. \A s \in Sessions : Creating(s) => s \notin straddled
      BY <1>3 DEF ReconcilerLists, CycleMayList
    <3>2. \A s \in Sessions : orphanSeen[s] \in Nat
      BY <1>0
    <3> QED BY <3>1, <3>2 DEF GraceInv
  <2>2. /\ \A s \in Sessions : s \in straddled' <=> Creating(s)
        /\ orphanSeen' = orphanSeen
    BY <1>3 DEF ReconcilerLists, ReconLists, ReconCannotList
  <2>3. recon'.kill = {}
    BY <1>3 DEF ReconcilerLists, ReconLists, ReconCannotList, ReconIdle
  <2> QED BY <1>0, <1>2, <2>1, <2>2, <2>3 DEF GraceInv
<1>4. CASE ReconReadsRows /\ UNCHANGED boundVars
  <2> DEFINE orphans == {s \in recon.managed : row[s].status \notin NotOrphanStatuses}
             kill == {s \in orphans : CountUp(orphanSeen[s]) >= GraceCycles}
  <2>1. /\ recon'.kill = kill /\ recon'.managed = {}
        /\ \A s \in Sessions : orphanSeen'[s] = IF s \in kill THEN 0
                                 ELSE IF s \in orphans THEN CountUp(orphanSeen[s])
                                 ELSE IF s \in recon.managed THEN 0 ELSE orphanSeen[s]
    BY <1>0, <1>4 DEF ReconReadsRows, Cycles
  <2>2. recon.managed \subseteq drawn
    BY DEF StartInv, UndrawnIsUntouched
  <2>3. ASSUME NEW s \in Sessions, s \notin drawn PROVE orphanSeen'[s] = 0
    <3>1. orphanSeen[s] = 0 /\ s \notin recon.managed
      BY <2>2, <2>3 DEF GraceInv
    <3> QED BY <2>1, <3>1
  <2>4. ASSUME NEW s \in Sessions, Creating(s)
        PROVE  /\ s \notin recon'.kill /\ s \notin recon'.managed
               /\ orphanSeen'[s] > 0 => s \in straddled /\ orphanSeen'[s] = 1
    <3>1. CASE s \in recon.managed
      <4>1. orphanSeen[s] = 0 /\ s \in straddled
        BY <2>4, <3>1 DEF GraceInv
      <4>2. CountUp(orphanSeen[s]) = 1
        BY <1>0, <4>1 DEF CountUp
      <4>3. s \notin kill
        BY <1>0, <4>2
      <4> HIDE DEF kill, orphans
      <4> QED BY <2>1, <3>1, <4>1, <4>2, <4>3
    <3>2. CASE s \notin recon.managed
      <4>1. s \notin orphans /\ s \notin kill
        BY <3>2
      <4>2. orphanSeen'[s] = orphanSeen[s]
        BY <2>1, <3>2, <4>1
      <4> HIDE DEF kill, orphans
      <4> QED BY <2>1, <2>4, <4>1, <4>2 DEF GraceInv
    <3> QED BY <3>1, <3>2
  <2> HIDE DEF kill, orphans
  <2> QED BY <1>0, <1>2, <1>4, <2>3, <2>4 DEF GraceInv
<1>5. ASSUME NEW s \in Sessions, UNCHANGED boundVars,
             ReconKills(s) \/ ReconRemoves(s) \/ ReconFails(s)
      PROVE  GraceInv'
  <2>1. /\ orphanSeen' = orphanSeen
        /\ recon'.kill \subseteq recon.kill /\ recon'.managed = recon.managed
    BY <1>0, <1>5 DEF ReconKills, ReconRemoves, ReconFails, Cycles
  <2> QED BY <1>0, <1>1, <1>5, <2>1, GraceKept
<1>6. CASE UNCHANGED boundVars /\ (ReconKillsDone \/ ReconFindsLost \/ ReconCommits)
  <2>1. /\ orphanSeen' = orphanSeen
        /\ recon'.kill \subseteq recon.kill /\ recon'.managed \subseteq recon.managed
    <3>1. CASE ReconKillsDone
      BY <1>0, <3>1 DEF ReconKillsDone, Cycles
    <3>2. CASE ReconFindsLost
      BY <1>0, <3>2 DEF ReconFindsLost, Cycles
    <3>3. CASE ReconCommits
      BY <3>3 DEF ReconCommits, ReconIdle
    <3> QED BY <1>6, <3>1, <3>2, <3>3
  <2> QED BY <1>0, <1>1, <1>6, <2>1, GraceKept
<1> QED BY <1>3, <1>4, <1>5, <1>6 DEF ReconcilerActs, ReconStep

LEMMA GraceStep ==
    ASSUME GraceCycles > 1, StartInv, GraceInv, [Next]_vars
    PROVE  GraceInv'
<1>0. TypeInv
  BY DEF StartInv
<1>1. CASE EnvironmentActs \/ PollerActs \/ UNCHANGED vars \/ \E c \in Conns : ViewerActs(c)
  <2>1. UNCHANGED <<req, drawn, reconVars, boundVars>>
    BY <1>1 DEF EnvironmentActs, PollerActs, PollerStops, ViewerActs, vars
  <2> QED BY <2>1, GraceKept DEF NoNewCreation
<1>2. ASSUME NEW h \in Requests, RequestActs(h) PROVE GraceInv'
  BY <1>0, <1>2, HandlersKeepGrace, ArrivalKeepsGrace DEF RequestActs, Handlers
<1>3. CASE ReaperActs
  BY <1>0, <1>3, ReaperKeepsGrace
<1>4. CASE ReconcilerLists \/ ReconcilerActs
  BY <1>4, ReconcilerKeepsGrace
<1>5. CASE BackendRestarts
  <2>1. \A s \in Sessions : ~Creating(s)' /\ orphanSeen'[s] = 0
    BY <1>5 DEF BackendRestarts, Creating, Idle, Handlers
  <2> QED BY <2>1 DEF GraceInv
<1> QED BY <1>1, <1>2, <1>3, <1>4, <1>5 DEF Next

\* The reconciler never terminates the container of a session that is still
\* being created, if its grace is more than one cycle (the default is two): no
\* creation is in flight during two listings, and one is not enough.
THEOREM GraceIsEnough ==
    ASSUME GraceCycles > 1
    PROVE  Spec => []GraceSparesCreation
<1>1. Init => GraceInv
  <2>1. Init => \A s \in Sessions : ~Creating(s) /\ orphanSeen[s] = 0
    BY DEF Init, RequestInit, ReconInit, Idle, Creating, Handlers
  <2> QED BY <2>1 DEF GraceInv
<1>2. StartInv /\ GraceInv /\ [Next]_vars => GraceInv'
  BY GraceStep
<1>3. StartInv /\ GraceInv => GraceSparesCreation
  <2> QED BY DEF StartInv, TypeInv, TypeOK, ReconTypeOK, Cycles, GraceInv, GraceSparesCreation
<1> QED BY <1>1, <1>2, <1>3, StartInvariant, PTL DEF Spec


-----------------------------------------------------------------------------
\* Isolation.

LEMMA LateStep ==
    ASSUME TypeInv, \A s \in Sessions : late[s] \subseteq LateOps, [Next]_vars
    PROVE  \A s \in Sessions : late'[s] \subseteq LateOps
<1> USE DEF TypeInv, TypeOK, StoreTypeOK
<1>1. late' = late => \A s \in Sessions : late'[s] \subseteq LateOps
  OBVIOUS
<1>2. ASSUME NEW s, NEW op, AgentOk(s, op) \/ AgentError(s, op)
      PROVE  \A t \in Sessions : late'[t] \subseteq LateOps
  BY <1>2 DEF AgentOk, AgentError
<1>3. CASE EnvironmentActs
  BY <1>1, <1>3 DEF EnvironmentActs, Environment, LateEffect, LateNothing, SandboxExits, TimePasses
<1>4. ASSUME NEW h \in Handlers, ServiceStep(h) \/ CreateStep(h)
      PROVE  \A s \in Sessions : late'[s] \subseteq LateOps
  BY <1>1, <1>2, <1>4
  DEF ServiceStep, Flush, CallAgent, RequestCommits, KickViewer, CreateStep, CreateSandbox,
      StartSandbox, CreateCalls, DisplayReady, CreateCleansUp, CreateCommits
<1>5. ASSUME NEW h \in Requests, RequestActs(h)
      PROVE  \A s \in Sessions : late'[s] \subseteq LateOps
  BY <1>1, <1>4, <1>5 DEF RequestActs, RequestArrives, CreateBegins, RequestBegins, Handlers
<1>6. CASE ReaperActs
  BY <1>1, <1>4, <1>6 DEF ReaperActs, ReaperSelects, ReapSelects, RecoverSelects, Selects,
                          ReaperClaims, ReaperLoads, Handlers
<1>7. CASE ReconcilerLists \/ ReconcilerActs
  BY <1>1, <1>2, <1>7
  DEF ReconcilerLists, ReconLists, ReconCannotList, ReconcilerActs, ReconStep, ReconReadsRows,
      ReconKills, ReconKillsDone, ReconFindsLost, ReconRemoves, ReconFails, ReconCommits
<1>8. ASSUME NEW c \in Conns, ViewerActs(c) PROVE late' = late
  BY <1>8 DEF ViewerActs, RelayStep, ViewerConnects, ViewerDials, ViewerDialFails, ViewerStamps,
              ViewerRegisters, ViewerLeaves, ViewerDisconnects, ViewerUnstamps
<1>9. CASE PollerActs \/ UNCHANGED vars
  BY <1>1, <1>9 DEF PollerActs, PollerStops, vars
<1>10. CASE BackendRestarts
  BY <1>10 DEF BackendRestarts
<1> QED BY <1>1, <1>3, <1>5, <1>6, <1>7, <1>8, <1>9, <1>10 DEF Next

\* OutcomeFits and IsolationLocks, of one handler.
FitsAt(h) ==
    /\ req[h].op = "restore" => h \in Requests
    /\ req[h].op \in {"isolate", "restore"} => req[h].pc \in {"flush", "call", "commit"}
    /\ req[h].pc = "commit" =>
          \/ req[h].op \in EndOps /\ req[h].out \in {"TERMINATED", "FAILED"}
          \/ req[h].op = "isolate" /\ req[h].out \in {"ISOLATED", "FAILED"}
          \/ req[h].op = "restore" /\ req[h].out \in {"ACTIVE", "FAILED"}
          \/ req[h].op = "disconnect" /\ req[h].out = "DISCONNECTED"

LocksAt(h) ==
    req[h].op = "isolate" =>
        /\ req[h].seen \in {"ACTIVE", "DISCONNECTED"}
        /\ req[h].pc \in {"call", "commit"} => lock[req[h].s] = h

\* The step leaves the isolations of the others with their locks.
LEMMA OthersKeepTheirs ==
    ASSUME TypeInv, OutcomeFits, IsolationLocks, NEW h \in Handlers,
           \A g \in Handlers : g # h => req'[g] = req[g],
           \A g \in Handlers, s \in Sessions :
              /\ g # h /\ lock[s] = g
              /\ req[g].op = "isolate" /\ req[g].pc \in {"call", "commit"} /\ req[g].s = s
              => lock'[s] = g,
           FitsAt(h)', LocksAt(h)'
    PROVE  OutcomeFits' /\ IsolationLocks'
<1>1. ASSUME NEW g \in Handlers, g # h PROVE FitsAt(g)' /\ LocksAt(g)'
  <2>1. FitsAt(g) /\ LocksAt(g) /\ req'[g] = req[g]
    BY <1>1 DEF OutcomeFits, IsolationLocks, FitsAt, LocksAt
  <2>2. req[g].pc \in {"call", "commit"} => req[g].s \in Sessions
    BY DEF TypeInv, RequestShape
  <2> QED BY <1>1, <2>1, <2>2 DEF FitsAt, LocksAt
<1> QED BY <1>1 DEF OutcomeFits, IsolationLocks, FitsAt, LocksAt

\* Whoever writes a row waits for the lock of an isolation.
LEMMA WriterWaits ==
    ASSUME TypeInv, NEW h \in Handlers, NEW s \in Sessions, CanWrite(s, h),
           Lock(s, h) \/ lock' = [lock EXCEPT ![s] = Nobody]
    PROVE  \A g \in Handlers, t \in Sessions : g # h /\ lock[t] = g => lock'[t] = g
<1>1. Nobody \notin Handlers
  BY ActorAssumption DEF Handlers
<1> QED BY <1>1 DEF CanWrite, Lock, TypeInv, TypeOK, StoreTypeOK

LEMMA HandlersFit ==
    ASSUME StartInv, OutcomeFits, IsolationLocks, NEW h \in Handlers,
           ServiceStep(h) \/ CreateStep(h)
    PROVE  OutcomeFits' /\ IsolationLocks'
<1>0. /\ TypeInv /\ req \in [Handlers -> HandlerStates] /\ FitsAt(h) /\ LocksAt(h)
      /\ \A g \in Handlers : g # h => req'[g] = req[g]
  <2>1. TypeInv /\ req \in [Handlers -> HandlerStates]
    BY DEF StartInv, TypeInv, TypeOK, RequestTypeOK
  <2>2. \A g \in Handlers : g # h => req'[g] = req[g]
    BY <2>1 DEF ServiceStep, Flush, CallAgent, RequestCommits, KickViewer, CreateStep,
      CreateSandbox, StartSandbox, CreateCalls, DisplayReady, CreateCleansUp, CreateCommits,
      Step, Conclude, Done
  <2> QED BY <2>1, <2>2 DEF OutcomeFits, IsolationLocks, FitsAt, LocksAt
<1>1. CASE Flush(h)
  <2> PICK s \in Sessions : s = req[h].s
    BY <1>0, <1>1 DEF Flush, At, TypeInv, RequestShape
  <2>1. req'[h] = [req[h] EXCEPT !.pc = "call"]
    BY <1>0, <1>1 DEF Flush, Step
  <2>2. /\ req'[h].op = req[h].op /\ req'[h].s = s /\ req'[h].seen = req[h].seen
        /\ req'[h].pc = "call"
    BY <1>0, <2>1 DEF HandlerStates
  <2>3. lock' = lock \/ (CanWrite(s, h) /\ Lock(s, h))
    BY <1>1 DEF Flush
  <2>4. req[h].op = "isolate" => lock'[s] = h
    <3>1. req[h].op = "isolate" => CanWrite(s, h) /\ Lock(s, h)
      BY <1>0, <1>1 DEF Flush, Intent, LocksAt
    <3> QED BY <1>0, <3>1 DEF Lock, TypeInv, TypeOK, StoreTypeOK
  <2>5. FitsAt(h)' /\ LocksAt(h)'
    BY <1>0, <2>2, <2>4 DEF FitsAt, LocksAt
  <2>6. \A g \in Handlers, t \in Sessions : g # h /\ lock[t] = g => lock'[t] = g
    BY <1>0, <2>3, WriterWaits
  <2> QED BY <1>0, <2>5, <2>6, OthersKeepTheirs
<1>2. CASE CallAgent(h)
  <2>1. /\ req'[h].op = req[h].op /\ req'[h].s = req[h].s /\ req'[h].seen = req[h].seen
        /\ req'[h].pc = "commit" /\ req'[h].out \in {Outcome(req[h].op), "FAILED"}
        /\ req[h].pc = "call" /\ lock' = lock
    BY <1>0, <1>2 DEF CallAgent, Conclude, At, HandlerStates
  <2>2. req[h].op \in EndOps \cup {"isolate", "restore"}
    BY <1>0, <2>1 DEF TypeInv, RequestShape
  <2>3. FitsAt(h)' /\ LocksAt(h)'
    BY <1>0, <2>1, <2>2 DEF FitsAt, LocksAt, Outcome, EndOps
  <2> QED BY <1>0, <2>1, <2>3, OthersKeepTheirs
<1>3. CASE RequestCommits(h)
  <2> PICK s \in Sessions : s = req[h].s
    BY <1>0, <1>3 DEF RequestCommits, At, TypeInv, RequestShape
  <2>1. \/ req'[h] = Idle
        \/ Kicks(req[h]) /\ req'[h] = [req[h] EXCEPT !.pc = "kick"]
    BY <1>0, <1>3 DEF RequestCommits, Step, Done
  <2>2. FitsAt(h)' /\ LocksAt(h)'
    BY <1>0, <2>1 DEF FitsAt, LocksAt, Idle, Kicks, HandlerStates
  <2>3. \A g \in Handlers, t \in Sessions : g # h /\ lock[t] = g => lock'[t] = g
    BY <1>0, <1>3, WriterWaits DEF RequestCommits, Commit
  <2> QED BY <1>0, <2>2, <2>3, OthersKeepTheirs
<1>4. CASE CreateCommits(h)
  <2> PICK s \in Sessions : s = req[h].s
    BY <1>0, <1>4 DEF CreateCommits, At, TypeInv, RequestShape
  <2>1. Creator(h, s) /\ row[s].status = "NONE"
    BY <1>0, <1>4 DEF CreateCommits, At, Creator, TypeInv, RequestShape, StartInv, CreatorIsAlone
  <2>2. FitsAt(h)' /\ LocksAt(h)'
    BY <1>0, <1>4 DEF CreateCommits, Done, FitsAt, LocksAt, Idle
  <2>3. \A t \in Sessions : lock'[t] = IF t = s THEN Nobody ELSE lock[t]
    BY <1>0, <1>4 DEF CreateCommits, Commit, TypeInv, TypeOK, StoreTypeOK
  <2>4. \A g \in Handlers : req[g].op = "isolate" /\ req[g].pc # "idle" => req[g].s # s
    BY <2>1 DEF StartInv, ActsOnCommittedRow
  <2> QED BY <1>0, <2>2, <2>3, <2>4, OthersKeepTheirs
<1>5. CASE \/ KickViewer(h) \/ CreateSandbox(h) \/ StartSandbox(h)
           \/ DisplayReady(h) \/ CreateCleansUp(h)
  <2>1. lock' = lock
    BY <1>5 DEF KickViewer, CreateSandbox, StartSandbox, CreateCalls, DisplayReady, CreateCleansUp
  <2>2. \/ req'[h] = Idle
        \/ req'[h].op = req[h].op /\ req[h].op = "create" /\ req'[h].pc # "commit"
    BY <1>0, <1>5
    DEF KickViewer, CreateSandbox, StartSandbox, CreateCalls, DisplayReady, CreateCleansUp,
        Step, Conclude, Done, At, TypeInv, RequestShape, HandlerStates
  <2>3. FitsAt(h)' /\ LocksAt(h)'
    BY <1>0, <2>2 DEF FitsAt, LocksAt, Idle
  <2> QED BY <1>0, <2>1, <2>3, OthersKeepTheirs
<1> QED BY <1>1, <1>2, <1>3, <1>4, <1>5 DEF ServiceStep, CreateStep

LEMMA LoadFits ==
    ASSUME TypeInv, OutcomeFits, IsolationLocks, NEW h \in Handlers, NEW op \in Ops \ {"create"},
           NEW s \in Sessions, Load(h, op, s), lock' = lock,
           Permitted(op, row[s].status), h \in Requests \/ op = "reap"
    PROVE  OutcomeFits' /\ IsolationLocks'
<1>0. req \in [Handlers -> HandlerStates]
  BY DEF TypeInv, TypeOK, RequestTypeOK
<1>1. \A g \in Handlers : g # h => req'[g] = req[g]
  BY <1>0 DEF Load
<1>2. \/ req'[h] = Idle
      \/ /\ req'[h].op = op /\ req'[h].pc = FirstStep(op, row[s].status)
         /\ req'[h].seen = row[s].status
         /\ req'[h].out = IF op = "disconnect" THEN "DISCONNECTED" ELSE "NONE"
  BY <1>0 DEF Load
<1>3. FitsAt(h)' /\ LocksAt(h)'
  BY <1>2 DEF FitsAt, LocksAt, Idle, FirstStep, Permitted, Ops, EndOps
<1> QED BY <1>1, <1>3, OthersKeepTheirs

LEMMA FitsStep ==
    ASSUME StartInv, LockHasItsTransaction, OutcomeFits, IsolationLocks, [Next]_vars
    PROVE  OutcomeFits' /\ IsolationLocks'
<1>0. TypeInv /\ req \in [Handlers -> HandlerStates] /\ Nobody \notin Handlers
  BY ActorAssumption DEF StartInv, TypeInv, TypeOK, RequestTypeOK, Handlers
<1>1. ASSUME req' = req,
             \A g \in Handlers, s \in Sessions : lock[s] = g => lock'[s] = g
      PROVE  OutcomeFits' /\ IsolationLocks'
  <2>1. OutcomeFits'
    BY <1>1 DEF OutcomeFits
  <2>2. \A h \in Handlers : req[h].pc \in {"call", "commit"} => req[h].s \in Sessions
    BY <1>0 DEF TypeInv, RequestShape
  <2> QED BY <1>1, <2>1, <2>2 DEF IsolationLocks
<1>2. CASE EnvironmentActs \/ PollerActs \/ UNCHANGED vars
  <2>1. req' = req /\ lock' = lock
    BY <1>2 DEF EnvironmentActs, Environment, LateEffect, LateNothing, SandboxExits, TimePasses,
                PollerActs, PollerStops, vars
  <2> QED BY <1>1, <2>1
<1>3. ASSUME NEW c \in Conns, ViewerActs(c) PROVE OutcomeFits' /\ IsolationLocks'
  <2>1. req' = req
    BY <1>3 DEF ViewerActs
  <2>2. lock' = lock \/ \E s \in Sessions : Unlocked(s) /\ lock' = [lock EXCEPT ![s] = Nobody]
    <3>1. CASE ViewerStamps(c) \/ ViewerDisconnects(c) \/ ViewerUnstamps(c)
      <4>1. conn[c].s \in Sessions
        BY <1>0, <3>1 DEF ViewerStamps, ViewerDisconnects, ViewerUnstamps, TypeInv, ConnShape
      <4> QED BY <3>1, <4>1 DEF ViewerStamps, ViewerDisconnects, ViewerUnstamps, Commit
    <3> QED BY <1>3, <3>1 DEF ViewerActs, RelayStep, ViewerConnects, ViewerDials, ViewerDialFails,
                              ViewerRegisters, ViewerLeaves
  <2>3. \A g \in Handlers, s \in Sessions : lock[s] = g => lock'[s] = g
    BY <1>0, <2>2 DEF Unlocked, TypeInv, TypeOK, StoreTypeOK
  <2> QED BY <1>1, <2>1, <2>3
<1>4. ASSUME NEW h \in Requests, RequestActs(h) PROVE OutcomeFits' /\ IsolationLocks'
  <2>0. h \in Handlers
    BY DEF Handlers
  <2>1. ASSUME NEW s \in Sessions, CreateBegins(h, s) PROVE OutcomeFits' /\ IsolationLocks'
    <3>1. /\ \A g \in Handlers : g # h => req'[g] = req[g]
          /\ req'[h].op = "create" /\ req'[h].pc = "create" /\ lock' = lock
      BY <1>0, <2>0, <2>1 DEF CreateBegins, Idle
    <3>2. FitsAt(h)' /\ LocksAt(h)'
      BY <3>1 DEF FitsAt, LocksAt
    <3> QED BY <1>0, <2>0, <3>1, <3>2, OthersKeepTheirs
  <2>2. ASSUME NEW s \in Sessions, NEW op \in RequestOps \ {"create"}, RequestBegins(h, op, s)
        PROVE  OutcomeFits' /\ IsolationLocks'
    BY <1>0, <2>0, <2>2, LoadFits, InstanceAssumption DEF RequestBegins
  <2> QED BY <1>4, <2>0, <2>1, <2>2, HandlersFit DEF RequestActs, RequestArrives
<1>5. CASE ReaperActs
  <2>0. Reaper \in Handlers
    BY DEF Handlers
  <2>1. CASE ReaperSelects \/ ReaperClaims
    <3>1. /\ \A g \in Handlers : g # Reaper => req'[g] = req[g]
          /\ req'[Reaper].pc # "commit" /\ req'[Reaper].op \notin {"isolate", "restore"}
      <4>1. CASE ReaperSelects
        BY <1>0, <2>0, <4>1 DEF ReaperSelects, ReapSelects, RecoverSelects, Selects, Idle
      <4>2. CASE ReaperClaims
        <5>1. req[Reaper].op \notin {"isolate", "restore"}
          BY <2>0, <4>2 DEF ReaperClaims, At, OutcomeFits
        <5> QED BY <1>0, <2>0, <4>2, <5>1 DEF ReaperClaims, Step, Done, Idle, HandlerStates
      <4> QED BY <2>1, <4>1, <4>2
    <3>2. FitsAt(Reaper)' /\ LocksAt(Reaper)'
      BY <3>1 DEF FitsAt, LocksAt
    <3>3. \A g \in Handlers, s \in Sessions : lock[s] = g => lock'[s] = g
      <4>1. \/ lock' = lock
            \/ \E s \in Sessions : Unlocked(s) /\ lock' = [lock EXCEPT ![s] = Nobody]
        <5>1. CASE ReaperClaims
          <6>1. req[Reaper].s \in Sessions
            BY <1>0, <2>0, <5>1 DEF ReaperClaims, At, TypeInv, RequestShape
          <6> QED BY <5>1, <6>1 DEF ReaperClaims, Commit
        <5> QED BY <2>1, <5>1 DEF ReaperSelects, ReapSelects, RecoverSelects, Selects
      <4> QED BY <1>0, <4>1 DEF Unlocked, TypeInv, TypeOK, StoreTypeOK
    <3> QED BY <1>0, <2>0, <3>1, <3>2, <3>3, OthersKeepTheirs
  <2>2. CASE ReaperLoads
    <3>1. req[Reaper].s \in Sessions
      BY <1>0, <2>0, <2>2 DEF ReaperLoads, At, TypeInv, RequestShape
    <3> QED BY <1>0, <2>0, <2>2, <3>1, LoadFits DEF ReaperLoads, Permitted, Ops, EndOps
  <2> QED BY <1>5, <2>0, <2>1, <2>2, HandlersFit DEF ReaperActs
<1>6. CASE ReconcilerLists \/ ReconcilerActs
  <2>1. req' = req
    BY <1>6 DEF ReconcilerLists, ReconLists, ReconCannotList, ReconcilerActs, ReconStep,
                ReconReadsRows, ReconKills, ReconKillsDone, ReconFindsLost, ReconRemoves,
                ReconFails, ReconCommits
  <2>2. ASSUME NEW s \in Sessions, ReconFails(s)
        PROVE  \A g \in Handlers, t \in Sessions : lock[t] = g => lock'[t] = g
    BY <1>0, <2>2, ActorAssumption DEF ReconFails, CanWrite, Lock, TypeInv, TypeOK, StoreTypeOK,
                                       Handlers
  <2>3. CASE ReconCommits
    <3>1. \A t \in recon.failed \cap Sessions : lock[t] = Reconciler
      BY DEF LockHasItsTransaction
    <3>2. Reconciler \notin Handlers
      BY ActorAssumption DEF Handlers
    <3>3. \A t \in Sessions : lock'[t] = IF t \in recon.failed THEN Nobody ELSE lock[t]
      BY <2>3 DEF ReconCommits
    <3> QED BY <1>1, <2>1, <3>1, <3>2, <3>3
  <2> QED BY <1>1, <1>6, <2>1, <2>2, <2>3
          DEF ReconcilerLists, ReconLists, ReconCannotList, ReconcilerActs, ReconStep,
              ReconReadsRows, ReconKills, ReconKillsDone, ReconFindsLost, ReconRemoves
<1>7. CASE BackendRestarts
  <2>1. \A h \in Handlers : req'[h] = Idle
    BY <1>7 DEF BackendRestarts
  <2> QED BY <2>1 DEF OutcomeFits, IsolationLocks, Idle
<1> QED BY <1>2, <1>3, <1>4, <1>5, <1>6, <1>7 DEF Next


\* A start call outlives its caller only when a creation gives up on it.
LEMMA NewLateStart ==
    ASSUME StartInv, [Next]_vars, ~BackendRestarts,
           NEW s \in Sessions, "start" \in late'[s], "start" \notin late[s]
    PROVE  \E h \in Requests : /\ Creator(h, s) /\ row' = row /\ conn' = conn
                               /\ \A g \in Handlers \ {h} : req'[g] = req[g]
                               /\ req'[h].op = "create" /\ req'[h].pc = "cleanup"
<1>0. TypeInv /\ late \in [Sessions -> SUBSET AgentOps] /\ req \in [Handlers -> HandlerStates]
  BY DEF StartInv, TypeInv, TypeOK, StoreTypeOK, RequestTypeOK
<1>1. ~CalmStep
  BY DEF CalmStep, CalmStore
<1>2. ASSUME NEW t \in Sessions, NEW op \in {"create", "start"}, LateStart(t, op) PROVE FALSE
  BY <1>0, <1>2 DEF LateStart
<1>3. PICK h \in Requests : CreationMoves(h)
  BY <1>1, <1>2, StepKinds
<1>4. h \in Handlers
  BY DEF Handlers
<1>5. StartSandbox(h) /\ AgentError(req[h].s, "start")
  <2>1. ~(CreateCommits(h) \/ \E t \in Sessions : CreateBegins(h, t))
    BY DEF CreateCommits, CreateBegins
  <2>2. ~CreateSandbox(h)
    BY <1>0 DEF CreateSandbox, CreateCalls, AgentOk, AgentError
  <2> QED BY <1>3, <2>1, <2>2 DEF CreationMoves, StartSandbox, CreateCalls, AgentOk
<1>6. /\ req[h].pc = "start" /\ Step(h, "cleanup") /\ row' = row /\ conn' = conn
  <2>1. ~AgentOk(req[h].s, "start")
    BY DEF AgentOk
  <2> QED BY <1>5, <2>1 DEF StartSandbox, CreateCalls, At
<1>7. req[h].op = "create" /\ req[h].s = s
  <2>1. req[h].s \in Sessions /\ req[h].op = "create"
    BY <1>0, <1>4, <1>6 DEF TypeInv, RequestShape
  <2> QED BY <1>0, <1>5, <2>1 DEF AgentError
<1> QED BY <1>0, <1>4, <1>6, <1>7 DEF Step, Creator, HandlerStates

\* A creation's probe succeeds only after its start call did.
LEMMA NewStarts ==
    ASSUME StartInv, [Next]_vars, NEW h \in Handlers, Starts(h)'
    PROVE  /\ req[h].op = "create" /\ req'[h].s = req[h].s
           /\ Starts(h) \/ (req[h].pc = "start" /\ late' = late)
<1>0. TypeInv /\ req \in [Handlers -> HandlerStates]
  BY DEF StartInv, TypeInv, TypeOK, RequestTypeOK
<1>1. /\ req'[h] # Idle /\ req'[h].op = "create" /\ req'[h].pc \in {"ready", "insert"}
      /\ h \in Requests /\ h # Reaper
  <2>1. TypeInv'
    BY StartInvStep DEF StartInv
  <2>2. req'[h].op = "create" /\ req'[h].pc \in {"ready", "insert"}
    BY DEF Starts
  <2>3. h \in Requests
    BY <2>1, <2>2 DEF TypeInv, RequestShape, Handlers
  <2> QED BY <2>2, <2>3, ActorAssumption DEF Idle
<1>2. ASSUME NEW g \in Handlers, ServiceStep(g) PROVE req'[h] = req[h]
  BY <1>0, <1>1, <1>2 DEF ServiceStep, Flush, CallAgent, RequestCommits, KickViewer, Step, Conclude,
                          Done, HandlerStates
<1>3. ASSUME NEW g \in Handlers, CreateStep(g)
      PROVE  \/ req'[h] = req[h]
             \/ /\ req'[h].op = req[h].op /\ req'[h].s = req[h].s
                /\ Starts(h) \/ (req[h].pc = "start" /\ late' = late)
  <2>1. CASE g # h
    BY <1>0, <1>3, <2>1 DEF CreateStep, CreateSandbox, StartSandbox, CreateCalls, DisplayReady,
                            CreateCleansUp, CreateCommits, Step, Conclude, Done
  <2>2. CASE g = h /\ (CreateSandbox(h) \/ StartSandbox(h))
    BY <1>0, <1>1, <2>2 DEF CreateSandbox, StartSandbox, CreateCalls, Step, HandlerStates, At, AgentOk
  <2>3. CASE g = h /\ DisplayReady(h)
    BY <1>0, <1>1, <2>3 DEF DisplayReady, Step, Conclude, HandlerStates, At, Starts
  <2>4. CASE g = h /\ (CreateCleansUp(h) \/ CreateCommits(h))
    BY <1>0, <1>1, <2>4 DEF CreateCleansUp, CreateCommits, Conclude, Done, HandlerStates, At, Starts
  <2> QED BY <1>3, <2>1, <2>2, <2>3, <2>4 DEF CreateStep
<1>4. ASSUME NEW g \in Requests, RequestActs(g)
      PROVE  \/ req'[h] = req[h]
             \/ /\ req'[h].op = req[h].op /\ req'[h].s = req[h].s
                /\ Starts(h) \/ (req[h].pc = "start" /\ late' = late)
  <2>1. g \in Handlers
    BY DEF Handlers
  <2>2. CASE RequestArrives(g)
    <3>1. ASSUME NEW t \in Sessions, CreateBegins(g, t) PROVE req'[h] = req[h]
      <4>1. req'[g].pc = "create" /\ \A f \in Handlers : f # g => req'[f] = req[f]
        BY <1>0, <2>1, <3>1 DEF CreateBegins, Idle
      <4> QED BY <1>1, <4>1
    <3>2. ASSUME NEW t \in Sessions, NEW op \in RequestOps \ {"create"}, RequestBegins(g, op, t)
          PROVE  req'[h] = req[h]
      <4>1. req'[g].op # "create" /\ \A f \in Handlers : f # g => req'[f] = req[f]
        BY <1>0, <2>1, <3>2 DEF RequestBegins, Load, Idle
      <4> QED BY <1>1, <4>1
    <3> QED BY <2>2, <3>1, <3>2 DEF RequestArrives
  <2> QED BY <1>2, <1>3, <1>4, <2>1, <2>2 DEF RequestActs
<1>5. ASSUME ReaperActs PROVE req'[h] = req[h]
  BY <1>0, <1>1, <1>2, <1>5
  DEF ReaperActs, ReaperSelects, ReapSelects, RecoverSelects, Selects, ReaperClaims, ReaperLoads,
      Load, Step, Done, Handlers
<1>6. ~BackendRestarts
  BY <1>1 DEF BackendRestarts
<1>7. ASSUME \/ EnvironmentActs \/ PollerActs \/ ReconcilerLists \/ ReconcilerActs
             \/ UNCHANGED vars \/ \E c \in Conns : ViewerActs(c)
      PROVE  req' = req
  BY <1>7
  DEF EnvironmentActs, PollerActs, PollerStops, ReconcilerLists, ReconLists, ReconCannotList,
      ReconcilerActs, ReconStep, ReconReadsRows, ReconKills, ReconKillsDone, ReconFindsLost,
      ReconRemoves, ReconFails, ReconCommits, ViewerActs, vars
<1>8. \/ req'[h] = req[h]
      \/ /\ req'[h].op = req[h].op /\ req'[h].s = req[h].s
         /\ Starts(h) \/ (req[h].pc = "start" /\ late' = late)
  BY <1>4, <1>5, <1>6, <1>7 DEF Next
<1> QED BY <1>1, <1>8 DEF Starts


\* Nobody opens a session that was never open, but the creation that started it.
OpensNothing(s) ==
    /\ row'[s].status \in {"ACTIVE", "DISCONNECTED", "ISOLATED"} => row'[s].status = row[s].status
    /\ \A h \in Handlers :
          /\ req'[h].op \in {"isolate", "restore", "disconnect"} /\ req'[h].pc # "idle"
          /\ req'[h].s = s
          => /\ req[h].op \in {"isolate", "restore", "disconnect"} /\ req[h].pc # "idle"
             /\ req[h].s = s
    /\ \A c \in Conns : conn'[c].pc # "idle" /\ conn'[c].s = s => conn[c].pc # "idle" /\ conn[c].s = s

LEMMA StaysNeverOpened ==
    ASSUME NEW s \in Sessions, NeverOpened(s), OpensNothing(s)
    PROVE  NeverOpened(s)'
BY DEF NeverOpened, OpensNothing

\* A connection that has loaded session t acts on nothing else.
ActsOn(c, t) ==
    /\ conn[c].pc # "idle" /\ conn[c].s = t
    /\ \A u \in Sessions \ {t} : row'[u] = row[u]
    /\ \/ conn' = [conn EXCEPT ![c] = ConnIdle]
       \/ \E pc \in {"stamp", "register", "open", "closing", "unstamp"} : GoTo(c, pc)

LEMMA ViewerOpensNothing ==
    ASSUME TypeInv, NEW s \in Sessions, NeverOpened(s), NEW c \in Conns, ViewerActs(c)
    PROVE  OpensNothing(s)
<1>0. /\ req' = req
      /\ conn \in [Conns -> [pc : {"idle", "dial", "stamp", "register", "open", "closing", "unstamp"},
                             s : Sessions \cup {Nobody}, seen : SessionStatus \cup {"NONE"}]]
  BY DEF ViewerActs, TypeInv, TypeOK, RelayTypeOK
<1>1. ASSUME NEW t \in Sessions, ViewerConnects(c, t) PROVE OpensNothing(s)
  <2>1. t # s
    BY <1>1 DEF ViewerConnects, NeverOpened
  <2> QED BY <1>0, <1>1, <2>1 DEF ViewerConnects, OpensNothing
<1>2. ASSUME NEW t \in Sessions, ActsOn(c, t) PROVE OpensNothing(s)
  <2>1. t # s
    BY <1>2 DEF ActsOn, NeverOpened
  <2>2. /\ \A d \in Conns : d # c => conn'[d] = conn[d]
        /\ conn'[c] = ConnIdle \/ conn'[c].s = t
    BY <1>0, <1>2 DEF ActsOn, GoTo
  <2> QED BY <1>0, <1>2, <2>1, <2>2 DEF ActsOn, OpensNothing, ConnIdle
<1>3. ASSUME ~\E t \in Sessions : ViewerConnects(c, t)
      PROVE  ActsOn(c, conn[c].s) /\ conn[c].s \in Sessions
  <2> USE DEF ViewerActs, RelayStep, ViewerDials, ViewerDialFails, ViewerStamps, ViewerRegisters,
              ViewerLeaves, ViewerDisconnects, ViewerUnstamps
  <2>1. conn[c].pc # "idle" /\ conn[c].s \in Sessions
    BY <1>3 DEF TypeInv, ConnShape
  <2>2. \/ conn' = [conn EXCEPT ![c] = ConnIdle]
        \/ \E pc \in {"stamp", "register", "open", "closing", "unstamp"} : GoTo(c, pc)
    BY <1>3
  <2>3. row' = row \/ \E r : Commit(conn[c].s, r)
    BY <1>3
  <2>4. \A u \in Sessions \ {conn[c].s} : row'[u] = row[u]
    BY <2>1, <2>3 DEF Commit, TypeInv, TypeOK, StoreTypeOK
  <2> QED BY <2>1, <2>2, <2>4 DEF ActsOn
<1> QED BY <1>1, <1>2, <1>3

LEMMA KickOpensNothing ==
    ASSUME TypeInv, NEW t \in Sessions, ForceDisconnect(t)
    PROVE  \A c \in Conns, s \in Sessions :
              conn'[c].pc # "idle" /\ conn'[c].s = s => conn[c].pc # "idle" /\ conn[c].s = s
<1>1. \/ conn' = conn
      \/ \E c \in Conns : conn[c].pc = "open" /\ GoTo(c, "closing")
  BY DEF ForceDisconnect, TypeInv, TypeOK, RelayTypeOK, ConnShape, RegisteredIsOpen
<1> QED BY <1>1 DEF GoTo, TypeInv, TypeOK, RelayTypeOK

LEMMA HandlerOpensNothing ==
    ASSUME StartInv, OutcomeFits, NEW s \in Sessions, NeverOpened(s), NEW h \in Handlers,
           ServiceStep(h) \/ CreateStep(h), ~(Starts(h) /\ req[h].s = s)
    PROVE  OpensNothing(s)
<1>0. /\ TypeInv /\ req \in [Handlers -> HandlerStates] /\ row \in [Sessions -> Rows]
  BY DEF StartInv, TypeInv, TypeOK, RequestTypeOK, StoreTypeOK
<1>1. CASE RequestCommits(h)
  <2> PICK t \in Sessions : t = req[h].s
    BY <1>0, <1>1 DEF RequestCommits, At, TypeInv, RequestShape
  <2>1. req[h].pc = "commit" /\ conn' = conn
    BY <1>1 DEF RequestCommits, At
  <2>2. /\ \A g \in Handlers : g # h => req'[g] = req[g]
        /\ req'[h] = Idle \/ (req'[h].op = req[h].op /\ req'[h].s = t)
    BY <1>0, <1>1 DEF RequestCommits, Step, Done, HandlerStates
  <2>3. row'[s].status \in {row[s].status, "TERMINATED", "FAILED"}
    <3>1. CASE t = s
      <4>1. req[h].op \in EndOps /\ req[h].out \in {"TERMINATED", "FAILED"}
        BY <2>1, <3>1 DEF NeverOpened, OutcomeFits
      <4>2. Written(h, row[s]) = SetStatus(row[s], req[h].out)
        BY <4>1 DEF Written, EndOps
      <4>3. row'[s] = SetStatus(row[s], req[h].out)
        BY <1>0, <1>1, <3>1, <4>2 DEF RequestCommits, Commit
      <4> QED BY <1>0, <4>1, <4>3 DEF SetStatus, Touch, Rows
    <3>2. CASE t # s
      BY <1>0, <1>1, <3>2 DEF RequestCommits, Commit
    <3> QED BY <3>1, <3>2
  <2> QED BY <2>1, <2>2, <2>3 DEF OpensNothing, Idle
<1>2. CASE CreateCommits(h)
  <2> PICK t \in Sessions : t = req[h].s
    BY <1>0, <1>2 DEF CreateCommits, At, TypeInv, RequestShape
  <2>1. conn' = conn /\ req'[h] = Idle /\ \A g \in Handlers : g # h => req'[g] = req[g]
    BY <1>0, <1>2 DEF CreateCommits, Done
  <2>2. t = s => req[h].out = "FAILED"
    BY <1>0, <1>2 DEF CreateCommits, At, Starts, TypeInv, RequestShape
  <2>3. row'[s].status \in {row[s].status, "FAILED"}
    BY <1>0, <1>2, <2>2 DEF CreateCommits, Commit, NoRow
  <2> QED BY <2>1, <2>3 DEF OpensNothing, Idle
<1>3. CASE KickViewer(h)
  <2>1. /\ \A g \in Handlers : g # h => req'[g] = req[g]
        /\ req'[h] = Idle /\ row' = row
    BY <1>0, <1>3 DEF KickViewer, Done
  <2>2. req[h].s \in Sessions
    BY <1>0, <1>3 DEF KickViewer, At, TypeInv, RequestShape
  <2> QED BY <1>0, <1>3, <2>1, <2>2, KickOpensNothing DEF KickViewer, OpensNothing, Idle
<1>4. CASE \/ Flush(h) \/ CallAgent(h) \/ CreateSandbox(h) \/ StartSandbox(h)
           \/ DisplayReady(h) \/ CreateCleansUp(h)
  <2>1. row' = row /\ conn' = conn
    BY <1>4 DEF Flush, CallAgent, CreateSandbox, StartSandbox, CreateCalls, DisplayReady,
                CreateCleansUp
  <2>2. /\ \A g \in Handlers : g # h => req'[g] = req[g]
        /\ req'[h].op = req[h].op /\ req'[h].s = req[h].s /\ req[h].pc # "idle"
    BY <1>0, <1>4 DEF Flush, CallAgent, CreateSandbox, StartSandbox, CreateCalls, DisplayReady,
                CreateCleansUp, At, Step, Conclude, HandlerStates
  <2> QED BY <2>1, <2>2 DEF OpensNothing
<1> QED BY <1>1, <1>2, <1>3, <1>4 DEF ServiceStep, CreateStep

LEMMA StepOpensNothing ==
    ASSUME StartInv, OutcomeFits, [Next]_vars, ~BackendRestarts, NEW s \in Sessions,
           NeverOpened(s), \A h \in Handlers : Starts(h) => req[h].s # s
    PROVE  OpensNothing(s)
<1>0. /\ TypeInv /\ req \in [Handlers -> HandlerStates] /\ row \in [Sessions -> Rows]
  BY DEF StartInv, TypeInv, TypeOK, RequestTypeOK, StoreTypeOK
<1>1. ASSUME NEW c \in Conns, ViewerActs(c) PROVE OpensNothing(s)
  BY <1>0, <1>1, ViewerOpensNothing
<1>2. ASSUME NEW h \in Requests, RequestActs(h) PROVE OpensNothing(s)
  <2>0. h \in Handlers
    BY DEF Handlers
  <2>1. ASSUME NEW t \in Sessions, CreateBegins(h, t) PROVE OpensNothing(s)
    <3>1. /\ row' = row /\ conn' = conn /\ req'[h].op = "create"
          /\ \A g \in Handlers : g # h => req'[g] = req[g]
      BY <1>0, <2>0, <2>1 DEF CreateBegins, Idle
    <3> QED BY <3>1 DEF OpensNothing
  <2>2. ASSUME NEW t \in Sessions, NEW op \in RequestOps \ {"create"}, RequestBegins(h, op, t)
        PROVE  OpensNothing(s)
    <3>1. /\ row' = row /\ conn' = conn
          /\ \A g \in Handlers : g # h => req'[g] = req[g]
          /\ req'[h] = Idle \/ (req'[h].op = op /\ req'[h].s = t)
      BY <1>0, <2>0, <2>2 DEF RequestBegins, Load
    <3>2. op \in {"isolate", "restore", "disconnect"} => t # s
      BY <2>2 DEF RequestBegins, Permitted, NeverOpened
    <3> QED BY <3>1, <3>2 DEF OpensNothing, Idle
  <2> QED BY <1>2, <2>0, <2>1, <2>2, HandlerOpensNothing DEF RequestActs, RequestArrives
<1>3. CASE ReaperActs
  <2>0. Reaper \in Handlers
    BY DEF Handlers
  <2>1. CASE ReaperSelects \/ ReaperLoads
    <3>1. /\ row' = row /\ conn' = conn
          /\ \A g \in Handlers : g # Reaper => req'[g] = req[g]
          /\ req'[Reaper].op \in {"reap", "recover", "none"}
      <4>1. CASE ReaperSelects
        <5>1. PICK t \in Sessions, op \in {"reap", "recover"} : Selects(op, t)
          BY <4>1 DEF ReaperSelects, ReapSelects, RecoverSelects
        <5>2. req'[Reaper].op = op /\ \A g \in Handlers : g # Reaper => req'[g] = req[g]
          BY <1>0, <2>0, <5>1 DEF Selects, Idle
        <5> QED BY <5>1, <5>2 DEF Selects
      <4>2. CASE ReaperLoads
        BY <1>0, <2>0, <4>2 DEF ReaperLoads, Load, Idle
      <4> QED BY <2>1, <4>1, <4>2
    <3> QED BY <3>1 DEF OpensNothing
  <2>2. CASE ReaperClaims
    <3> PICK t \in Sessions : t = req[Reaper].s
      BY <1>0, <2>0, <2>2 DEF ReaperClaims, At, TypeInv, RequestShape
    <3>1. /\ conn' = conn
          /\ \A g \in Handlers : g # Reaper => req'[g] = req[g]
          /\ req'[Reaper] = Idle
             \/ /\ req[Reaper].pc # "idle" /\ req'[Reaper].op = req[Reaper].op
                /\ req'[Reaper].s = req[Reaper].s
      BY <1>0, <2>0, <2>2 DEF ReaperClaims, Step, Done, At, HandlerStates
    <3>2. row'[s].status \in {row[s].status, "TERMINATING"}
      <4>1. \/ row' = row
            \/ row' = [row EXCEPT ![t] = SetStatus(row[t], "TERMINATING")]
            \/ row' = [row EXCEPT ![t] = Touch(row[t])]
        BY <2>2 DEF ReaperClaims, Commit
      <4>2. /\ row[t] \in Rows /\ Touch(row[t]).status = row[t].status
            /\ SetStatus(row[t], "TERMINATING").status = "TERMINATING"
        BY <1>0 DEF SetStatus, Touch, Rows
      <4> QED BY <1>0, <4>1, <4>2
    <3> QED BY <3>1, <3>2 DEF OpensNothing, Idle
  <2> QED BY <1>3, <2>0, <2>1, <2>2, HandlerOpensNothing DEF ReaperActs
<1>4. CASE ReconcilerLists \/ ReconcilerActs
  <2>1. req' = req /\ conn' = conn
    BY <1>4 DEF ReconcilerLists, ReconLists, ReconCannotList, ReconcilerActs, ReconStep,
                ReconReadsRows, ReconKills, ReconKillsDone, ReconFindsLost, ReconRemoves,
                ReconFails, ReconCommits, DiscardStaleConnection
  <2>2. row' = row \/ ReconCommits
    BY <1>4 DEF ReconcilerLists, ReconLists, ReconCannotList, ReconcilerActs, ReconStep,
                ReconReadsRows, ReconKills, ReconKillsDone, ReconFindsLost, ReconRemoves, ReconFails
  <2>3. row'[s].status \in {row[s].status, "FAILED"}
    BY <1>0, <2>2 DEF ReconCommits, SetStatus, Touch, Rows
  <2> QED BY <2>1, <2>3 DEF OpensNothing
<1>5. CASE EnvironmentActs \/ PollerActs \/ UNCHANGED vars
  <2>1. req' = req /\ conn' = conn
    BY <1>5 DEF EnvironmentActs, PollerActs, PollerStops, vars
  <2>2. row' = row \/ \E t \in Sessions : TimePasses(t)
    BY <1>5 DEF EnvironmentActs, Environment, LateEffect, LateNothing, SandboxExits, PollerActs,
                PollerStops, vars
  <2>3. row'[s].status = row[s].status
    <3>1. ASSUME NEW t \in Sessions, TimePasses(t) PROVE row'[s].status = row[s].status
      BY <1>0, <3>1 DEF TimePasses, Rows
    <3> QED BY <2>2, <3>1
  <2> QED BY <2>1, <2>3 DEF OpensNothing
<1> QED BY <1>1, <1>2, <1>3, <1>4, <1>5 DEF Next

LEMMA LateStartStep ==
    ASSUME StartInv, OutcomeFits, LateStartFailed, [Next]_vars, ~BackendRestarts
    PROVE  LateStartFailed'
<1>1. ASSUME NEW s \in Sessions, "start" \in late'[s], "start" \in late[s]
      PROVE  NeverOpened(s)'
  <2>1. NeverOpened(s) /\ \A h \in Handlers : Starts(h) => req[h].s # s
    BY <1>1 DEF LateStartFailed
  <2> QED BY <2>1, StepOpensNothing, StaysNeverOpened
<1>2. ASSUME NEW s \in Sessions, "start" \in late'[s], "start" \notin late[s]
      PROVE  /\ NeverOpened(s)'
             /\ \A g \in Handlers : Starts(g)' => req'[g].s # s
  <2>1. PICK h \in Requests : /\ Creator(h, s) /\ row' = row /\ conn' = conn
                              /\ \A g \in Handlers \ {h} : req'[g] = req[g]
                              /\ req'[h].op = "create" /\ req'[h].pc = "cleanup"
    BY <1>2, NewLateStart
  <2>2. h \in Handlers /\ row[s].status = "NONE"
    BY <2>1 DEF Handlers, StartInv, CreatorIsAlone
  <2>3. /\ \A g \in Handlers : req[g].pc # "idle" /\ req[g].op # "create" => req[g].s # s
        /\ \A c \in Conns : conn[c].pc # "idle" => conn[c].s # s
    BY <2>2 DEF StartInv, ActsOnCommittedRow
  <2>4. \A g \in Handlers : Creator(g, s) => g = h
    BY <2>1, <2>2 DEF StartInv, CreatorIsAlone
  <2> QED BY <2>1, <2>2, <2>3, <2>4 DEF NeverOpened, Starts, Creator
<1>3. ASSUME NEW h \in Handlers, Starts(h)' PROVE "start" \notin late'[req'[h].s]
  <2>1. /\ req[h].op = "create" /\ req'[h].s = req[h].s
        /\ Starts(h) \/ (req[h].pc = "start" /\ late' = late)
    BY <1>3, NewStarts
  <2>2. req[h].s \in Sessions
    BY <2>1 DEF StartInv, TypeInv, RequestShape
  <2>3. "start" \notin late[req[h].s]
    BY <2>1, <2>2 DEF LateStartFailed, StartInv, CreatorIsAlone, Creator
  <2> QED BY <1>2, <1>3, <2>1, <2>2, <2>3
<1> QED BY <1>1, <1>2, <1>3 DEF LateStartFailed

\* A crash leaves start calls of creations only, whose rows it rolls back.
LEMMA RestartKeepsLateStarts ==
    ASSUME StartInv, LateStartFailed, BackendRestarts
    PROVE  LateStartFailed'
<1>1. \A h \in Handlers : req'[h].pc = "idle" /\ req'[h].op = "none"
  BY DEF BackendRestarts, Idle
<1>2. \A c \in Conns : conn'[c].pc = "idle"
  BY DEF BackendRestarts, ConnIdle
<1>3. \A s \in Sessions : row'[s].status = row[s].status
  BY DEF BackendRestarts, ResetViewerStamps, Touch, StartInv, TypeInv, TypeOK, StoreTypeOK, Rows
<1>4. ASSUME NEW s \in Sessions, "start" \in late'[s]
      PROVE  row[s].status \notin {"ACTIVE", "DISCONNECTED", "ISOLATED"}
  <2>1. CASE "start" \in late[s]
    BY <2>1 DEF LateStartFailed, NeverOpened
  <2>2. CASE "start" \in AwaitedCalls(s)
    <3>1. PICK h \in Handlers : Creator(h, s)
      BY <2>2, AwaitedStartHasCreator
    <3> QED BY <3>1 DEF StartInv, CreatorIsAlone
  <2> QED BY <1>4, <2>1, <2>2 DEF BackendRestarts
<1> QED BY <1>1, <1>2, <1>3, <1>4 DEF LateStartFailed, NeverOpened, Starts


\* IsolatedIsOff, of one session.
OffAt(s) == GoesIsolated(s) /\ HasDisplay(box[s]) => BeingRestored(s)

\* The step does nothing to the isolation of s that could break it.
LEMMA OffKept ==
    ASSUME IsolatedIsOff, NEW s \in Sessions,
           row'[s].status = "ISOLATED" => GoesIsolated(s),
           HasDisplay(box'[s]) => HasDisplay(box[s]),
           \A h \in Handlers :
              req'[h].pc = "commit" /\ req'[h].out = "ISOLATED" /\ req'[h].s = s => GoesIsolated(s),
           \A h \in Requests :
              req[h].op = "restore" /\ req[h].pc \in {"call", "commit"} /\ req[h].s = s =>
                 req'[h].op = "restore" /\ req'[h].pc \in {"call", "commit"} /\ req'[h].s = s
    PROVE  OffAt(s)'
<1>1. GoesIsolated(s)' => GoesIsolated(s)
  BY DEF GoesIsolated
<1>2. BeingRestored(s) => BeingRestored(s)'
  BY DEF BeingRestored
<1> QED BY <1>1, <1>2 DEF IsolatedIsOff, OffAt

\* The step leaves the requests alone.
LEMMA OffKeptBesides ==
    ASSUME IsolatedIsOff, req' = req, NEW s \in Sessions,
           row'[s].status = "ISOLATED" => row[s].status = "ISOLATED",
           HasDisplay(box'[s]) => HasDisplay(box[s])
    PROVE  OffAt(s)'
<1>1. row'[s].status = "ISOLATED" => GoesIsolated(s)
  BY DEF GoesIsolated
<1>2. \A h \in Handlers :
         req'[h].pc = "commit" /\ req'[h].out = "ISOLATED" /\ req'[h].s = s => GoesIsolated(s)
  BY DEF GoesIsolated
<1> QED BY <1>1, <1>2, OffKept

LEMMA ViewerKeepsOff ==
    ASSUME TypeInv, IsolatedIsOff, NEW c \in Conns, ViewerActs(c), NEW s \in Sessions
    PROVE  OffAt(s)'
<1>0. row \in [Sessions -> Rows] /\ req' = req
  BY DEF TypeInv, TypeOK, StoreTypeOK, ViewerActs
<1>1. box' = box
  BY DEF ViewerActs, RelayStep, ViewerConnects, ViewerDials, ViewerDialFails, ViewerStamps,
         ViewerRegisters, ViewerLeaves, ViewerDisconnects, ViewerUnstamps
<1>2. row'[s].status \in {row[s].status, "ACTIVE", "DISCONNECTED"}
  <2>0. /\ \A r \in Rows : Touch(r) \in Rows /\ Touch(r).status = r.status
        /\ \A r \in Rows, t \in {"ACTIVE", "DISCONNECTED"} :
              SetStatus(r, t) \in Rows /\ SetStatus(r, t).status = t
    BY DEF Touch, SetStatus, Rows, SessionStatus
  <2>1. CASE ViewerStamps(c)
    <3> DEFINE r == IF conn[c].seen = "ACTIVE" THEN Touch(row[conn[c].s])
                                               ELSE SetStatus(row[conn[c].s], "ACTIVE")
    <3>1. conn[c].s \in Sessions
      BY <2>1 DEF ViewerStamps, TypeInv, ConnShape
    <3>2. r \in Rows /\ r.status \in {row[conn[c].s].status, "ACTIVE"}
      BY <1>0, <2>0, <3>1
    <3>3. row' = [row EXCEPT ![conn[c].s] = [r EXCEPT !.viewer = c, !.idle = FALSE]]
      BY <2>1 DEF ViewerStamps, Commit
    <3> HIDE DEF r
    <3>4. [r EXCEPT !.viewer = c, !.idle = FALSE].status = r.status
      BY <3>2 DEF Rows
    <3> QED BY <1>0, <3>1, <3>2, <3>3, <3>4
  <2>2. CASE ViewerDisconnects(c)
    <3> DEFINE r == SetStatus(row[conn[c].s], "DISCONNECTED")
    <3>1. conn[c].s \in Sessions
      BY <2>2 DEF ViewerDisconnects, TypeInv, ConnShape
    <3>2. r \in Rows /\ r.status = "DISCONNECTED"
      BY <1>0, <2>0, <3>1
    <3>3. \/ row' = row
          \/ row' = [row EXCEPT ![conn[c].s] = [r EXCEPT !.viewer = Nobody, !.idle = FALSE]]
      BY <2>2 DEF ViewerDisconnects, Commit
    <3> HIDE DEF r
    <3>4. [r EXCEPT !.viewer = Nobody, !.idle = FALSE].status = r.status
      BY <3>2 DEF Rows
    <3> QED BY <1>0, <3>1, <3>2, <3>3, <3>4
  <2>3. CASE ViewerUnstamps(c)
    <3> DEFINE r == Touch(row[conn[c].s])
    <3>1. conn[c].s \in Sessions
      BY <2>3 DEF ViewerUnstamps, TypeInv, ConnShape
    <3>2. r \in Rows /\ r.status = row[conn[c].s].status
      BY <1>0, <2>0, <3>1
    <3>3. row' = row \/ row' = [row EXCEPT ![conn[c].s] = [r EXCEPT !.viewer = Nobody]]
      BY <2>3 DEF ViewerUnstamps, Commit
    <3> HIDE DEF r
    <3>4. [r EXCEPT !.viewer = Nobody].status = r.status
      BY <3>2 DEF Rows
    <3> QED BY <1>0, <3>1, <3>2, <3>3, <3>4
  <2> QED BY <2>1, <2>2, <2>3
          DEF ViewerActs, RelayStep, ViewerConnects, ViewerDials, ViewerDialFails,
              ViewerRegisters, ViewerLeaves
<1> QED BY <1>0, <1>1, <1>2, OffKeptBesides

\* A creation's session is not isolated, nor about to be.
LEMMA CreatedIsNotIsolated ==
    ASSUME StartInv, OutcomeFits, NEW h \in Handlers, NEW s \in Sessions, Creator(h, s)
    PROVE  ~GoesIsolated(s)
BY DEF GoesIsolated, StartInv, CreatorIsAlone, ActsOnCommittedRow, OutcomeFits, EndOps

LEMMA CreationKeepsOff ==
    ASSUME StartInv, OutcomeFits, IsolatedIsOff, NEW h \in Handlers, CreateStep(h),
           NEW s \in Sessions, s = req[h].s
    PROVE  OffAt(s)'
<1>0. req \in [Handlers -> HandlerStates] /\ row \in [Sessions -> Rows] /\ TypeInv
  BY DEF StartInv, TypeInv, TypeOK, RequestTypeOK, StoreTypeOK
<1>1. Creator(h, s) /\ req[h].pc # "commit"
  BY <1>0 DEF CreateStep, CreateSandbox, StartSandbox, CreateCalls, DisplayReady, CreateCleansUp,
              CreateCommits, At, Creator, TypeInv, RequestShape
<1>2. ~GoesIsolated(s)
  BY <1>1, CreatedIsNotIsolated
<1>3. /\ \A g \in Handlers : g # h => req'[g] = req[g]
      /\ req'[h].pc # "commit"
  BY <1>0 DEF CreateStep, CreateSandbox, StartSandbox, CreateCalls, DisplayReady, CreateCleansUp,
              CreateCommits, Step, Conclude, Done, Idle, HandlerStates
<1>4. row'[s].status # "ISOLATED"
  <2>1. CASE CreateCommits(h)
    BY <1>0, <2>1 DEF CreateCommits, Commit, At, NoRow, TypeInv, RequestShape
  <2> QED BY <1>2, <2>1 DEF CreateStep, CreateSandbox, StartSandbox, CreateCalls, DisplayReady,
                            CreateCleansUp, GoesIsolated
<1>5. ~GoesIsolated(s)'
  BY <1>2, <1>3, <1>4 DEF GoesIsolated
<1> QED BY <1>5 DEF OffAt

LEMMA ServiceKeepsOff ==
    ASSUME StartInv, OutcomeFits, IsolationLocks, IsolatedIsOff, NEW h \in Handlers,
           ServiceStep(h), NEW s \in Sessions, s = req[h].s
    PROVE  OffAt(s)'
<1>0. /\ req \in [Handlers -> HandlerStates] /\ row \in [Sessions -> Rows] /\ TypeInv
      /\ box \in [Sessions -> Containers] /\ lock \in [Sessions -> Handlers \cup {Reconciler, Nobody}]
  BY DEF StartInv, TypeInv, TypeOK, RequestTypeOK, StoreTypeOK
<1>1. \A g \in Handlers : g # h => req'[g] = req[g]
  BY <1>0 DEF ServiceStep, Flush, CallAgent, RequestCommits, KickViewer, Step, Conclude, Done
<1>2. CASE Flush(h) \/ KickViewer(h)
  <2>1. /\ row' = row /\ box' = box /\ req[h].pc \in {"flush", "kick"}
        /\ req'[h].pc # "commit"
    BY <1>0, <1>2 DEF Flush, KickViewer, Step, Done, Idle, At, HandlerStates
  <2> QED BY <1>1, <2>1, OffKept DEF GoesIsolated, Handlers
<1>3. CASE CallAgent(h)
  <2>1. /\ row' = row /\ req[h].pc = "call" /\ req[h].op \in EndOps \cup {"isolate", "restore"}
        /\ req'[h].op = req[h].op /\ req'[h].s = s /\ req'[h].pc = "commit"
        /\ \/ AgentOk(s, AgentOp(req[h].op)) /\ req'[h].out = Outcome(req[h].op)
           \/ box' = box /\ req'[h].out = "FAILED"
    BY <1>0, <1>3 DEF CallAgent, Conclude, At, AgentError, HandlerStates, TypeInv, RequestShape
  <2>2. CASE req[h].op = "restore"
    <3>1. h \in Requests
      BY <2>2 DEF OutcomeFits
    <3> QED BY <2>1, <2>2, <3>1 DEF OffAt, BeingRestored
  <2>3. CASE req[h].op # "restore"
    <3>1. HasDisplay(box'[s]) => HasDisplay(box[s]) /\ req'[h].out # "ISOLATED"
      <4>1. CASE box' = box /\ req'[h].out = "FAILED"
        BY <4>1
      <4>2. CASE AgentOk(s, AgentOp(req[h].op)) /\ req'[h].out = Outcome(req[h].op)
        <5>1. box'[s] = Apply(AgentOp(req[h].op), box[s])
          BY <1>0, <4>2 DEF AgentOk
        <5>2. ~HasDisplay(box'[s])
          <6>1. CASE req[h].op = "isolate"
            BY <1>0, <5>1, <6>1 DEF AgentOp, EndOps, Apply, IsolateSession, HasDisplay, Containers
          <6>2. CASE req[h].op \in EndOps
            BY <5>1, <6>2 DEF AgentOp, Apply, TerminateSession, Absent, HasDisplay, Running
          <6> QED BY <2>1, <2>3, <6>1, <6>2
        <5> QED BY <5>2
      <4> QED BY <2>1, <4>1, <4>2
    <3>2. CASE HasDisplay(box'[s])
      <4>1. \A g \in Handlers :
               req'[g].pc = "commit" /\ req'[g].out = "ISOLATED" /\ req'[g].s = s => GoesIsolated(s)
        BY <1>1, <3>1, <3>2 DEF GoesIsolated
      <4>2. row'[s].status = "ISOLATED" => GoesIsolated(s)
        BY <2>1 DEF GoesIsolated
      <4> QED BY <1>1, <2>3, <3>1, <4>1, <4>2, OffKept DEF Handlers
    <3> QED BY <3>2 DEF OffAt
  <2> QED BY <2>2, <2>3
<1>4. CASE RequestCommits(h)
  <2>1. /\ req[h].pc = "commit" /\ CanWrite(s, h) /\ box' = box
        /\ row'[s] = Written(h, row[s]) /\ req'[h].pc # "commit"
    BY <1>0, <1>4 DEF RequestCommits, At, Commit, Step, Done, Idle, HandlerStates
  <2>2. \A g \in Handlers : g # h => ~(/\ req[g].pc = "commit" /\ req[g].out = "ISOLATED"
                                       /\ req[g].s = s)
    <3>1. \A g \in Handlers : req[g].pc = "commit" /\ req[g].out = "ISOLATED" => req[g].op = "isolate"
      BY DEF OutcomeFits
    <3>2. Nobody \notin Handlers
      BY ActorAssumption DEF Handlers
    <3> QED BY <2>1, <3>1, <3>2 DEF IsolationLocks, CanWrite
  <2>3. CASE row'[s].status # "ISOLATED"
    BY <1>1, <2>1, <2>2, <2>3 DEF OffAt, GoesIsolated
  <2>4. CASE row'[s].status = "ISOLATED"
    <3>1. row[s].status = "ISOLATED" \/ req[h].out = "ISOLATED"
      BY <1>0, <2>1, <2>4 DEF Written, SetStatus, Touch, Rows
    <3>2. GoesIsolated(s)
      BY <2>1, <3>1 DEF GoesIsolated
    <3>3. req[h].op # "restore"
      <4>1. CASE req[h].op = "restore"
        <5>1. req[h].out \in {"ACTIVE", "FAILED"}
          BY <2>1, <4>1 DEF OutcomeFits, EndOps
        <5>2. row'[s].status = req[h].out
          BY <1>0, <2>1, <4>1 DEF Written, SetStatus, Touch, Rows
        <5> QED BY <2>4, <5>1, <5>2
      <4> QED BY <4>1
    <3> QED BY <1>1, <2>1, <2>2, <3>2, <3>3, OffKept DEF Handlers
  <2> QED BY <2>3, <2>4
<1> QED BY <1>2, <1>3, <1>4 DEF ServiceStep

LEMMA HandlerKeepsOff ==
    ASSUME StartInv, OutcomeFits, IsolationLocks, IsolatedIsOff, NEW h \in Handlers,
           ServiceStep(h) \/ CreateStep(h), NEW s \in Sessions
    PROVE  OffAt(s)'
<1>0. /\ req \in [Handlers -> HandlerStates] /\ row \in [Sessions -> Rows]
      /\ box \in [Sessions -> Containers]
  BY DEF StartInv, TypeInv, TypeOK, RequestTypeOK, StoreTypeOK
<1>1. CASE s # req[h].s
  <2>1. /\ \A g \in Handlers : g # h => req'[g] = req[g]
        /\ req'[h] = Idle \/ req'[h].s = req[h].s
    BY <1>0 DEF ServiceStep, Flush, CallAgent, RequestCommits, KickViewer, CreateStep,
      CreateSandbox, StartSandbox, CreateCalls, DisplayReady, CreateCleansUp, CreateCommits,
      Step, Conclude, Done, HandlerStates
  <2>2. row'[s] = row[s]
    BY <1>0, <1>1 DEF ServiceStep, Flush, CallAgent, RequestCommits, KickViewer, CreateStep,
      CreateSandbox, StartSandbox, CreateCalls, DisplayReady, CreateCleansUp, CreateCommits, Commit
  <2>3. box'[s] = box[s]
    BY <1>0, <1>1 DEF ServiceStep, Flush, CallAgent, RequestCommits, KickViewer, CreateStep,
      CreateSandbox, StartSandbox, CreateCalls, DisplayReady, CreateCleansUp, CreateCommits,
      AgentOk, AgentError
  <2>4. row'[s].status = "ISOLATED" => GoesIsolated(s)
    BY <2>2 DEF GoesIsolated
  <2>5. \A g \in Handlers :
           req'[g].pc = "commit" /\ req'[g].out = "ISOLATED" /\ req'[g].s = s => GoesIsolated(s)
    BY <1>1, <2>1 DEF GoesIsolated, Idle
  <2> QED BY <1>1, <2>1, <2>3, <2>4, <2>5, OffKept DEF Handlers
<1>2. CASE s = req[h].s
  BY <1>2, ServiceKeepsOff, CreationKeepsOff
<1> QED BY <1>1, <1>2

LEMMA OffStep ==
    ASSUME StartInv, OutcomeFits, IsolationLocks, LateStartFailed, IsolatedIsOff,
           "restore" \notin LateOps, \A t \in Sessions : late[t] \subseteq LateOps,
           [Next]_vars, ~BackendRestarts, NEW s \in Sessions
    PROVE  OffAt(s)'
<1>0. /\ TypeInv /\ req \in [Handlers -> HandlerStates] /\ row \in [Sessions -> Rows]
      /\ box \in [Sessions -> Containers] /\ late \in [Sessions -> SUBSET AgentOps]
      /\ Reaper \notin Requests /\ Reaper \in Handlers
  BY ActorAssumption DEF StartInv, TypeInv, TypeOK, RequestTypeOK, StoreTypeOK, Handlers
<1>1. CASE EnvironmentActs
  <2> PICK t \in Sessions : LateEffect(t) \/ LateNothing(t) \/ SandboxExits(t) \/ TimePasses(t)
    BY <1>1 DEF EnvironmentActs, Environment
  <2>0. req' = req
    BY <1>1 DEF EnvironmentActs
  <2>1. CASE LateEffect(t)
    <3>1. PICK op \in late[t] : box' = [box EXCEPT ![t] = Apply(op, @)]
      BY <2>1 DEF LateEffect
    <3>2. row' = row
      BY <2>1 DEF LateEffect
    <3>3. CASE op # "start" \/ s # t
      <4>1. op \in AgentOps \ {"restore"}
        BY <1>0
      <4>2. HasDisplay(box'[s]) => HasDisplay(box[s])
        BY <1>0, <3>1, <3>3, <4>1
        DEF AgentOps, Apply, CreateSession, IsolateSession, TerminateSession, Absent, HasDisplay,
            Running, Present, Containers
      <4> QED BY <2>0, <3>2, <4>2, OffKeptBesides
    <3>4. CASE op = "start" /\ s = t
      <4>1. NeverOpened(s)
        BY <3>1, <3>4 DEF LateStartFailed
      <4>2. ~GoesIsolated(s)
        BY <4>1 DEF NeverOpened, GoesIsolated, OutcomeFits
      <4> QED BY <2>0, <3>2, <4>2 DEF OffAt, GoesIsolated
    <3> QED BY <3>3, <3>4
  <2>2. CASE LateNothing(t)
    BY <2>0, <2>2, OffKeptBesides DEF LateNothing
  <2>3. CASE SandboxExits(t)
    <3>1. HasDisplay(box'[s]) => HasDisplay(box[s])
      BY <1>0, <2>3 DEF SandboxExits, HasDisplay, Running, Containers
    <3> QED BY <2>0, <2>3, <3>1, OffKeptBesides DEF SandboxExits
  <2>4. CASE TimePasses(t)
    <3>1. row'[s].status = row[s].status
      BY <1>0, <2>4 DEF TimePasses, Rows
    <3> QED BY <2>0, <2>4, <3>1, OffKeptBesides DEF TimePasses
  <2> QED BY <2>1, <2>2, <2>3, <2>4
<1>2. ASSUME NEW c \in Conns, ViewerActs(c) PROVE OffAt(s)'
  BY <1>0, <1>2, ViewerKeepsOff
<1>3. ASSUME NEW h \in Requests, RequestActs(h) PROVE OffAt(s)'
  <2>0. h \in Handlers
    BY DEF Handlers
  <2>1. CASE RequestArrives(h)
    <3>1. /\ row' = row /\ box' = box /\ req[h].pc = "idle"
          /\ \A g \in Handlers : g # h => req'[g] = req[g]
      BY <1>0, <2>0, <2>1 DEF RequestArrives, CreateBegins, RequestBegins, Load, At
    <3>2. req'[h].out # "ISOLATED"
      <4>1. ASSUME NEW t \in Sessions, CreateBegins(h, t) PROVE req'[h].out # "ISOLATED"
        BY <1>0, <2>0, <4>1 DEF CreateBegins, Idle
      <4>2. ASSUME NEW t \in Sessions, NEW op \in RequestOps \ {"create"}, RequestBegins(h, op, t)
            PROVE  req'[h].out # "ISOLATED"
        BY <1>0, <2>0, <4>2 DEF RequestBegins, Load, Idle
      <4> QED BY <2>1, <4>1, <4>2 DEF RequestArrives
    <3> QED BY <3>1, <3>2, OffKept DEF GoesIsolated, Handlers
  <2> QED BY <1>3, <2>0, <2>1, HandlerKeepsOff DEF RequestActs
<1>4. CASE ReaperActs
  <2>1. CASE ReaperSelects \/ ReaperLoads \/ ReaperClaims
    <3>1. box' = box /\ \A g \in Handlers : g # Reaper => req'[g] = req[g]
      BY <1>0, <2>1 DEF ReaperSelects, ReapSelects, RecoverSelects, Selects, ReaperLoads, Load,
                        ReaperClaims, Step, Done
    <3>2. req'[Reaper].pc # "commit" \/ req'[Reaper].out # "ISOLATED"
      <4>1. CASE ReaperSelects
        <5>1. PICK t \in Sessions, op \in {"reap", "recover"} : Selects(op, t)
          BY <4>1 DEF ReaperSelects, ReapSelects, RecoverSelects
        <5> QED BY <1>0, <5>1 DEF Selects, Idle
      <4>2. CASE ReaperLoads
        BY <1>0, <4>2 DEF ReaperLoads, Load, Idle
      <4>3. CASE ReaperClaims
        BY <1>0, <4>3 DEF ReaperClaims, Step, Done, Idle, HandlerStates
      <4> QED BY <2>1, <4>1, <4>2, <4>3
    <3>3. row'[s].status \in {row[s].status, "TERMINATING"}
      <4>1. CASE ReaperClaims
        <5> PICK t \in Sessions : t = req[Reaper].s
          BY <1>0, <4>1 DEF ReaperClaims, At, TypeInv, RequestShape
        <5>1. \/ row' = row
              \/ row' = [row EXCEPT ![t] = SetStatus(row[t], "TERMINATING")]
              \/ row' = [row EXCEPT ![t] = Touch(row[t])]
          BY <4>1 DEF ReaperClaims, Commit
        <5>2. /\ row[t] \in Rows /\ Touch(row[t]).status = row[t].status
              /\ SetStatus(row[t], "TERMINATING").status = "TERMINATING"
          BY <1>0 DEF SetStatus, Touch, Rows
        <5> QED BY <1>0, <5>1, <5>2
      <4> QED BY <2>1, <4>1 DEF ReaperSelects, ReapSelects, RecoverSelects, Selects, ReaperLoads
    <3>4. row'[s].status = "ISOLATED" => GoesIsolated(s)
      BY <3>3 DEF GoesIsolated
    <3>5. \A g \in Handlers :
             req'[g].pc = "commit" /\ req'[g].out = "ISOLATED" /\ req'[g].s = s => GoesIsolated(s)
      BY <3>1, <3>2 DEF GoesIsolated
    <3> QED BY <1>0, <3>1, <3>4, <3>5, OffKept DEF Handlers
  <2> QED BY <1>0, <1>4, <2>1, HandlerKeepsOff DEF ReaperActs
<1>5. CASE ReconcilerLists \/ ReconcilerActs
  <2>1. req' = req
    BY <1>5 DEF ReconcilerLists, ReconLists, ReconCannotList, ReconcilerActs, ReconStep,
                ReconReadsRows, ReconKills, ReconKillsDone, ReconFindsLost, ReconRemoves,
                ReconFails, ReconCommits
  <2>2. row' = row \/ ReconCommits
    BY <1>5 DEF ReconcilerLists, ReconLists, ReconCannotList, ReconcilerActs, ReconStep,
                ReconReadsRows, ReconKills, ReconKillsDone, ReconFindsLost, ReconRemoves, ReconFails
  <2>3. row'[s].status \in {row[s].status, "FAILED"}
    BY <1>0, <2>2 DEF ReconCommits, SetStatus, Touch, Rows
  <2>4. box' = box \/ \E t \in Sessions : AgentOk(t, "terminate")
    BY <1>5 DEF ReconcilerLists, ReconLists, ReconCannotList, ReconcilerActs, ReconStep,
                ReconReadsRows, ReconKills, ReconKillsDone, ReconFindsLost, ReconRemoves,
                ReconFails, ReconCommits, AgentError
  <2>5. HasDisplay(box'[s]) => HasDisplay(box[s])
    BY <1>0, <2>4 DEF AgentOk, Apply, TerminateSession, Absent, HasDisplay, Running
  <2> QED BY <2>1, <2>3, <2>5, OffKeptBesides
<1>6. CASE PollerActs \/ UNCHANGED vars
  BY <1>6, OffKeptBesides DEF PollerActs, PollerStops, vars
<1> QED BY <1>1, <1>2, <1>3, <1>4, <1>5, <1>6 DEF Next

LEMMA IsolationStep ==
    ASSUME "restore" \notin LateOps, StartInv, LockHasItsTransaction, IsolationInv, [Next]_vars
    PROVE  IsolationInv'
<1>1. \A s \in Sessions : late'[s] \subseteq LateOps
  BY LateStep DEF StartInv, IsolationInv
<1>2. OutcomeFits' /\ IsolationLocks'
  BY FitsStep DEF IsolationInv
<1>3. LateStartFailed'
  BY LateStartStep, RestartKeepsLateStarts DEF IsolationInv
<1>4. ASSUME crashes' = 0 PROVE IsolatedIsOff'
  <2>1. crashes \in Nat
    BY InstanceAssumption DEF StartInv, TypeInv, TypeOK
  <2>2. ~BackendRestarts
    BY <1>4, <2>1 DEF BackendRestarts
  <2>3. crashes' = crashes
    BY <2>2 DEF Next, vars, EnvironmentActs, ViewerActs, RequestActs, PollerActs, ReaperActs,
                ReconcilerLists, ReconcilerActs
  <2>4. LateStartFailed /\ IsolatedIsOff
    BY <1>4, <2>3 DEF IsolationInv
  <2>5. \A s \in Sessions : OffAt(s)'
    BY <2>2, <2>4, OffStep DEF IsolationInv
  <2> QED BY <2>5 DEF IsolatedIsOff, OffAt
<1> QED BY <1>1, <1>2, <1>3, <1>4 DEF IsolationInv

LEMMA IsolationInit == Init => IsolationInv
<1> SUFFICES ASSUME Init PROVE IsolationInv
  OBVIOUS
<1> USE DEF Init, StoreInit, RelayInit, RequestInit, NoRow, Idle, Absent
<1>1. \A s \in Sessions : late[s] \subseteq LateOps
  OBVIOUS
<1>2. OutcomeFits /\ IsolationLocks
  BY DEF OutcomeFits, IsolationLocks
<1>3. LateStartFailed
  BY DEF LateStartFailed, Starts
<1>4. IsolatedIsOff
  BY DEF IsolatedIsOff, HasDisplay, Running
<1> QED BY <1>1, <1>2, <1>3, <1>4 DEF IsolationInv

\* While a session is ISOLATED its sandbox has no network, unless a restore is
\* under way: in every interleaving of isolations, restores, creations and late
\* calls other than restores, until the backend crashes.
THEOREM IsolationIsKept ==
    ASSUME "restore" \notin LateOps
    PROVE  Spec => []IsolationHolds
<1>1. StartInv /\ LockHasItsTransaction /\ IsolationInv /\ [Next]_vars => IsolationInv'
  BY IsolationStep
<1>2. IsolationInv => IsolationHolds
  BY DEF IsolationInv, IsolatedIsOff, GoesIsolated, BeingRestored, IsolationHolds, Restoring
<1> QED BY <1>1, <1>2, IsolationInit, StartInvariant, LocksAreReleased, PTL DEF Spec

-----------------------------------------------------------------------------
\* The control plane implements SandboxLifetime: the sandbox of a session runs in
\* one stretch.  Every step but a successful start only takes prospects away; the
\* start uses up the one there was.
USE DEF Running, Present

\* The step starts no sandbox and gives no session a new chance to start.
Fades ==
    \A s \in Sessions : /\ Running(box'[s]) => Running(box[s])
                        /\ MayStart(s)' => MayStart(s)

\* Session s, which could still be started, is; nothing else changes.
Kindles(s) ==
    /\ ~Running(box[s]) /\ MayStart(s) /\ Running(box'[s])
    /\ \A t \in Sessions \ {s} : /\ Running(box'[t]) <=> Running(box[t])
                                 /\ MayStart(t)' <=> MayStart(t)

\* A sandbox that runs has used up its only start.
LEMMA RunningHasStarted ==
    ASSUME StartInv, NEW s \in Sessions, Running(box[s])
    PROVE  ~MayStart(s)
BY DEF StartInv, MayStart, UndrawnIsUntouched, CreatorIsAlone, Creator, LateStartIsOnly, Handlers

LEMMA FadesRefines ==
    ASSUME StartInv, Fades
    PROVE  [Lifetime!LifeNext]_[s \in Sessions |-> Life(s)]
<1> DEFINE life == [s \in Sessions |-> Life(s)]
           S == {s \in Sessions : Life(s)' # Life(s)}
<1>1. ASSUME NEW s \in Sessions PROVE Life(s)' = Life(s) \/ (Life(s) # "over" /\ Life(s)' = "over")
  BY RunningHasStarted DEF Fades, Life
<1>2. \A s \in S : life[s] # "over" /\ life'[s] = "over"
  BY <1>1
<1>3. CASE S = {}
  BY <1>3
<1>4. CASE S # {}
  <2>1. life' = [s \in Sessions |-> IF s \in S THEN "over" ELSE life[s]]
    BY <1>1
  <2>2. Lifetime!Ends(S)
    BY <1>2, <1>4, <2>1 DEF Lifetime!Ends
  <2> QED BY <2>2 DEF Lifetime!LifeNext
<1> QED BY <1>3, <1>4

LEMMA KindlesRefines ==
    ASSUME StartInv, NEW s \in Sessions, Kindles(s)
    PROVE  [Lifetime!LifeNext]_[t \in Sessions |-> Life(t)]
<1> DEFINE life == [t \in Sessions |-> Life(t)]
<1>1. life[s] = "new" /\ Life(s)' = "running"
  BY DEF Kindles, Life
<1>2. \A t \in Sessions \ {s} : Life(t)' = Life(t)
  BY DEF Kindles, Life
<1>3. life' = [life EXCEPT ![s] = "running"]
  BY <1>1, <1>2
<1>4. Lifetime!Starts(s)
  BY <1>1, <1>3 DEF Lifetime!Starts
<1> QED BY <1>4 DEF Lifetime!LifeNext

-----------------------------------------------------------------------------
LEMMA CalmFades ==
    ASSUME StartInv, TypeInv', CalmStep
    PROVE  Fades
<1>1. ASSUME NEW s \in Sessions, MayStart(s)' PROVE MayStart(s)
  <2>1. CASE s \notin drawn'
    BY <2>1 DEF CalmStep, CalmStore, MayStart
  <2>2. CASE "start" \in late'[s] /\ Present(box'[s])
    BY <2>2 DEF CalmStep, CalmStore, MayStart
  <2>3. ASSUME NEW h \in Requests, req'[h].op = "create", req'[h].s = s,
               req'[h].pc \in {"create", "start"}
        PROVE  MayStart(s)
    BY <2>3 DEF CalmStep, CalmRequests, MayStart, Handlers
  <2> QED BY <1>1, <2>1, <2>2, <2>3 DEF MayStart
<1> QED BY <1>1 DEF Fades, CalmStep, CalmStore

LEMMA CreateBeginsFades ==
    ASSUME StartInv, NEW h \in Requests, NEW s \in Sessions, CreateBegins(h, s)
    PROVE  Fades
<1>1. UNCHANGED <<box, late>> /\ drawn' = drawn \cup {s} /\ s \notin drawn
  BY DEF CreateBegins
<1>2. h \in Handlers /\ \A g \in Handlers : g # h => req'[g] = req[g]
  BY DEF CreateBegins, Handlers, StartInv, TypeInv, TypeOK, RequestTypeOK
<1>3. req'[h].s = s
  BY <1>2 DEF CreateBegins, Idle, StartInv, TypeInv, TypeOK, RequestTypeOK
<1> QED BY <1>1, <1>2, <1>3 DEF Fades, MayStart, Handlers

LEMMA CreateCommitsFades ==
    ASSUME StartInv, NEW h \in Requests, CreateCommits(h)
    PROVE  Fades
<1>1. UNCHANGED <<box, late, drawn>>
  BY DEF CreateCommits
<1>2. h \in Handlers /\ \A g \in Handlers : g # h => req'[g] = req[g]
  BY DEF CreateCommits, Done, Handlers, StartInv, TypeInv, TypeOK, RequestTypeOK
<1>3. req'[h].op = "none"
  BY <1>2 DEF CreateCommits, Done, Idle, StartInv, TypeInv, TypeOK, RequestTypeOK
<1> QED BY <1>1, <1>2, <1>3 DEF Fades, MayStart, Handlers

LEMMA RestartFades ==
    ASSUME StartInv, StartInv', BackendRestarts
    PROVE  Fades
<1>1. \A h \in Handlers : req'[h].op = "none"
  BY DEF BackendRestarts, Idle
<1>2. UNCHANGED <<box, drawn>>
  BY DEF BackendRestarts
<1>3. ASSUME NEW s \in Sessions, "start" \in late'[s], "start" \notin late[s]
      PROVE  MayStart(s)
  <2>1. "start" \in AwaitedCalls(s)
    BY <1>3 DEF BackendRestarts
  <2>2. PICK h \in Handlers : Creator(h, s) /\ req[h].pc = "start"
    BY <2>1, AwaitedStartHasCreator
  <2> QED BY <2>2 DEF MayStart, Creator, StartInv, TypeInv, RequestShape
<1> QED BY <1>1, <1>2, <1>3 DEF Fades, MayStart, Handlers

\* A call of a creation starts the sandbox, or takes a chance away.
LEMMA CreateCallFadesOrKindles ==
    ASSUME StartInv, StartInv', NEW h \in Requests, CreateSandbox(h) \/ StartSandbox(h)
    PROVE  Fades \/ \E s \in Sessions : Kindles(s)
<1> USE DEF StartInv
<1>0. h \in Handlers
  BY DEF Handlers
<1> PICK s \in Sessions : s = req[h].s
  BY <1>0 DEF CreateSandbox, StartSandbox, CreateCalls, At, TypeInv, RequestShape
<1>1. PICK op \in {"create", "start"}, next \in HandlerPcs :
          /\ req[h].pc = op /\ Step(h, next)
          /\ AgentOk(s, op) \/ AgentError(s, op)
          /\ UNCHANGED <<row, drawn>>
  BY DEF CreateSandbox, StartSandbox, CreateCalls, At, HandlerPcs
<1>2. Creator(h, s)
  BY <1>0, <1>1 DEF Creator, TypeInv, RequestShape
<1>3. ~Running(box[s]) /\ MayStart(s)
  BY <1>0, <1>1, <1>2 DEF CreatorIsAlone, MayStart, Creator
<1>4. /\ \A g \in Handlers : g # h => req'[g] = req[g]
      /\ req'[h].s = s /\ req'[h].op = "create"
  BY <1>0, <1>1, <1>2 DEF Step, Creator, TypeInv, TypeOK, RequestTypeOK, HandlerStates
<1>5. \A t \in Sessions : t # s => box'[t] = box[t] /\ late'[t] = late[t]
  BY <1>1 DEF AgentOk, AgentError, TypeInv, TypeOK, StoreTypeOK
<1>6. \A t \in Sessions \ {s} : MayStart(t)' <=> MayStart(t)
  BY <1>0, <1>1, <1>4, <1>5 DEF MayStart, Handlers
<1>7. CASE Running(box'[s])
  BY <1>3, <1>5, <1>6, <1>7 DEF Kindles
<1>8. CASE ~Running(box'[s])
  BY <1>3, <1>5, <1>6, <1>8 DEF Fades
<1> QED BY <1>7, <1>8

LEMMA LateStartFadesOrKindles ==
    ASSUME StartInv, StartInv', NEW s \in Sessions, NEW op \in late[s] \cap {"create", "start"},
           Accepts(op, box[s]), box' = [box EXCEPT ![s] = Apply(op, @)],
           late' = [late EXCEPT ![s] = @ \ {op}], UNCHANGED <<req, drawn>>
    PROVE  Fades \/ Kindles(s)
<1> USE DEF StartInv
<1>1. \A t \in Sessions : t # s => box'[t] = box[t] /\ late'[t] = late[t]
  BY DEF TypeInv, TypeOK, StoreTypeOK
<1>2. box'[s] = Apply(op, box[s]) /\ late'[s] = late[s] \ {op}
  BY DEF TypeInv, TypeOK, StoreTypeOK
<1>3. \A t \in Sessions \ {s} : MayStart(t)' <=> MayStart(t)
  BY <1>1 DEF MayStart
<1>4. CASE op = "create"
  <2>1. Running(box'[s]) => Running(box[s])
    BY <1>2, <1>4 DEF Apply, CreateSession
  <2>2. "start" \notin late'[s]
    BY <1>2, <1>4 DEF LateStartIsOnly
  <2>3. MayStart(s)' => MayStart(s)
    BY <2>2 DEF MayStart
  <2> QED BY <1>1, <1>3, <2>1, <2>3 DEF Fades
<1>5. CASE op = "start"
  <2>1. ~Running(box[s]) /\ MayStart(s)
    BY <1>5 DEF LateStartIsOnly, MayStart, Accepts
  <2>2. Running(box'[s])
    BY <1>2, <1>5 DEF Apply, StartSession, TypeInv, TypeOK, StoreTypeOK, Containers
  <2> QED BY <1>1, <1>3, <2>1, <2>2 DEF Kindles
<1> QED BY <1>4, <1>5

-----------------------------------------------------------------------------
LEMMA StepFadesOrKindles ==
    ASSUME StartInv, StartInv', [Next]_vars
    PROVE  Fades \/ \E s \in Sessions : Kindles(s)
<1>1. CASE CalmStep
  BY <1>1, CalmFades DEF StartInv
<1>2. ASSUME NEW s \in Sessions, NEW op \in {"create", "start"}, LateStart(s, op)
      PROVE  Fades \/ Kindles(s)
  BY <1>2, LateStartFadesOrKindles DEF LateStart
<1>3. ASSUME NEW h \in Requests, CreationMoves(h)
      PROVE  Fades \/ \E s \in Sessions : Kindles(s)
  BY <1>3, CreateBeginsFades, CreateCallFadesOrKindles, CreateCommitsFades DEF CreationMoves
<1>4. CASE BackendRestarts
  BY <1>4, RestartFades
<1> QED BY <1>1, <1>2, <1>3, <1>4, StepKinds

LEMMA LifetimeStep ==
    StartInv /\ StartInv' /\ [Next]_vars => [Lifetime!LifeNext]_[s \in Sessions |-> Life(s)]
BY StepFadesOrKindles, FadesRefines, KindlesRefines

LEMMA LifetimeInit == Init => Lifetime!LifeInit
BY DEF Init, StoreInit, RequestInit, Lifetime!LifeInit, Life, MayStart, Absent

\* The control plane implements SandboxLifetime under the refinement mapping
\* Life: a sandbox that stopped, or that can no longer be started, never runs
\* (again) under its session id, whatever agent calls are lost, late or
\* repeated and whenever the backend crashes.
THEOREM LifetimeRefinement == Spec => SandboxRunsOnce
<1>1. Spec => []StartInv
  BY StartInvariant
<1>2. Spec => Lifetime!LifeInit
  BY LifetimeInit, PTL DEF Spec
<1>3. Spec => [][Lifetime!LifeNext]_[s \in Sessions |-> Life(s)]
  BY <1>1, LifetimeStep, PTL DEF Spec
<1> QED BY <1>2, <1>3, PTL DEF SandboxRunsOnce, Lifetime!LifeSpec

-----------------------------------------------------------------------------
\* The grace period, in the other direction.

\* A session that has used up its start does not run again.
LEMMA StartedStays ==
    ASSUME StartInv, StartInv', [Next]_vars, NEW s \in Sessions, ~MayStart(s)
    PROVE  ~MayStart(s)' /\ (Running(box'[s]) => Running(box[s]))
BY StepFadesOrKindles DEF Fades, Kindles

\* A row that claims a sandbox was committed after its sandbox had started.
LEMMA ClaimedHasStarted ==
    ASSUME StartInv, LateStartFailed, TransientNeverCommitted, NEW s \in Sessions,
           row[s].status \in LostCandidateStatuses
    PROVE  ~MayStart(s)
<1>1. s \in drawn
  BY DEF StartInv, UndrawnIsUntouched, LostCandidateStatuses
<1>2. "start" \notin late[s]
  BY DEF LateStartFailed, NeverOpened, TransientNeverCommitted, LostCandidateStatuses
<1>3. \A h \in Handlers : ~Creator(h, s)
  BY DEF StartInv, CreatorIsAlone, LostCandidateStatuses
<1> QED BY <1>1, <1>2, <1>3 DEF MayStart, Creator, Handlers

\* The step neither counts nor lists anything new.
LEMMA LossKept ==
    ASSUME StartInv, StartInv', LossInv, [Next]_vars,
           \A s \in Sessions : /\ lostSeen'[s] > 0 => lostSeen[s] > 0
                               /\ s \in recon'.lose => s \in recon.lose,
           recon'.reached =>
              /\ recon.reached
              /\ recon'.pc \in {"rows", "kill", "lost"} =>
                    recon.pc \in {"rows", "kill", "lost"} /\ recon'.running = recon.running
    PROVE  LossInv'
BY StartedStays DEF LossInv

LEMMA LossStep ==
    ASSUME GraceCycles > 1, StartInv, StartInv', LateStartFailed, TransientNeverCommitted,
           LossInv, [Next]_vars
    PROVE  LossInv'
<1>0. /\ recon \in Cycles /\ lostSeen \in [Sessions -> 0..GraceCycles] /\ GraceCycles \in Nat
  BY GraceAssumption DEF StartInv, TypeInv, TypeOK, ReconTypeOK
<1>1. CASE UNCHANGED reconVars
  BY <1>1, LossKept DEF reconVars
<1>2. CASE BackendRestarts
  BY <1>2, LossKept DEF BackendRestarts, ReconIdle
<1>3. CASE ReconcilerLists
  <2>1. CASE ReconLists
    <3>1. /\ recon'.running = {s \in Sessions : Running(box[s])} /\ recon'.lose = {}
          /\ lostSeen' = lostSeen /\ box' = box
      BY <2>1 DEF ReconLists, ReconIdle, storeVars
    <3>2. ASSUME NEW s \in Sessions, lostSeen[s] > 0 PROVE ~MayStart(s)'
      BY <3>2, StartedStays DEF LossInv
    <3> QED BY <3>1, <3>2 DEF LossInv
  <2>2. CASE ReconCannotList
    BY <2>2, LossKept DEF ReconCannotList, ReconIdle
  <2> QED BY <1>3, <2>1, <2>2 DEF ReconcilerLists
<1>4. ASSUME NEW s \in Sessions, ReconKills(s) \/ ReconRemoves(s) \/ ReconFails(s)
      PROVE  LossInv'
  <2>1. CASE ReconKills(s)
    BY <1>0, <2>1, LossKept DEF ReconKills, Cycles
  <2>2. CASE ReconRemoves(s)
    BY <1>0, <2>2, LossKept DEF ReconRemoves, Cycles
  <2>3. CASE ReconFails(s)
    BY <1>0, <2>3, LossKept DEF ReconFails, Cycles
  <2> QED BY <1>4, <2>1, <2>2, <2>3
<1>5. CASE ReconReadsRows
  BY <1>0, <1>5, LossKept DEF ReconReadsRows, Cycles
<1>6. CASE ReconKillsDone
  BY <1>0, <1>6, LossKept DEF ReconKillsDone, Cycles
<1>7. CASE ReconCommits
  BY <1>7, LossKept DEF ReconCommits, ReconIdle
<1>8. CASE ReconFindsLost
  <2> DEFINE claimed == {s \in Sessions : row[s].status \in LostCandidateStatuses}
             lost == IF recon.reached THEN claimed \ recon.running ELSE claimed
             seen == [s \in Sessions |-> IF s \in lost THEN CountUp(lostSeen[s])
                                         ELSE IF s \in claimed THEN 0
                                         ELSE lostSeen[s]]
  <2>1. /\ recon.pc = "lost" /\ recon'.pc = "lose" /\ recon'.reached = recon.reached
        /\ lostSeen' = seen /\ box' = box
        /\ recon'.lose = {s \in lost : seen[s] >= GraceCycles}
    BY <1>0, <1>8 DEF ReconFindsLost, Cycles, storeVars
  <2>2. ASSUME NEW s \in Sessions, lostSeen'[s] > 0 \/ s \in recon'.lose
        PROVE  ~MayStart(s)'
    <3>1. s \in claimed \/ lostSeen[s] > 0
      BY <2>1, <2>2
    <3>2. ~MayStart(s)
      BY <3>1, ClaimedHasStarted DEF LossInv
    <3> QED BY <3>2, StartedStays
  <2>3. ASSUME NEW s \in Sessions, recon.reached, s \in recon'.lose
        PROVE  ~Running(box[s])
    <3>1. s \notin recon.running /\ CountUp(lostSeen[s]) >= GraceCycles
      BY <2>1, <2>3
    <3>2. lostSeen[s] > 0
      BY <1>0, <3>1 DEF CountUp
    <3> QED BY <2>1, <2>3, <3>1, <3>2 DEF LossInv
  <2> HIDE DEF claimed, lost, seen
  <2> QED BY <2>1, <2>2, <2>3 DEF LossInv
<1>9. CASE ReconcilerActs
  BY <1>4, <1>5, <1>6, <1>7, <1>8, <1>9 DEF ReconcilerActs, ReconStep
<1>10. CASE \/ EnvironmentActs \/ PollerActs \/ ReaperActs \/ UNCHANGED vars
            \/ \E c \in Conns : ViewerActs(c)
            \/ \E h \in Requests : RequestActs(h)
  BY <1>1, <1>10 DEF EnvironmentActs, PollerActs, ReaperActs, ViewerActs, RequestActs, vars
<1> QED BY <1>2, <1>3, <1>9, <1>10 DEF Next

\* No session is ended as lost while a sandbox of it runs, on an answer of its
\* node and if the grace is more than one cycle: the listing that counts was
\* taken when the session had been missed before, after its start.
THEOREM LossesAreReal ==
    ASSUME GraceCycles > 1
    PROVE  Spec => []LossIsReal
<1> DEFINE Fits == OutcomeFits /\ IsolationLocks /\ LateStartFailed
<1>1. Init => Fits /\ LossInv
  <2>1. Init => Fits
    BY IsolationInit DEF IsolationInv
  <2>2. Init => LossInv
    BY DEF Init, ReconInit, ReconIdle, LossInv
  <2> QED BY <2>1, <2>2
<1>2. StartInv /\ LockHasItsTransaction /\ Fits /\ [Next]_vars => Fits'
  BY FitsStep, LateStartStep, RestartKeepsLateStarts
<1>3. /\ StartInv /\ StartInv' /\ TransientNeverCommitted /\ Fits /\ LossInv /\ [Next]_vars
      => LossInv'
  BY LossStep
<1>4. StartInv /\ LossInv => LossIsReal
  BY DEF StartInv, TypeInv, TypeOK, ReconTypeOK, Cycles, LossInv, LossIsReal
<1> HIDE DEF Fits
<1> QED BY <1>1, <1>2, <1>3, <1>4, StartInvariant, LocksAreReleased, TransientStaysPrivate, PTL
        DEF Spec
=============================================================================
