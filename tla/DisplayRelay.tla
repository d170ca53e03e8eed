---------------------------- MODULE DisplayRelay ----------------------------
(***************************************************************************)
(* The display WebSocket route (backend/app/api/display.py): a connection  *)
(* reads the session, dials the node's relay, stamps the row, registers    *)
(* itself, relays bytes and cleans up after itself.  Every await of the    *)
(* handler is a step boundary.                                             *)
(***************************************************************************)
EXTENDS SessionStore

VARIABLES
    conn,               \* each connection's handler
    registry            \* _active_connections

relayVars == <<conn, registry>>

ConnIdle == [pc |-> "idle", s |-> Nobody, seen |-> "NONE"]

RelayTypeOK ==
    /\ conn \in [Conns -> [pc : {"idle", "dial", "stamp", "register", "open",
                                 "closing", "unstamp"},
                           s : Sessions \cup {Nobody},
                           seen : SessionStatus \cup {"NONE"}]]
    /\ registry \in [Sessions -> Conns \cup {Nobody}]

RelayInit ==
    /\ conn = [c \in Conns |-> ConnIdle]
    /\ registry = [s \in Sessions |-> Nobody]

GoTo(c, pc) == conn' = [conn EXCEPT ![c].pc = pc]

-----------------------------------------------------------------------------
\* The session must be ACTIVE or DISCONNECTED when the handler loads it.
ViewerConnects(c, s) ==
    /\ conn[c].pc = "idle"
    /\ row[s].status \in {"ACTIVE", "DISCONNECTED"}
    /\ conn' = [conn EXCEPT ![c] = [pc |-> "dial", s |-> s,
                                    seen |-> row[s].status]]
    /\ UNCHANGED <<storeVars, registry>>

\* The relay answers: the sandbox has a display.
ViewerDials(c) ==
    /\ conn[c].pc = "dial"
    /\ HasDisplay(box[conn[c].s])
    /\ GoTo(c, "stamp")
    /\ UNCHANGED <<storeVars, registry>>

\* OSError, a refused handshake or the ten-second open timeout.
ViewerDialFails(c) ==
    /\ conn[c].pc = "dial"
    /\ conn' = [conn EXCEPT ![c] = ConnIdle]
    /\ UNCHANGED <<storeVars, registry>>

\* The handler assigns status ACTIVE, but the column is written only when the
\* status it loaded before dialling was a different one.
ViewerStamps(c) ==
    LET s == conn[c].s
        r == IF conn[c].seen = "ACTIVE" THEN Touch(row[s])
                                        ELSE SetStatus(row[s], "ACTIVE")
    IN  /\ conn[c].pc = "stamp"
        /\ Unlocked(s)
        /\ Commit(s, [r EXCEPT !.viewer = c, !.idle = FALSE])
        /\ GoTo(c, "register")
        /\ UNCHANGED <<box, late, registry>>

\* The first statement after the commit; a newer tab takes the entry over.
ViewerRegisters(c) ==
    /\ conn[c].pc = "register"
    /\ registry' = [registry EXCEPT ![conn[c].s] = c]
    /\ GoTo(c, "open")
    /\ UNCHANGED storeVars

\* Variant: the registry entry stays.
UnregisterNothing(c) == registry' = registry

\* Removes the registry entry if it is still this connection's.
Unregister(c) ==
    registry' = [s \in Sessions |->
                    IF registry[s] = c THEN Nobody ELSE registry[s]]

\* Either pump ends: the tab closes, the relay is cut, the filter gives up.
ViewerLeaves(c) ==
    /\ conn[c].pc = "open"
    /\ Unregister(c)
    /\ GoTo(c, "closing")
    /\ UNCHANGED storeVars

\* The first conditional UPDATE: ACTIVE with this connection's stamp becomes
\* DISCONNECTED.  When it matches, it holds the row until the commit.
ViewerDisconnects(c) ==
    LET s == conn[c].s
    IN  /\ conn[c].pc = "closing"
        /\ IF row[s].status = "ACTIVE" /\ row[s].viewer = c
           THEN /\ Unlocked(s)
                /\ Commit(s, [SetStatus(row[s], "DISCONNECTED") EXCEPT
                                 !.viewer = Nobody, !.idle = FALSE])
                /\ conn' = [conn EXCEPT ![c] = ConnIdle]
           ELSE /\ GoTo(c, "unstamp")
                /\ UNCHANGED <<row, lock>>
        /\ UNCHANGED <<box, late, registry>>

\* Variant: the second UPDATE is missing.
ViewerForgetsStamp(c) ==
    /\ conn[c].pc = "unstamp"
    /\ conn' = [conn EXCEPT ![c] = ConnIdle]
    /\ UNCHANGED <<storeVars, registry>>

\* The second one: in any other state only the stamp is removed.
ViewerUnstamps(c) ==
    LET s == conn[c].s
    IN  /\ conn[c].pc = "unstamp"
        /\ IF row[s].viewer = c
           THEN /\ Unlocked(s)
                /\ Commit(s, [Touch(row[s]) EXCEPT !.viewer = Nobody])
           ELSE UNCHANGED <<row, lock>>
        /\ conn' = [conn EXCEPT ![c] = ConnIdle]
        /\ UNCHANGED <<box, late, registry>>

RelayStep(c) ==
    \/ \E s \in Sessions : ViewerConnects(c, s)
    \/ ViewerDials(c)
    \/ ViewerDialFails(c)
    \/ ViewerStamps(c)
    \/ ViewerRegisters(c)
    \/ ViewerLeaves(c)
    \/ ViewerDisconnects(c)
    \/ ViewerUnstamps(c)

-----------------------------------------------------------------------------
\* Closes the registered connection, if there is one: its pumps end.
ForceDisconnect(s) ==
    LET c == registry[s]
    IN  IF c = Nobody
        THEN UNCHANGED relayVars
        ELSE /\ Unregister(c)
             /\ GoTo(c, "closing")

\* Forgets the entry without closing the connection.
DiscardStaleConnection(s) ==
    /\ registry' = [registry EXCEPT ![s] = Nobody]
    /\ conn' = conn

\* At startup no viewer is connected: stamps go, unattended clocks restart.
ResetViewerStamps ==
    row' = [s \in Sessions |->
               IF row[s].viewer # Nobody \/ row[s].status = "ACTIVE"
               THEN [Touch(row[s]) EXCEPT !.viewer = Nobody, !.idle = FALSE]
               ELSE row[s]]
=============================================================================
