--------------------------- MODULE SandboxLifetime ---------------------------
(***************************************************************************)
(* What the control plane promises about sandboxes, whatever fails: the    *)
(* sandbox of a session runs in one stretch.  Once it has stopped, or once *)
(* it can no longer be started, it never runs again under that session id. *)
(***************************************************************************)
CONSTANTS Sessions

VARIABLES life

LifeInit == life = [s \in Sessions |-> "new"]

Starts(s) == life[s] = "new" /\ life' = [life EXCEPT ![s] = "running"]

Ends(S) ==
    /\ S # {} /\ \A s \in S : life[s] # "over"
    /\ life' = [s \in Sessions |-> IF s \in S THEN "over" ELSE life[s]]

\* A backend crash can end several sandboxes' prospects at once.
LifeNext == (\E s \in Sessions : Starts(s)) \/ (\E S \in SUBSET Sessions : Ends(S))

LifeSpec == LifeInit /\ [][LifeNext]_life
=============================================================================
