---------------------------- MODULE MCNodeTrust ----------------------------
(***************************************************************************)
(* Instances of NodeTrust: the default node d and one more host g, in the  *)
(* situations in which their rows, agents and sessions meet.               *)
(***************************************************************************)
EXTENDS NodeTrust, TLC

CONSTANTS d, g, r1, r2, t1, x1, x2, x3

Enrolled == [NewRow EXCEPT !.endpoint = TRUE, !.token = TRUE]

Fleet(rowD, rowG) == [n \in Nodes |-> IF n = d THEN rowD ELSE rowG]

Quiet == [ops |-> {}, targets |-> {g}, polling |-> TRUE, requests |-> {r1}, sessions |-> {},
          tokens |-> Tokens, headroom |-> {1}, ceiling |-> 1, downs |-> 0]

\* A host enrols, is approved and revoked, with calls that are repeated.
Joining ==
    [rows |-> Fleet(NoRow, NoRow),
     up |-> {g},
     use |-> [Quiet EXCEPT !.ops = {"enroll", "approve", "revoke"}, !.requests = {r1, r2},
                           !.tokens = {t1}]]

\* Holds on a node that has not reported yet, with an agent that goes down.
Held ==
    [rows |-> Fleet(NoRow, Enrolled),
     up |-> {g},
     use |-> [Quiet EXCEPT !.ops = {"drain", "undrain", "maintenance", "unmaintenance"},
                           !.downs = 1]]

\* A session on a node that is revoked and enrolled again around it.
Leaving ==
    [rows |-> Fleet([NewRow EXCEPT !.status = "MAINTENANCE"], Enrolled),
     up |-> {d, g},
     use |-> [Quiet EXCEPT !.ops = {"create", "terminate", "revoke", "enroll"},
                           !.sessions = {x1}, !.polling = FALSE]]

\* More creations than the host has room for, on a fresh installation.
Crowded ==
    [rows |-> Fleet(NoRow, NoRow),
     up |-> {d},
     use |-> [Quiet EXCEPT !.ops = {"create", "terminate"}, !.targets = {}, !.polling = FALSE,
                           !.requests = {r1, r2}, !.sessions = {x1, x2, x3}]]

\* Two creations on two nodes.
Spread ==
    [rows |-> Fleet(NewRow, Enrolled),
     up |-> {d, g},
     use |-> [Quiet EXCEPT !.ops = {"create"}, !.targets = {}, !.polling = FALSE,
                           !.requests = {r1, r2}, !.sessions = {x1, x2}]]

\* A new host under changing load whose agent restarts, with a first session.
UnderLoad ==
    [rows |-> Fleet(NoRow, NoRow),
     up |-> {d},
     use |-> [Quiet EXCEPT !.ops = {"create"}, !.targets = {d}, !.sessions = {x1},
                           !.headroom = {-1, 1, 2}, !.ceiling = 2, !.downs = 1]]

\* A single-node installation whose node is revoked.
Revoked ==
    [rows |-> Fleet(NewRow, NoRow),
     up |-> {d},
     use |-> [Quiet EXCEPT !.ops = {"revoke", "create"}, !.targets = {d}, !.sessions = {x1}]]

Fleets == {Joining, Held, Leaving, Crowded, Spread, UnderLoad, Revoked}
=============================================================================
