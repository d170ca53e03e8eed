------------------------------ MODULE Sandbox ------------------------------
(***************************************************************************)
(* One sandbox container as the Session Agent's Docker provider leaves it  *)
(* (session-agent/app/providers/docker_provider.py).  The control plane    *)
(* changes a container only through the five operations below.             *)
(***************************************************************************)

\* run is the container's Docker status; net says whether it is attached to
\* its network.  "absent" is Docker's NotFound.
Containers == [run : {"absent", "created", "running", "exited"}, net : BOOLEAN]

Absent == [run |-> "absent", net |-> FALSE]

AgentOps == {"create", "start", "isolate", "restore", "terminate"}

Present(c) == c.run # "absent"

Running(c) == c.run = "running"

\* An operation that looks its container up (_get_managed_container) fails
\* when there is none; creating and terminating are idempotent.
Accepts(op, c) == op \in {"create", "terminate"} \/ Present(c)

\* A second create finds the container by name and returns.
CreateSession(c) ==
    IF Present(c) THEN c ELSE [run |-> "created", net |-> TRUE]

StartSession(c) == [c EXCEPT !.run = "running"]

\* Variant: a running container keeps its network.
IsolateStoppedOnly(c) == [c EXCEPT !.net = Running(c)]

\* Disconnects the container from every network it is attached to.
IsolateSession(c) == [c EXCEPT !.net = FALSE]

\* Variant: restoring starts a stopped container.
RestoreStarts(c) == [run |-> "running", net |-> TRUE]

RestoreSession(c) == [c EXCEPT !.net = TRUE]

TerminateSession(c) == Absent

Apply(op, c) ==
    CASE op = "create"    -> CreateSession(c)
      [] op = "start"     -> StartSession(c)
      [] op = "isolate"   -> IsolateSession(c)
      [] op = "restore"   -> RestoreSession(c)
      [] op = "terminate" -> TerminateSession(c)

\* The relay and the readiness probe both need the container's address on
\* its network, which only a running, attached container has.
HasDisplay(c) == Running(c) /\ c.net
=============================================================================
