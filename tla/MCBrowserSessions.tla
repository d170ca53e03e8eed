-------------------------- MODULE MCBrowserSessions --------------------------
(***************************************************************************)
(* Instances of the session control plane: every session belongs to one    *)
(* user, and requests and connections are interchangeable.                 *)
(***************************************************************************)
EXTENDS SessionInvariants, TLC

CONSTANTS u1

MCUsers == {u1}
MCOwner == [s \in Sessions |-> u1]

RequestSymmetry == Permutations(Requests)
ConnSymmetry == Permutations(Conns)
=============================================================================
