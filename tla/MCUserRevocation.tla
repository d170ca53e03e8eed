-------------------------- MODULE MCUserRevocation --------------------------
(***************************************************************************)
(* Two sessions of one user, revoked by two administrators at once, by one *)
(* beside the reconciler, or by one while another kills one of them.       *)
(***************************************************************************)
EXTENDS UserRevocation, TLC

CONSTANTS u1, b1, b2, r1

MCUsers == {u1}
MCBatches == {b1, b2}
MCRequests == {r1}
MCUses == {{b1, b2}, {b1, Reconciler}, {b1, r1}}
MCOwner == [s \in Sessions |-> u1]
=============================================================================
