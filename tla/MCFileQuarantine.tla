--------------------------- MODULE MCFileQuarantine ---------------------------
(***************************************************************************)
(* Instances of the download pipeline.  Items d1 and d2 are in a sandbox   *)
(* of user u1, d3 is in one of user u2.                                    *)
(***************************************************************************)
EXTENDS FileQuarantine, TLC

CONSTANTS s1, s2, d1, d2, d3, c1, c2, u1, u2

MCHome == [d \in Items |-> IF d = d3 THEN s2 ELSE s1]
MCOwner == [s \in Sessions |-> IF s = s1 THEN u1 ELSE u2]

\* All the same content, or d3 another one.
MCSame == [d \in Items |-> c1]
MCOther == [d \in Items |-> IF d = d3 THEN c2 ELSE c1]

FileSymmetry == Permutations(Files)
=============================================================================
