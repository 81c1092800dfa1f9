-------------------------- MODULE MCSharingGrants --------------------------
(***************************************************************************)
(* Instances of SharingGrants for TLC.                                     *)
(***************************************************************************)
EXTENDS SharingGrants, TLC

CONSTANTS c1, c2, w1, w2, p1, p2

MCOwner == [c \in Connectors |-> w1]
MCStamped == [c \in Connectors |-> IF c = c1 THEN "private" ELSE "allowlist"]

ProcSymmetry == Permutations(Procs)
=============================================================================
