-------------------------- MODULE MCSessionBuffer --------------------------
(***************************************************************************)
(* Instances of SessionBuffer for TLC: three turn lists, one that fits     *)
(* inline and two of two and three chunks.                                 *)
(***************************************************************************)
EXTENDS SessionBuffer

CONSTANTS w1, w2, r1, small, medium, large

MCChunks ==
    [p \in Payloads |-> CASE p = small -> 0 [] p = medium -> 2 [] p = large -> 3]
=============================================================================
