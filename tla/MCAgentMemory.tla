--------------------------- MODULE MCAgentMemory ---------------------------
(***************************************************************************)
(* Instances of AgentMemory for TLC: a pair of near duplicates, and in the *)
(* larger instances a fact of another agent.                               *)
(***************************************************************************)
EXTENDS AgentMemory, TLC

CONSTANTS f1, f2, f3, a1, a2, p1, p2, d1, d2

MCAgentOf == [f \in Facts |-> IF f = f3 THEN a2 ELSE a1]
MCSimilar == {<<f, g>> \in Facts \X Facts : {f, g} \subseteq {f1, f2} \/ f = g}
MCRank == [f \in Facts |-> CASE f = f1 -> 1 [] f = f2 -> 2 [] f = f3 -> 3]
Interchangeable == Permutations(Procs) \cup Permutations(Decayers)
NothingSimilar == {<<f, f>> : f \in Facts}
=============================================================================
