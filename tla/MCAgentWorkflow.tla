-------------------------- MODULE MCAgentWorkflow --------------------------
(***************************************************************************)
(* Instance of AgentWorkflow for TLC: one workflow with a tool call and a  *)
(* given output, one that promotes its output of its own accord.           *)
(***************************************************************************)
EXTENDS AgentWorkflow

CONSTANTS a, b

MCFindings == [w \in Workflows |-> IF w = a THEN 1 ELSE 0]
=============================================================================
