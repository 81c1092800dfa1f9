------------------------- MODULE MCContextAssembly -------------------------
(***************************************************************************)
(* Instance of ContextAssembly for TLC: a memory, a shared finding and two *)
(* chunks of organisation knowledge.  A configuration may raise slack      *)
(* above the rest, or name an unknown source.                              *)
(***************************************************************************)
EXTENDS ContextAssembly, TLC

MCLayerOf == <<"layer2", "layer3", "layer4", "layer4">>
MCSourceOf == <<"agent_memory", "shared_memory", "github", "slack">>
MCScore == <<5, 6, 4, 6>>

\* The column "code".
MCDefaultWeight ==
    [agent_memory |-> 12, shared_memory |-> 10, github |-> 15, slack |-> 4]

MCConfigs == {<<>>, [slack |-> 20], [teams |-> 10]}
=============================================================================
