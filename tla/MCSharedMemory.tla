--------------------------- MODULE MCSharedMemory ---------------------------
(***************************************************************************)
(* Instance of SharedMemory for TLC.  Similarity is not transitive: the    *)
(* second finding is near the first and the third, which are not near.     *)
(* Three deployments: two processes and one process on Qdrant, and two     *)
(* processes on Graphiti, each with every channel.                         *)
(***************************************************************************)
EXTENDS SharedMemory

CONSTANTS f1, f2, f3, p1, p2

MCSimilar ==
    {<<f, g>> \in Findings \X Findings : f = g \/ f2 \in {f, g}}

MCDeployment(procs, graphiti) ==
    [procs |-> procs, channels |-> Channels, graphiti |-> graphiti]

MCSetups ==
    {MCDeployment({p1, p2}, FALSE), MCDeployment({p1}, FALSE), MCDeployment({p1, p2}, TRUE)}
=============================================================================
