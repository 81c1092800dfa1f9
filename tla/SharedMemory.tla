--------------------------- MODULE SharedMemory ---------------------------
(***************************************************************************)
(* Layer 3, the findings the agents of one workspace share.  A finding is  *)
(* promoted over REST (promote_finding), by an activity of agent-workers   *)
(* (_store_shared_finding) or with the MCP tool promote_finding; it goes   *)
(* to the collection shared_memories of Qdrant or, when GRAPHITI_ENABLED   *)
(* is set, to the Graphiti server.  A finding is looked for by memory-api  *)
(* (search_shared, hydrate), which follows the setting, and by the recall  *)
(* activity of agent-workers, which does not.  Calls to Qdrant do not      *)
(* suspend the event loop of a process, so a process promotes one finding  *)
(* at a time; an action is one call to a store.                            *)
(***************************************************************************)
EXTENDS Naturals, FiniteSets

CONSTANTS
    Findings,   \* source agent and text, which determine the point id
    Similar,    \* pairs of findings with similarity >= _DEDUP_THRESHOLD
    Procs,      \* processes that may promote
    Setups,     \* deployments: the processes, the channels in use, the setting
    None        \* no promotion

Channels == {"rest", "activity", "mcp"}

ASSUME SetupAssumption ==
    Setups \subseteq [procs : SUBSET Procs,
                      channels : SUBSET Channels,
                      graphiti : BOOLEAN]
ASSUME SimilarAssumption ==
    /\ Similar \subseteq Findings \X Findings
    /\ \A f \in Findings : <<f, f>> \in Similar
    /\ \A f, g \in Findings : <<f, g>> \in Similar => <<g, f>> \in Similar
Promotions == Findings \X Channels

ASSUME NoneAssumption == None \notin Promotions

VARIABLES
    setup,      \* the deployment, which does not change: graphiti is
                \* GRAPHITI_ENABLED, the same for every process
    points,     \* findings with a point in shared_memories
    episodes,   \* findings with an episode in Graphiti
    pc,         \* pc[p]: the call p makes next
    job,        \* job[p]: the finding p promotes, and the channel
    promoted    \* history: promotions that were answered

vars == <<setup, points, episodes, pc, job, promoted>>

Init ==
    /\ setup \in Setups
    /\ points = {} /\ episodes = {} /\ promoted = {}
    /\ pc = [p \in Procs |-> "idle"]
    /\ job = [p \in Procs |-> None]

\* The store a channel writes to: the MCP tool does not look at the setting.
Route(ch) == IF setup.graphiti /\ ch # "mcp" THEN "post" ELSE "check"

Promote(p, f, ch) ==
    /\ p \in setup.procs /\ ch \in setup.channels
    /\ pc[p] = "idle"
    /\ pc' = [pc EXCEPT ![p] = Route(ch)]
    /\ job' = [job EXCEPT ![p] = <<f, ch>>]
    /\ UNCHANGED <<setup, points, episodes, promoted>>

\* The answer, "stored", "duplicate" or "graphiti".
Answer(p) ==
    /\ promoted' = promoted \cup {job[p]}
    /\ pc' = [pc EXCEPT ![p] = "idle"]
    /\ job' = [job EXCEPT ![p] = None]

\* _is_shared_duplicate: the nearest finding of the workspace.
IsDuplicate(f) == \E g \in points : <<f, g>> \in Similar

Duplicate(p) ==
    /\ pc[p] = "check" /\ IsDuplicate(job[p][1])
    /\ Answer(p)
    /\ UNCHANGED <<setup, points, episodes>>

\* Mutant: only an identical finding counts as a duplicate.
NewUnlessIdentical(p) ==
    /\ pc[p] = "check" /\ job[p][1] \notin points
    /\ pc' = [pc EXCEPT ![p] = "upsert"]
    /\ UNCHANGED <<setup, points, episodes, job, promoted>>

New(p) ==
    /\ pc[p] = "check" /\ ~IsDuplicate(job[p][1])
    /\ pc' = [pc EXCEPT ![p] = "upsert"]
    /\ UNCHANGED <<setup, points, episodes, job, promoted>>

Upsert(p) ==
    /\ pc[p] = "upsert"
    /\ points' = points \cup {job[p][1]}
    /\ Answer(p)
    /\ UNCHANGED <<setup, episodes>>

Post(p) ==
    /\ pc[p] = "post"
    /\ episodes' = episodes \cup {job[p][1]}
    /\ Answer(p)
    /\ UNCHANGED <<setup, points>>

\* The call fails, or it is carried out and the answer is lost (a timeout):
\* the promotion raises.
Fail(p) ==
    /\ pc[p] # "idle"
    /\ points' \in {points} \cup
                   (IF pc[p] = "upsert" THEN {points \cup {job[p][1]}} ELSE {})
    /\ episodes' \in {episodes} \cup
                     (IF pc[p] = "post" THEN {episodes \cup {job[p][1]}} ELSE {})
    /\ pc' = [pc EXCEPT ![p] = "idle"]
    /\ job' = [job EXCEPT ![p] = None]
    /\ UNCHANGED <<setup, promoted>>

Next ==
    \/ \E p \in Procs, f \in Findings, ch \in Channels : Promote(p, f, ch)
    \/ \E p \in Procs : Duplicate(p) \/ New(p) \/ Upsert(p) \/ Post(p) \/ Fail(p)

Spec == Init /\ [][Next]_vars

\* Mutant: the searches of memory-api do not look at the setting either.
AskedQdrant(reader) == "points"

\* The store a reader asks: search_shared and hydrate look at the setting, the
\* activity recall_shared_memory_activity of agent-workers does not.
Readers == {"service", "agent"}
Asked(reader) == IF setup.graphiti /\ reader = "service" THEN "episodes" ELSE "points"

\* What it can find there: the search is by workspace and similarity.
Searched(reader) == IF Asked(reader) = "episodes" THEN episodes ELSE points

-----------------------------------------------------------------------------
\* Every variable has its type; a process in a call has a finding.
TypeOK ==
    /\ setup \in Setups
    /\ points \subseteq Findings
    /\ episodes \subseteq Findings
    /\ promoted \subseteq Promotions
    /\ pc \in [Procs -> {"idle", "check", "upsert", "post"}]
    /\ job \in [Procs -> Promotions \cup {None}]
    /\ \A p \in Procs : pc[p] = "idle" <=> job[p] = None

Finds(reader, f) == \E g \in Searched(reader) : <<f, g>> \in Similar

\* Where promotion and search are meant for one store: without Graphiti every
\* pair of them; with it, those that follow the setting, and those that do not.
Agree(ch, reader) == setup.graphiti => (ch = "mcp" <=> reader = "agent")

\* There, what was answered can be found, the finding or one near identical.
PromotedIsSearchable ==
    \A entry \in promoted, reader \in Readers :
        Agree(entry[2], reader) => Finds(reader, entry[1])

\* Every finding whose promotion was answered can be found by the agents of the
\* workspace, and by the searches of memory-api (FR-005, FR-033).
FoundByAgents == \A entry \in promoted : Finds("agent", entry[1])
FoundByServices == \A entry \in promoted : Finds("service", entry[1])

\* The workspace holds one entry for near identical findings.
OneEntryPerFinding ==
    \A f, g \in points : <<f, g>> \in Similar => f = g

\* Where a single process promotes, the duplicate check and the upsert keep
\* the collection free of near identical findings, whatever fails; where two
\* do, nothing keeps the one's check and upsert apart from the other's.
OneEntryWhenAlone ==
    (\A p, q \in setup.procs : p = q) => OneEntryPerFinding
=============================================================================
