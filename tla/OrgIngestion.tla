--------------------------- MODULE OrgIngestion ---------------------------
(***************************************************************************)
(* Layer 4, the knowledge of connected sources.  IngestionWorkflow fetches *)
(* the resources of a connector, keeps those whose content differs from    *)
(* the hash in knowledge_sync_state, chunks them, upserts the chunks to    *)
(* the collection org_knowledge of Qdrant and then writes the hashes, one  *)
(* resource at a time.  Each step is an activity; one that fails for good  *)
(* ends the run, and a later run starts over.  The workflow id names the   *)
(* connector, so a connector has one run at a time; the runs of different  *)
(* connectors interleave.  A content stands for its hash.                  *)
(***************************************************************************)
EXTENDS Naturals, FiniteSets

CONSTANTS
    Connectors,
    Workspaces,
    Readers,    \* Readers[c]: workspaces _sharing_scope_allows for c's chunks
    Resources,  \* names of resources, each connector has its own
    Contents,
    ContentsOf, \* ContentsOf[c]: contents the source of c may hold
    Texts,      \* chunk texts; the point id is the SHA-256 of the text alone
    Chunks,     \* Chunks[v]: the texts chunk() cuts content v into
    Rank,       \* Rank[t]: place of t in the fused ranking of the query
    Window,     \* limit of the query, max(3 * top_k, 16) in the code
    TopK,       \* top_k of the recall
    MaxEdits,   \* bound: changes of the sources
    MaxFails,   \* bound: runs that fail
    None

ASSUME ReadersAssumption == Readers \in [Connectors -> SUBSET Workspaces]
ASSUME ContentsAssumption == ContentsOf \in [Connectors -> SUBSET Contents]
ASSUME ChunksAssumption == Chunks \in [Contents -> SUBSET Texts]
ASSUME RankAssumption ==
    /\ Rank \in [Texts -> Nat]
    /\ \A t, u \in Texts : Rank[t] = Rank[u] => t = u
ASSUME LimitAssumption == TopK \in Nat /\ Window \in Nat /\ TopK <= Window
ASSUME BoundAssumption == MaxEdits \in Nat /\ MaxFails \in Nat
ASSUME NoneAssumption == None \notin Contents /\ None \notin Connectors

VARIABLES
    source,     \* source[c][r]: content of r at the source, None: not there
    sync,       \* sync[c][r]: content_hash in knowledge_sync_state, None: no row
    index,      \* index[t]: connector_id in the payload of t's point, None: no point
    deleted,    \* connectors deleted from the registry
    pc,         \* pc[c]: the activity the run of c executes next
    fetched,    \* fetched[c][r]: content fetch_resources returned
    pending,    \* pending[c]: resources changed and not yet in the sync state
    edits,      \* history: changes of the sources
    fails       \* history: runs that failed

stores == <<sync, index, deleted>>
run == <<pc, fetched, pending>>
vars == <<source, stores, run, edits, fails>>

Nothing == [r \in Resources |-> None]

TypeOK ==
    /\ source \in [Connectors -> [Resources -> Contents \cup {None}]]
    /\ sync \in [Connectors -> [Resources -> Contents \cup {None}]]
    /\ index \in [Texts -> Connectors \cup {None}]
    /\ deleted \in SUBSET Connectors
    /\ pc \in [Connectors -> {"idle", "diff", "upsert", "state"}]
    /\ fetched \in [Connectors -> [Resources -> Contents \cup {None}]]
    /\ pending \in [Connectors -> SUBSET Resources]
    /\ \A c \in Connectors :
        /\ \A r \in Resources : {source[c][r], fetched[c][r], sync[c][r]}
                                    \subseteq ContentsOf[c] \cup {None}
        /\ \A r \in pending[c] : fetched[c][r] # None
        /\ pc[c] = "idle" => fetched[c] = Nothing /\ pending[c] = {}
    /\ edits \in 0 .. MaxEdits /\ fails \in 0 .. MaxFails

Init ==
    /\ source = [c \in Connectors |-> Nothing]
    /\ sync = [c \in Connectors |-> Nothing]
    /\ index = [t \in Texts |-> None]
    /\ deleted = {}
    /\ pc = [c \in Connectors |-> "idle"]
    /\ fetched = [c \in Connectors |-> Nothing]
    /\ pending = [c \in Connectors |-> {}]
    /\ edits = 0 /\ fails = 0

-----------------------------------------------------------------------------
\* The source of a connector changes: a resource appears, changes or goes.
Edit(c, r, v) ==
    /\ edits < MaxEdits
    /\ v # source[c][r]
    /\ source' = [source EXCEPT ![c][r] = v]
    /\ edits' = edits + 1
    /\ UNCHANGED <<stores, run, fails>>

\* The rows of the sync state go with the connector's row (ON DELETE
\* CASCADE).  The points stay, and a run under way goes on.
DeleteConnector(c) ==
    /\ c \notin deleted
    /\ deleted' = deleted \cup {c}
    /\ sync' = [sync EXCEPT ![c] = Nothing]
    /\ UNCHANGED <<source, index, run, edits, fails>>

-----------------------------------------------------------------------------
\* IngestionWorkflow.run.
Enter(c, step, contents, resources) ==
    /\ pc' = [pc EXCEPT ![c] = step]
    /\ fetched' = [fetched EXCEPT ![c] = contents]
    /\ pending' = [pending EXCEPT ![c] = resources]

End(c) == Enter(c, "idle", Nothing, {})

FetchResources(c) ==
    /\ pc[c] = "idle"
    /\ c \notin deleted
    /\ Enter(c, "diff", source[c], {})
    /\ UNCHANGED <<source, stores, edits, fails>>

\* Mutant: only resources without a stored hash count as changed.
ChangedIfNew(c) ==
    {r \in Resources : fetched[c][r] # None /\ sync[c][r] = None}

Changed(c) ==
    {r \in Resources : fetched[c][r] # None /\ sync[c][r] # fetched[c][r]}

\* diff_resources, then chunk_and_embed and pii_screen, which store nothing;
\* the registered pii_screen returns the chunks as they are.
DiffResources(c) ==
    /\ pc[c] = "diff"
    /\ IF Changed(c) = {}
       THEN End(c)
       ELSE Enter(c, "upsert", fetched[c], Changed(c))
    /\ UNCHANGED <<source, stores, edits, fails>>

Batch(c) == UNION {Chunks[fetched[c][r]] : r \in pending[c]}

Put(c, texts) == index' = [t \in Texts |-> IF t \in texts THEN c ELSE index[t]]

\* Mutant: the hashes are written before the chunks, in one step.
UpsertAfterState(c) ==
    /\ pc[c] = "upsert"
    /\ sync' = [sync EXCEPT ![c] = [r \in Resources |->
                    IF r \in pending[c] THEN fetched[c][r] ELSE sync[c][r]]]
    /\ Put(c, {t \in Batch(c) : index[t] # None})
    /\ Enter(c, "state", fetched[c], pending[c])
    /\ UNCHANGED <<source, deleted, edits, fails>>

\* The sync state is written for the resources that have chunks.
UpsertOrgKnowledge(c) ==
    /\ pc[c] = "upsert"
    /\ Put(c, Batch(c))
    /\ Enter(c, "state", fetched[c], {r \in pending[c] : Chunks[fetched[c][r]] # {}})
    /\ UNCHANGED <<source, sync, deleted, edits, fails>>

\* The row refers to the connector's row: the INSERT fails once that is gone.
UpdateSyncState(c, r) ==
    /\ pc[c] = "state"
    /\ r \in pending[c]
    /\ c \notin deleted
    /\ sync' = [sync EXCEPT ![c][r] = fetched[c][r]]
    /\ pending' = [pending EXCEPT ![c] = @ \ {r}]
    /\ UNCHANGED <<source, index, deleted, pc, fetched, edits, fails>>

Complete(c) ==
    /\ pc[c] = "state"
    /\ pending[c] = {}
    /\ End(c)
    /\ UNCHANGED <<source, stores, edits, fails>>

\* An activity fails as often as it may be tried, or the run is terminated.
\* An upsert that fails may have stored some of its points.
Fail(c) ==
    /\ pc[c] # "idle"
    /\ fails < MaxFails
    /\ \E texts \in SUBSET (IF pc[c] = "upsert" THEN Batch(c) ELSE {}) : Put(c, texts)
    /\ End(c)
    /\ fails' = fails + 1
    /\ UNCHANGED <<source, sync, deleted, edits>>

\* The run of a deleted connector cannot write its sync state.
FailDeleted(c) ==
    /\ pc[c] = "state"
    /\ c \in deleted /\ pending[c] # {}
    /\ End(c)
    /\ UNCHANGED <<source, stores, edits, fails>>

Proceed(c) ==
    \/ DiffResources(c) \/ UpsertOrgKnowledge(c)
    \/ \E r \in Resources : UpdateSyncState(c, r)
    \/ Complete(c) \/ FailDeleted(c)

Next ==
    \E c \in Connectors :
        \/ \E r \in Resources, v \in ContentsOf[c] \cup {None} : Edit(c, r, v)
        \/ DeleteConnector(c)
        \/ FetchResources(c)
        \/ Proceed(c)
        \/ Fail(c)

Spec == Init /\ [][Next]_vars

\* Temporal carries a run that was started to its end.
FairSpec == Spec /\ \A c \in Connectors : WF_vars(Proceed(c))

-----------------------------------------------------------------------------
\* _hybrid_query and recall_org_knowledge: the query has no filter, and what
\* the workspace may not read is dropped from the points it returns.
Points == {t \in Texts : index[t] # None}

Best(n, S) == {t \in S : Cardinality({u \in S : Rank[u] < Rank[t]}) < n}

Readable(w) == {t \in Points : w \in Readers[index[t]]}

Recalled(w) == Best(TopK, Best(Window, Points) \cap Readable(w))

-----------------------------------------------------------------------------
\* What delta sync skips is searchable: a stored hash means that each chunk
\* of that content has a point, whichever run failed where in between.
SyncedIsIndexed ==
    \A c \in Connectors, r \in Resources :
        sync[c][r] # None => Chunks[sync[c][r]] \subseteq Points

\* A stored hash means that the points of that content are the connector's own:
\* the sync state of a connector is all it needs to know of the index.
SyncedIsOwned ==
    \A c \in Connectors, r \in Resources :
        sync[c][r] # None => \A t \in Chunks[sync[c][r]] : index[t] = c

\* One run that ends well brings the sync state to what it fetched, whatever
\* the runs before it left behind; a resource without chunks gets no row.
EndsWell(c) == Complete(c) \/ (DiffResources(c) /\ pc'[c] = "idle")

CaughtUp(c, r) ==
    (fetched[c][r] # None /\ Chunks[fetched[c][r]] # {}) => sync[c][r] = fetched[c][r]

OneCycleSuffices ==
    [][\A c \in Connectors \ deleted :
          EndsWell(c) => \A r \in Resources : CaughtUp(c, r)]_vars

\* Once the sync state is that of the source, the connector has no point
\* whose text is not in the source.
IndexStaysFresh ==
    \A c \in Connectors :
        (c \notin deleted /\ pc[c] = "idle" /\ sync[c] = source[c]) =>
            \A t \in Texts : index[t] = c =>
                \E r \in Resources : source[c][r] # None /\ t \in Chunks[source[c][r]]

\* A recall returns as many chunks as it may, if the workspace may read so many.
RecallFindsReadable ==
    \A w \in Workspaces : Recalled(w) = Best(TopK, Readable(w))

\* The points of a deleted connector are removed.
DeletedIsPurged ==
    \A c \in Connectors : c \in deleted ~> \A t \in Texts : index[t] # c
=============================================================================
