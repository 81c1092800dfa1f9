-------------------------- MODULE IngestionProofs --------------------------
(***************************************************************************)
(* Proofs about layer 4's way in: OrgIngestion, for all connectors,        *)
(* sources, contents and chunkings, and every bound on edits and failures; *)
(* then TextSteps, for all resources, texts, sizes, matches, overrides     *)
(* and lengths of replacements.                                            *)
(***************************************************************************)
EXTENDS OrgIngestion, TextSteps, FiniteSetTheorems, SequenceTheorems,
        WellFoundedInduction, NaturalsInduction, TLAPS

Held(c) == ContentsOf[c] \cup {None}

LEMMA NothingType ==
    ASSUME NEW c \in Connectors
    PROVE  /\ Nothing \in [Resources -> Contents \cup {None}]
           /\ \A r \in Resources : Nothing[r] = None
           /\ Held(c) \subseteq Contents \cup {None}
BY ContentsAssumption DEF Nothing, Held

\* The type of what a run holds in memory.
RunType(c, phase, contents, resources) ==
    /\ phase \in {"idle", "diff", "upsert", "state"}
    /\ contents \in [Resources -> Contents \cup {None}]
    /\ resources \in SUBSET Resources
    /\ \A r \in Resources : contents[r] \in Held(c)
    /\ \A r \in resources : contents[r] # None
    /\ phase = "idle" => contents = Nothing /\ resources = {}

LEMMA EnterType ==
    ASSUME TypeOK, NEW c \in Connectors, NEW phase, NEW contents, NEW resources,
           Enter(c, phase, contents, resources),
           RunType(c, phase, contents, resources)
    PROVE  /\ pc' \in [Connectors -> {"idle", "diff", "upsert", "state"}]
           /\ fetched' \in [Connectors -> [Resources -> Contents \cup {None}]]
           /\ pending' \in [Connectors -> SUBSET Resources]
           /\ \A d \in Connectors :
                /\ \A r \in Resources : fetched'[d][r] \in Held(d)
                /\ \A r \in pending'[d] : fetched'[d][r] # None
                /\ pc'[d] = "idle" => fetched'[d] = Nothing /\ pending'[d] = {}
<1>1. /\ pc' = [pc EXCEPT ![c] = phase]
      /\ fetched' = [fetched EXCEPT ![c] = contents]
      /\ pending' = [pending EXCEPT ![c] = resources]
    BY DEF Enter
<1>2. /\ pc' \in [Connectors -> {"idle", "diff", "upsert", "state"}]
      /\ fetched' \in [Connectors -> [Resources -> Contents \cup {None}]]
      /\ pending' \in [Connectors -> SUBSET Resources]
    BY <1>1 DEF TypeOK, RunType
<1>3. ASSUME NEW d \in Connectors
      PROVE  /\ \A r \in Resources : fetched'[d][r] \in Held(d)
             /\ \A r \in pending'[d] : fetched'[d][r] # None
             /\ pc'[d] = "idle" => fetched'[d] = Nothing /\ pending'[d] = {}
  <2>1. CASE d = c
    BY <1>1, <2>1 DEF TypeOK, RunType
  <2>2. CASE d # c
    BY <1>1, <2>2 DEF TypeOK, Held
  <2> QED
    BY <2>1, <2>2
<1> QED
    BY <1>2, <1>3

\* A phase of a run that changes no sync state.
LEMMA TypeEnter ==
    ASSUME TypeOK, NEW c \in Connectors, NEW phase, NEW contents, NEW resources,
           Enter(c, phase, contents, resources),
           RunType(c, phase, contents, resources),
           UNCHANGED <<source, sync, deleted, edits>>,
           index' \in [Texts -> Connectors \cup {None}],
           fails' \in 0 .. MaxFails
    PROVE  TypeOK'
BY EnterType DEF TypeOK, Held

LEMMA PutType ==
    ASSUME TypeOK, NEW c \in Connectors, NEW T, Put(c, T)
    PROVE  index' \in [Texts -> Connectors \cup {None}]
BY DEF TypeOK, Put

LEMMA EndType ==
    ASSUME NEW c \in Connectors
    PROVE  RunType(c, "idle", Nothing, {})
BY NothingType DEF RunType, Held

LEMMA TypeInit == Init => TypeOK
BY NothingType, BoundAssumption DEF Init, TypeOK, Held

LEMMA TypeStep == TypeOK /\ [Next]_vars => TypeOK'
<1> SUFFICES ASSUME TypeOK, [Next]_vars PROVE TypeOK'
    OBVIOUS
<1>1. ASSUME NEW c \in Connectors, NEW r \in Resources,
             NEW v \in ContentsOf[c] \cup {None}, Edit(c, r, v)
      PROVE  TypeOK'
  <2>1. v \in Contents \cup {None}
    BY ContentsAssumption
  <2>2. source' \in [Connectors -> [Resources -> Contents \cup {None}]]
    BY <1>1, <2>1 DEF Edit, TypeOK
  <2>3. \A d \in Connectors, s \in Resources : source'[d][s] \in ContentsOf[d] \cup {None}
    BY <1>1 DEF Edit, TypeOK
  <2>4. edits' \in 0 .. MaxEdits
    BY <1>1, BoundAssumption DEF Edit, TypeOK
  <2> QED
    BY <1>1, <2>2, <2>3, <2>4 DEF Edit, TypeOK, stores, run
<1>2. ASSUME NEW c \in Connectors, DeleteConnector(c) PROVE TypeOK'
  <2>1. sync' \in [Connectors -> [Resources -> Contents \cup {None}]]
    BY <1>2, NothingType DEF DeleteConnector, TypeOK
  <2>2. \A d \in Connectors, r \in Resources : sync'[d][r] \in ContentsOf[d] \cup {None}
    BY <1>2, NothingType DEF DeleteConnector, TypeOK
  <2>3. deleted' \in SUBSET Connectors
    BY <1>2 DEF DeleteConnector, TypeOK
  <2> QED
    BY <1>2, <2>1, <2>2, <2>3 DEF DeleteConnector, TypeOK, run
<1>3. ASSUME NEW c \in Connectors, FetchResources(c) PROVE TypeOK'
  <2>1. RunType(c, "diff", source[c], {})
    BY DEF RunType, TypeOK, Held
  <2> QED
    BY <1>3, <2>1, TypeEnter DEF FetchResources, stores, TypeOK
<1>4. ASSUME NEW c \in Connectors, DiffResources(c) PROVE TypeOK'
  <2>1. RunType(c, "upsert", fetched[c], Changed(c))
    BY DEF RunType, Changed, TypeOK, Held
  <2>2. /\ UNCHANGED <<source, sync, deleted, edits>>
        /\ index' \in [Texts -> Connectors \cup {None}]
        /\ fails' \in 0 .. MaxFails
    BY <1>4 DEF DiffResources, stores, TypeOK
  <2> QED
    BY <1>4, <2>1, <2>2, EndType, TypeEnter DEF DiffResources, End
<1>5. ASSUME NEW c \in Connectors, UpsertOrgKnowledge(c) PROVE TypeOK'
  <2>1. RunType(c, "state", fetched[c], {r \in pending[c] : Chunks[fetched[c][r]] # {}})
    BY DEF RunType, TypeOK, Held
  <2>2. index' \in [Texts -> Connectors \cup {None}]
    BY <1>5, PutType DEF UpsertOrgKnowledge
  <2> QED
    BY <1>5, <2>1, <2>2, TypeEnter DEF UpsertOrgKnowledge, TypeOK
<1>6. ASSUME NEW c \in Connectors, NEW r \in Resources, UpdateSyncState(c, r)
      PROVE  TypeOK'
  <2>1. sync' \in [Connectors -> [Resources -> Contents \cup {None}]]
    BY <1>6 DEF UpdateSyncState, TypeOK
  <2>2. pending' \in [Connectors -> SUBSET Resources]
    BY <1>6 DEF UpdateSyncState, TypeOK
  <2>3. ASSUME NEW d \in Connectors
        PROVE  /\ \A s \in Resources : sync'[d][s] \in ContentsOf[d] \cup {None}
               /\ pending'[d] \subseteq pending[d]
    BY <1>6 DEF UpdateSyncState, TypeOK
  <2>4. \A d \in Connectors : pc'[d] = "idle" => fetched'[d] = Nothing /\ pending'[d] = {}
    BY <1>6, <2>3 DEF UpdateSyncState, TypeOK
  <2> QED
    BY <1>6, <2>1, <2>2, <2>3, <2>4 DEF UpdateSyncState, TypeOK
<1>7. ASSUME NEW c \in Connectors, Complete(c) \/ FailDeleted(c) PROVE TypeOK'
    BY <1>7, EndType, TypeEnter DEF Complete, FailDeleted, End, stores, TypeOK
<1>8. ASSUME NEW c \in Connectors, Fail(c) PROVE TypeOK'
  <2>1. index' \in [Texts -> Connectors \cup {None}]
    BY <1>8, PutType DEF Fail
  <2>2. fails' \in 0 .. MaxFails
    BY <1>8, BoundAssumption DEF Fail, TypeOK
  <2> QED
    BY <1>8, <2>1, <2>2, EndType, TypeEnter DEF Fail, End
<1>9. CASE UNCHANGED vars
    BY <1>9 DEF vars, stores, run, TypeOK
<1> QED
    BY <1>1, <1>2, <1>3, <1>4, <1>5, <1>6, <1>7, <1>8, <1>9 DEF Next, Proceed

\* Type correctness of the stores and of every run.
THEOREM IngestTypeCorrect == Spec => []TypeOK
BY TypeInit, TypeStep, PTL DEF Spec

-----------------------------------------------------------------------------
(***************************************************************************)
(* What delta sync skips is searchable.  The strengthening: so is what a   *)
(* run is about to write to the sync state.                                *)
(***************************************************************************)
StateIsIndexed ==
    \A c \in Connectors : pc[c] = "state" =>
        \A r \in pending[c] : Chunks[fetched[c][r]] \subseteq Points

IndexedInv == TypeOK /\ SyncedIsIndexed /\ StateIsIndexed

LEMMA PutAdds ==
    ASSUME NEW c \in Connectors, NEW T, Put(c, T)
    PROVE  Points \subseteq Points' /\ T \cap Texts \subseteq Points'
BY NoneAssumption DEF Put, Points

LEMMA PointsGrow == TypeOK /\ [Next]_vars => Points \subseteq Points'
<1> SUFFICES ASSUME TypeOK, [Next]_vars, index' # index PROVE Points \subseteq Points'
    BY DEF Points
<1>1. PICK c \in Connectors : UpsertOrgKnowledge(c) \/ Fail(c)
    BY DEF Next, Proceed, Edit, DeleteConnector, FetchResources, DiffResources,
           UpdateSyncState, Complete, FailDeleted, vars, stores
<1> QED
    BY <1>1, PutAdds DEF UpsertOrgKnowledge, Fail

\* A phase that leaves the sync state alone and lets no run reach "state".
LEMMA IndexedKept ==
    ASSUME IndexedInv, TypeOK', Points \subseteq Points',
           \A c \in Connectors, r \in Resources :
               sync'[c][r] = sync[c][r] \/ sync'[c][r] = None,
           \A c \in Connectors : pc'[c] = "state" =>
               pc[c] = "state" /\ fetched'[c] = fetched[c] /\ pending'[c] = pending[c]
    PROVE  IndexedInv'
<1>1. SyncedIsIndexed'
    BY DEF IndexedInv, SyncedIsIndexed
<1>2. StateIsIndexed'
    BY DEF IndexedInv, StateIsIndexed
<1> QED
    BY <1>1, <1>2 DEF IndexedInv

\* A run enters an activity: what becomes of all the runs.
LEMMA EnterEffect ==
    ASSUME TypeOK, NEW c \in Connectors, NEW phase, NEW contents, NEW resources,
           Enter(c, phase, contents, resources)
    PROVE  /\ pc'[c] = phase /\ fetched'[c] = contents /\ pending'[c] = resources
           /\ \A d \in Connectors \ {c} :
                pc'[d] = pc[d] /\ fetched'[d] = fetched[d] /\ pending'[d] = pending[d]
BY DEF Enter, TypeOK

\* Steps that neither upsert nor write the sync state, as IndexedStep
\* needs them.
LEMMA QuietStep ==
    ASSUME TypeOK, NEW c \in Connectors,
           \/ \E r \in Resources, v \in ContentsOf[c] \cup {None} : Edit(c, r, v)
           \/ DeleteConnector(c) \/ FetchResources(c) \/ DiffResources(c)
           \/ Complete(c) \/ FailDeleted(c) \/ Fail(c)
    PROVE  /\ \A d \in Connectors, r \in Resources :
                sync'[d][r] = sync[d][r] \/ sync'[d][r] = None
           /\ \A d \in Connectors : pc'[d] = "state" =>
                pc[d] = "state" /\ fetched'[d] = fetched[d] /\ pending'[d] = pending[d]
<1>1. ASSUME NEW r \in Resources, NEW v \in ContentsOf[c] \cup {None}, Edit(c, r, v)
      PROVE  UNCHANGED <<sync, pc, fetched, pending>>
    BY <1>1 DEF Edit, stores, run
<1>2. CASE DeleteConnector(c)
  <2>1. \A d \in Connectors, r \in Resources :
            sync'[d][r] = sync[d][r] \/ sync'[d][r] = None
    BY <1>2 DEF DeleteConnector, TypeOK, Nothing
  <2> QED
    BY <1>2, <2>1 DEF DeleteConnector, run
<1>3. CASE FetchResources(c)
    BY <1>3, EnterEffect DEF FetchResources, stores
<1>4. CASE DiffResources(c)
    BY <1>4, EnterEffect DEF DiffResources, End, stores
<1>5. CASE Complete(c) \/ FailDeleted(c) \/ Fail(c)
    BY <1>5, EnterEffect DEF Complete, FailDeleted, Fail, End, stores
<1> QED
    BY <1>1, <1>2, <1>3, <1>4, <1>5

LEMMA SyncEffect ==
    ASSUME TypeOK, NEW c \in Connectors, NEW r \in Resources, UpdateSyncState(c, r)
    PROVE  /\ pc[c] = "state" /\ r \in pending[c]
           /\ \A d \in Connectors, s \in Resources :
                sync'[d][s] = (IF d = c /\ s = r THEN fetched[c][r] ELSE sync[d][s])
           /\ \A d \in Connectors : pending'[d] \subseteq pending[d]
           /\ UNCHANGED <<pc, fetched>>
<1>1. sync \in [Connectors -> [Resources -> Contents \cup {None}]]
    BY DEF TypeOK
<1>2. \A d \in Connectors, s \in Resources :
            sync'[d][s] = (IF d = c /\ s = r THEN fetched[c][r] ELSE sync[d][s])
    BY <1>1 DEF UpdateSyncState
<1>3. \A d \in Connectors : pending'[d] \subseteq pending[d]
    BY DEF UpdateSyncState, TypeOK
<1> QED
    BY <1>2, <1>3 DEF UpdateSyncState

LEMMA IndexedStep == IndexedInv /\ [Next]_vars => IndexedInv'
<1> SUFFICES ASSUME IndexedInv, [Next]_vars PROVE IndexedInv'
    OBVIOUS
<1>a. TypeOK /\ TypeOK' /\ Points \subseteq Points'
    BY TypeStep, PointsGrow DEF IndexedInv
<1>1. ASSUME NEW c \in Connectors,
             \/ \E r \in Resources, v \in ContentsOf[c] \cup {None} : Edit(c, r, v)
             \/ DeleteConnector(c) \/ FetchResources(c) \/ DiffResources(c)
             \/ Complete(c) \/ FailDeleted(c) \/ Fail(c)
      PROVE  IndexedInv'
    BY <1>1, <1>a, QuietStep, IndexedKept
<1>2. ASSUME NEW c \in Connectors, UpsertOrgKnowledge(c) PROVE IndexedInv'
  <2>1. /\ pc'[c] = "state" /\ fetched'[c] = fetched[c] /\ pending'[c] \subseteq pending[c]
        /\ \A d \in Connectors \ {c} :
            pc'[d] = pc[d] /\ fetched'[d] = fetched[d] /\ pending'[d] = pending[d]
        /\ UNCHANGED sync
    BY <1>2, <1>a, EnterEffect DEF UpsertOrgKnowledge
  <2>2. Batch(c) \cap Texts \subseteq Points'
    BY <1>2, PutAdds DEF UpsertOrgKnowledge
  <2>3. \A r \in pending[c] : Chunks[fetched[c][r]] \subseteq Batch(c) \cap Texts
    BY <1>a, ChunksAssumption DEF Batch, TypeOK
  <2>4. SyncedIsIndexed'
    BY <1>a, <2>1 DEF IndexedInv, SyncedIsIndexed
  <2>5. StateIsIndexed'
    BY <1>a, <2>1, <2>2, <2>3 DEF IndexedInv, StateIsIndexed
  <2> QED
    BY <1>a, <2>4, <2>5 DEF IndexedInv
<1>3. ASSUME NEW c \in Connectors, NEW r \in Resources, UpdateSyncState(c, r)
      PROVE  IndexedInv'
  <2>0. /\ pc[c] = "state" /\ r \in pending[c]
        /\ \A d \in Connectors, s \in Resources :
            sync'[d][s] = (IF d = c /\ s = r THEN fetched[c][r] ELSE sync[d][s])
        /\ \A d \in Connectors : pending'[d] \subseteq pending[d]
        /\ UNCHANGED <<pc, fetched>>
    BY <1>3, <1>a, SyncEffect
  <2>1. Chunks[fetched[c][r]] \subseteq Points'
    BY <1>a, <2>0 DEF IndexedInv, StateIsIndexed
  <2>2. ASSUME NEW d \in Connectors, NEW s \in Resources, sync'[d][s] # None
        PROVE  Chunks[sync'[d][s]] \subseteq Points'
    <3>1. CASE d = c /\ s = r
      BY <2>0, <2>1, <3>1
    <3>2. CASE ~(d = c /\ s = r)
      <4>1. sync'[d][s] = sync[d][s]
        BY <2>0, <3>2
      <4> QED
        BY <1>a, <2>2, <4>1 DEF IndexedInv, SyncedIsIndexed
    <3> QED
      BY <3>1, <3>2
  <2>3. StateIsIndexed'
    BY <1>a, <2>0 DEF IndexedInv, StateIsIndexed
  <2> QED
    BY <1>a, <2>2, <2>3 DEF IndexedInv, SyncedIsIndexed
<1>4. CASE UNCHANGED vars
    BY <1>4 DEF vars, stores, run, IndexedInv, SyncedIsIndexed, StateIsIndexed,
                Points, TypeOK
<1> QED
    BY <1>1, <1>2, <1>3, <1>4 DEF Next, Proceed

LEMMA IndexedInit == Init => IndexedInv
BY TypeInit DEF Init, IndexedInv, SyncedIsIndexed, StateIsIndexed, Nothing

\* Whatever fails between the activities of whichever runs, a resource that
\* delta sync skips has a point for each of its chunks.
THEOREM IngestSkipsOnlyIndexed == Spec => []SyncedIsIndexed
<1>1. IndexedInv => SyncedIsIndexed
    BY DEF IndexedInv
<1> QED
    BY <1>1, IndexedInit, IndexedStep, PTL DEF Spec

-----------------------------------------------------------------------------
(***************************************************************************)
(* One run suffices.  The strengthening: from the diff to its end a run    *)
(* still holds every resource that the sync state does not agree with.     *)
(***************************************************************************)
RestCaughtUp ==
    \A c \in Connectors \ deleted : pc[c] \in {"upsert", "state"} =>
        \A r \in Resources \ pending[c] : CaughtUp(c, r)

CycleInv == TypeOK /\ RestCaughtUp

LEMMA CycleStep == CycleInv /\ [Next]_vars => CycleInv'
<1> SUFFICES ASSUME CycleInv, [Next]_vars PROVE RestCaughtUp'
    BY TypeStep DEF CycleInv
<1>a. TypeOK /\ RestCaughtUp
    BY DEF CycleInv
<1>1. ASSUME NEW c \in Connectors, NEW r \in Resources, NEW v \in ContentsOf[c] \cup {None},
             Edit(c, r, v)
      PROVE  RestCaughtUp'
    BY <1>1, <1>a DEF Edit, stores, run, RestCaughtUp, CaughtUp
<1>2. ASSUME NEW c \in Connectors, DeleteConnector(c) PROVE RestCaughtUp'
  <2>1. \A d \in Connectors \ deleted' : d \notin deleted /\ sync'[d] = sync[d]
    BY <1>2, <1>a DEF DeleteConnector, TypeOK
  <2> QED
    BY <1>2, <1>a, <2>1 DEF DeleteConnector, run, RestCaughtUp, CaughtUp
\* A run that enters an activity, and leaves the stores but the index alone.
<1>3. ASSUME NEW c \in Connectors, NEW phase, NEW contents, NEW resources,
             Enter(c, phase, contents, resources), UNCHANGED <<sync, deleted>>,
             phase \in {"upsert", "state"} /\ c \notin deleted =>
                \A r \in Resources \ resources :
                    (contents[r] # None /\ Chunks[contents[r]] # {}) =>
                        sync[c][r] = contents[r]
      PROVE  RestCaughtUp'
    BY <1>3, <1>a, EnterEffect DEF RestCaughtUp, CaughtUp
<1>4. ASSUME NEW c \in Connectors,
             FetchResources(c) \/ Complete(c) \/ FailDeleted(c) \/ Fail(c)
      PROVE  RestCaughtUp'
    BY <1>4, <1>3 DEF FetchResources, Complete, FailDeleted, Fail, End, stores
<1>5. ASSUME NEW c \in Connectors, DiffResources(c) PROVE RestCaughtUp'
    BY <1>5, <1>3 DEF DiffResources, Changed, End, stores
<1>6. ASSUME NEW c \in Connectors, UpsertOrgKnowledge(c) PROVE RestCaughtUp'
  <2>1. c \notin deleted => \A r \in Resources \ pending[c] : CaughtUp(c, r)
    BY <1>6, <1>a DEF UpsertOrgKnowledge, RestCaughtUp
  <2> QED
    BY <1>6, <1>3, <2>1 DEF UpsertOrgKnowledge, CaughtUp
<1>7. ASSUME NEW c \in Connectors, NEW r \in Resources, UpdateSyncState(c, r)
      PROVE  RestCaughtUp'
  <2>1. /\ \A d \in Connectors, s \in Resources :
            sync'[d][s] = (IF d = c /\ s = r THEN fetched[c][r] ELSE sync[d][s])
        /\ UNCHANGED <<pc, fetched, deleted>>
    BY <1>7, <1>a, SyncEffect DEF UpdateSyncState
  <2>2. \A d \in Connectors :
            pending'[d] = IF d = c THEN pending[c] \ {r} ELSE pending[d]
    BY <1>7, <1>a DEF UpdateSyncState, TypeOK
  <2>3. ASSUME NEW d \in Connectors \ deleted', pc'[d] \in {"upsert", "state"},
               NEW s \in Resources \ pending'[d]
        PROVE  CaughtUp(d, s)'
    <3>1. CASE d = c /\ s = r
      BY <2>1, <3>1 DEF CaughtUp
    <3>2. CASE ~(d = c /\ s = r)
      <4>1. s \in Resources \ pending[d] /\ sync'[d][s] = sync[d][s]
        BY <2>1, <2>2, <2>3, <3>2
      <4>2. CaughtUp(d, s)
        BY <1>a, <2>1, <2>3, <4>1 DEF RestCaughtUp
      <4> QED
        BY <2>1, <4>1, <4>2 DEF CaughtUp
    <3> QED
      BY <3>1, <3>2
  <2> QED
    BY <2>3 DEF RestCaughtUp
<1>8. CASE UNCHANGED vars
    BY <1>8, <1>a DEF vars, stores, run, RestCaughtUp, CaughtUp
<1> QED
    BY <1>1, <1>2, <1>4, <1>5, <1>6, <1>7, <1>8 DEF Next, Proceed

\* A run that ends well leaves no resource with chunks behind, whatever runs
\* before it failed and wherever.
THEOREM IngestCatchesUp == Spec => OneCycleSuffices
<1>1. Init => CycleInv
    BY TypeInit DEF Init, CycleInv, RestCaughtUp
<1>2. ASSUME CycleInv, NEW c \in Connectors \ deleted, EndsWell(c), NEW r \in Resources
      PROVE  CaughtUp(c, r)
  <2>1. CASE Complete(c)
    BY <1>2, <2>1 DEF Complete, CycleInv, RestCaughtUp
  <2>2. CASE DiffResources(c) /\ pc'[c] = "idle"
    <3>1. Changed(c) = {}
      BY <1>2, <2>2, EnterEffect DEF DiffResources, CycleInv
    <3> QED
      BY <3>1 DEF Changed, CaughtUp
  <2> QED
    BY <1>2, <2>1, <2>2 DEF EndsWell
<1>3. CycleInv => \A c \in Connectors \ deleted :
                      EndsWell(c) => \A r \in Resources : CaughtUp(c, r)
    BY <1>2
<1> QED
    BY <1>1, <1>3, CycleStep, PTL DEF Spec, OneCycleSuffices

-----------------------------------------------------------------------------
\* A set of naturals that has a member has a least one.
LEMMA LeastNatural ==
    ASSUME NEW T \in SUBSET Nat, T # {}
    PROVE  \E n \in T : \A m \in T : n <= m
<1> DEFINE R == OpToRel(<, Nat)
<1>1. IsWellFoundedOn(R, Nat)
    BY NatLessThanWellFounded
<1>2. PICK n \in T : \A m \in T : <<m, n>> \notin R
  <2> HIDE DEF R
  <2> QED
    BY <1>1, WFMin
<1>3. \A m \in T : m < n => <<m, n>> \in R
    BY DEF OpToRel
<1>4. \A m \in T : ~ (m < n)
    BY <1>2, <1>3
<1> HIDE DEF R
<1>5. \A m \in T : n <= m
    BY <1>4
<1> QED
    BY <1>5

\* Induction on the naturals, for a set of them.
LEMMA AllNaturals ==
    ASSUME NEW P, 0 \in P, \A n \in Nat : n \in P => n + 1 \in P
    PROVE  Nat \subseteq P
<1> SUFFICES ASSUME Nat \ P # {} PROVE FALSE
    OBVIOUS
<1> PICK n \in Nat \ P : \A m \in Nat \ P : n <= m
    BY LeastNatural
<1>1. n # 0 /\ n - 1 \in P
    OBVIOUS
<1> QED
    BY <1>1

-----------------------------------------------------------------------------
(* Lists of lists.                                                         *)

\* f[i] is the concatenation of the first i lists of ss.
OneMore(f, ss, i) == IF i = 1 THEN ss[i] ELSE f[i - 1] \o ss[i]
Joins(f, ss, n) == \A i \in 1 .. n : f[i] = OneMore(f, ss, i)
PrefixSet(f, ss) == f = [i \in 1 .. Len(ss) |-> OneMore(f, ss, i)]

LEMMA JoinsExist ==
    ASSUME NEW ss, Len(ss) \in Nat
    PROVE  \E f : PrefixSet(f, ss)
<1> DEFINE P == {n \in Nat : \E f : Joins(f, ss, n)}
<1>1. 0 \in P
    BY DEF Joins
<1>2. ASSUME NEW n \in P PROVE n + 1 \in P
  <2> PICK f : Joins(f, ss, n)
    OBVIOUS
  <2> DEFINE g == [i \in 1 .. n + 1 |-> IF i = n + 1 THEN OneMore(f, ss, i) ELSE f[i]]
  <2>1. ASSUME NEW i \in 1 .. n + 1 PROVE g[i] = OneMore(g, ss, i)
    <3>1. g[i] = OneMore(f, ss, i)
      BY DEF Joins
    <3>2. i # 1 => g[i - 1] = f[i - 1]
      OBVIOUS
    <3> QED
      BY <3>1, <3>2 DEF OneMore
  <2>2. Joins(g, ss, n + 1)
    BY <2>1 DEF Joins
  <2> HIDE DEF g
  <2> QED
    BY <2>2
<1>3. Nat \subseteq P
  <2> HIDE DEF P
  <2> QED
    BY <1>1, <1>2, AllNaturals
<1>4. PICK f : Joins(f, ss, Len(ss))
    BY <1>3
<1> DEFINE g == [i \in 1 .. Len(ss) |-> f[i]]
<1>5. ASSUME NEW i \in 1 .. Len(ss) PROVE g[i] = OneMore(g, ss, i)
    BY <1>4 DEF Joins, OneMore
<1>6. g = [i \in 1 .. Len(ss) |-> OneMore(g, ss, i)]
    BY <1>5
<1> QED
    BY <1>6 DEF PrefixSet

\* FlattenSeq takes the last of them.
LEMMA FlattenIsLast ==
    ASSUME NEW ss, Len(ss) \in Nat \ {0}
    PROVE  \E f : Joins(f, ss, Len(ss)) /\ FlattenSeq(ss) = f[Len(ss)]
<1> DEFINE f == CHOOSE h : PrefixSet(h, ss)
<1>1. PrefixSet(f, ss)
    BY JoinsExist
<1>2. FlattenSeq(ss) = f[Len(ss)]
    BY DEF FlattenSeq, PrefixSet, OneMore
<1> HIDE DEF f
<1>3. Joins(f, ss, Len(ss))
    BY <1>1 DEF PrefixSet, Joins
<1> QED
    BY <1>2, <1>3

LEMMA FlattenEmpty == FlattenSeq(<<>>) = <<>>
BY DEF FlattenSeq

\* One list more is one concatenation more.
LEMMA FlattenAppend ==
    ASSUME NEW T, NEW ss \in Seq(Seq(T)), NEW s \in Seq(T)
    PROVE  /\ FlattenSeq(ss) \in Seq(T)
           /\ FlattenSeq(Append(ss, s)) = FlattenSeq(ss) \o s
<1> DEFINE tt == Append(ss, s)
           N == Len(ss)
<1>1. /\ Len(tt) = N + 1 /\ N \in Nat /\ tt[N + 1] = s
      /\ \A i \in 1 .. N : tt[i] = ss[i] /\ ss[i] \in Seq(T)
    OBVIOUS
<1> HIDE DEF tt, N
<1>2. PICK g : Joins(g, tt, N + 1) /\ FlattenSeq(tt) = g[N + 1]
    BY <1>1, FlattenIsLast
<1>3. CASE N = 0
  <2>1. ss = <<>>
    BY <1>3 DEF N
  <2>2. g[1] = s
    BY <1>1, <1>2, <1>3 DEF Joins, OneMore
  <2>3. <<>> \o s = s
    OBVIOUS
  <2>4. FlattenSeq(ss) = <<>>
    BY <2>1, FlattenEmpty
  <2>5. FlattenSeq(tt) = s
    BY <1>2, <1>3, <2>2
  <2> QED
    BY <2>3, <2>4, <2>5 DEF tt
<1>4. CASE N # 0
  <2>1. PICK f : Joins(f, ss, N) /\ FlattenSeq(ss) = f[N]
    BY <1>1, <1>4, FlattenIsLast DEF N
  <2> DEFINE P == {n \in Nat : n \in 1 .. N => f[n] \in Seq(T) /\ f[n] = g[n]}
  <2>2. 0 \in P
    OBVIOUS
  <2>3. ASSUME NEW n \in P PROVE n + 1 \in P
    <3> SUFFICES ASSUME n + 1 \in 1 .. N PROVE f[n + 1] \in Seq(T) /\ f[n + 1] = g[n + 1]
      OBVIOUS
    <3>1. f[n + 1] = OneMore(f, ss, n + 1) /\ g[n + 1] = OneMore(g, tt, n + 1)
      BY <1>1, <1>2, <2>1 DEF Joins
    <3>2. ss[n + 1] \in Seq(T) /\ tt[n + 1] = ss[n + 1]
      BY <1>1
    <3>3. CASE n = 0
      BY <3>1, <3>2, <3>3 DEF OneMore
    <3>4. CASE n # 0
      <4>1. f[n] \in Seq(T) /\ f[n] = g[n]
        BY <3>4, <1>1
      <4>2. f[n + 1] = f[n] \o ss[n + 1] /\ g[n + 1] = g[n] \o tt[n + 1]
        <5>1. n + 1 # 1 /\ (n + 1) - 1 = n
          BY <3>4
        <5> QED
          BY <3>1, <5>1 DEF OneMore
      <4>3. f[n] \o ss[n + 1] \in Seq(T)
        BY <4>1, <3>2
      <4> QED
        BY <4>1, <4>2, <4>3, <3>2
    <3> QED
      BY <3>3, <3>4
  <2>4. Nat \subseteq P
    <3> HIDE DEF P
    <3> QED
      BY <2>2, <2>3, AllNaturals
  <2>5. f[N] \in Seq(T) /\ f[N] = g[N]
    BY <1>1, <1>4, <2>4
  <2>6. g[N + 1] = g[N] \o s
    <3>1. N + 1 # 1 /\ (N + 1) - 1 = N /\ N + 1 \in 1 .. N + 1
      BY <1>1, <1>4
    <3>2. g[N + 1] = OneMore(g, tt, N + 1)
      BY <1>2, <3>1 DEF Joins
    <3> QED
      BY <1>1, <3>1, <3>2 DEF OneMore
  <2> QED
    BY <1>2, <2>1, <2>5, <2>6 DEF tt
<1> QED
    BY <1>3, <1>4

\* A list is built from the front, one element at a time.
LEMMA PrefixGrows ==
    ASSUME NEW S, NEW s \in Seq(S), NEW n \in Nat, n + 1 <= Len(s)
    PROVE  /\ SubSeq(s, 1, n) \in Seq(S) /\ s[n + 1] \in S
           /\ SubSeq(s, 1, n + 1) = Append(SubSeq(s, 1, n), s[n + 1])
<1>1. SubSeq(s, 1, n) \in Seq(S) /\ s[n + 1] \in S
    OBVIOUS
<1>2. SubSeq(s, 1, n + 1) = SubSeq(s, 1, n + 1 - 1) \o <<s[n + 1]>>
    BY SubSeqRecursiveSecond
<1>3. n + 1 - 1 = n
    OBVIOUS
<1>4. Append(SubSeq(s, 1, n), s[n + 1]) = SubSeq(s, 1, n) \o <<s[n + 1]>>
    BY <1>1, AppendIsConcat
<1> QED
    BY <1>1, <1>2, <1>3, <1>4

LEMMA EmptyPrefix ==
    ASSUME NEW S, NEW s \in Seq(S)
    PROVE  SubSeq(s, 1, 0) = <<>>
OBVIOUS

\* Induction on lists: what holds for the empty prefix, and for a prefix with
\* one element more, holds for the list.
LEMMA AllPrefixes ==
    ASSUME NEW S, NEW s \in Seq(S), NEW P, <<>> \in P,
           \A n \in Nat : n + 1 <= Len(s) /\ SubSeq(s, 1, n) \in P
                            => Append(SubSeq(s, 1, n), s[n + 1]) \in P
    PROVE  s \in P
<1> DEFINE Q == {n \in Nat : n <= Len(s) => SubSeq(s, 1, n) \in P}
<1>1. 0 \in Q
    BY EmptyPrefix
<1>2. ASSUME NEW n \in Q PROVE n + 1 \in Q
  <2> SUFFICES ASSUME n + 1 <= Len(s) PROVE SubSeq(s, 1, n + 1) \in P
    OBVIOUS
  <2>1. SubSeq(s, 1, n) \in P
    OBVIOUS
  <2> QED
    BY <2>1, PrefixGrows
<1>3. Nat \subseteq Q
  <2> HIDE DEF Q
  <2> QED
    BY <1>1, <1>2, AllNaturals
<1>4. SubSeq(s, 1, Len(s)) \in P
    BY <1>3
<1> QED
    BY <1>4, SubSeqFull

LEMMA FlattenConcat ==
    ASSUME NEW T, NEW ss \in Seq(Seq(T)), NEW tt \in Seq(Seq(T))
    PROVE  FlattenSeq(ss \o tt) = FlattenSeq(ss) \o FlattenSeq(tt)
<1> DEFINE P == {uu \in Seq(Seq(T)) : FlattenSeq(ss \o uu) = FlattenSeq(ss) \o FlattenSeq(uu)}
<1>1. <<>> \in P
  <2>1. ss \o <<>> = ss /\ FlattenSeq(ss) \o <<>> = FlattenSeq(ss)
    BY FlattenAppend, ConcatEmptySeq, EmptySeq
  <2>2. <<>> \in Seq(Seq(T))
    OBVIOUS
  <2> QED
    BY <2>1, <2>2, FlattenEmpty
<1>2. ASSUME NEW n \in Nat, n + 1 <= Len(tt), SubSeq(tt, 1, n) \in P
      PROVE  Append(SubSeq(tt, 1, n), tt[n + 1]) \in P
  <2> DEFINE uu == SubSeq(tt, 1, n)
             e == tt[n + 1]
  <2>1. uu \in Seq(Seq(T)) /\ e \in Seq(T) /\ FlattenSeq(ss \o uu) = FlattenSeq(ss) \o FlattenSeq(uu)
    BY <1>2
  <2> HIDE DEF uu, e
  <2>2. ss \o Append(uu, e) = Append(ss \o uu, e) /\ ss \o uu \in Seq(Seq(T))
        /\ Append(uu, e) \in Seq(Seq(T))
    <3>1. /\ Append(uu, e) = uu \o <<e>> /\ Append(ss \o uu, e) = (ss \o uu) \o <<e>>
          /\ ss \o uu \in Seq(Seq(T)) /\ <<e>> \in Seq(Seq(T)) /\ Append(uu, e) \in Seq(Seq(T))
      BY <2>1, AppendIsConcat, ConcatProperties
    <3> QED
      BY <2>1, <3>1, ConcatAssociative
  <2>3. /\ FlattenSeq(Append(ss \o uu, e)) = FlattenSeq(ss \o uu) \o e
        /\ FlattenSeq(Append(uu, e)) = FlattenSeq(uu) \o e
        /\ FlattenSeq(ss) \in Seq(T) /\ FlattenSeq(uu) \in Seq(T)
    BY <2>1, <2>2, FlattenAppend
  <2>4. (FlattenSeq(ss) \o FlattenSeq(uu)) \o e = FlattenSeq(ss) \o (FlattenSeq(uu) \o e)
    BY <2>1, <2>3, ConcatAssociative
  <2> QED
    BY <2>1, <2>2, <2>3, <2>4 DEF uu, e
<1>3. tt \in P
  <2> HIDE DEF P
  <2> QED
    BY <1>1, <1>2, AllPrefixes
<1> QED
    BY <1>3

\* What is in a flattened list is in one of its lists.
LEMMA FlattenMembers ==
    ASSUME NEW T, NEW ss \in Seq(Seq(T))
    PROVE  Range(FlattenSeq(ss)) = UNION {Range(ss[i]) : i \in DOMAIN ss}
<1> DEFINE Of(uu) == UNION {Range(uu[i]) : i \in DOMAIN uu}
           P == {uu \in Seq(Seq(T)) : Range(FlattenSeq(uu)) = Of(uu)}
<1>1. <<>> \in P
    BY FlattenEmpty DEF Range
<1>2. ASSUME NEW n \in Nat, n + 1 <= Len(ss), SubSeq(ss, 1, n) \in P
      PROVE  Append(SubSeq(ss, 1, n), ss[n + 1]) \in P
  <2> DEFINE uu == SubSeq(ss, 1, n)
             e == ss[n + 1]
  <2>1. uu \in Seq(Seq(T)) /\ e \in Seq(T) /\ Range(FlattenSeq(uu)) = Of(uu)
    BY <1>2, PrefixGrows
  <2> HIDE DEF uu, e
  <2>2. Range(FlattenSeq(Append(uu, e))) = Range(FlattenSeq(uu)) \cup Range(e)
    <3>1. FlattenSeq(uu) \in Seq(T) /\ FlattenSeq(Append(uu, e)) = FlattenSeq(uu) \o e
      BY <2>1, FlattenAppend
    <3> QED
      BY <2>1, <3>1, RangeConcatenation
  <2>3. Of(Append(uu, e)) = Of(uu) \cup Range(e)
    <3>1. /\ DOMAIN Append(uu, e) = DOMAIN uu \cup {Len(uu) + 1} /\ Append(uu, e)[Len(uu) + 1] = e
          /\ \A i \in DOMAIN uu : Append(uu, e)[i] = uu[i]
      BY <2>1
    <3> QED
      BY <3>1
  <2>4. Append(uu, e) \in Seq(Seq(T))
    BY <2>1
  <2> QED
    BY <2>1, <2>2, <2>3, <2>4 DEF uu, e
<1>3. ss \in P
  <2> HIDE DEF P
  <2> QED
    BY <1>1, <1>2, AllPrefixes
<1> QED
    BY <1>3

-----------------------------------------------------------------------------
(* Lists without some of their elements.                                   *)

Picked(s, D) == [k \in DOMAIN s |-> IF k \in D THEN <<>> ELSE <<s[k]>>]

LEMMA WithoutFlattens ==
    ASSUME NEW S, NEW s \in Seq(S), NEW D
    PROVE  /\ Without(s, D) = FlattenSeq(Picked(s, D))
           /\ Picked(s, D) \in Seq(Seq(S)) /\ Len(Picked(s, D)) = Len(s)
           /\ Without(s, D) \in Seq(S)
<1>1. Without(s, D) = FlattenSeq(Picked(s, D))
    BY DEF Without, Picked
<1>2. \A k \in 1 .. Len(s) : (IF k \in D THEN <<>> ELSE <<s[k]>>) \in Seq(S)
    OBVIOUS
<1>3. DOMAIN s = 1 .. Len(s) /\ Len(s) \in Nat
    OBVIOUS
<1>4. Picked(s, D) \in [1 .. Len(s) -> Seq(S)]
    BY <1>2, <1>3 DEF Picked
<1>5. Picked(s, D) \in Seq(Seq(S)) /\ Len(Picked(s, D)) = Len(s)
    BY <1>3, <1>4
<1>6. FlattenSeq(Picked(s, D)) \in Seq(S)
  <2>1. <<>> \in Seq(S)
    OBVIOUS
  <2> QED
    BY <1>5, <2>1, FlattenAppend
<1> QED
    BY <1>1, <1>5, <1>6

\* Two ways to say what goes.
LEMMA WithoutSame ==
    ASSUME NEW s, NEW D, NEW E, \A k \in DOMAIN s : k \in D <=> k \in E
    PROVE  Without(s, D) = Without(s, E)
<1>1. Picked(s, D) = Picked(s, E)
    BY DEF Picked
<1> QED
    BY <1>1 DEF Without, Picked

LEMMA WithoutMembers ==
    ASSUME NEW S, NEW s \in Seq(S), NEW D
    PROVE  Range(Without(s, D)) = {s[k] : k \in DOMAIN s \ D}
<1>1. Range(Without(s, D)) = UNION {Range(Picked(s, D)[k]) : k \in DOMAIN Picked(s, D)}
    BY WithoutFlattens, FlattenMembers
<1>2. DOMAIN Picked(s, D) = DOMAIN s
    BY DEF Picked
<1>3. \A k \in DOMAIN s : Range(Picked(s, D)[k]) = IF k \in D THEN {} ELSE {s[k]}
    BY DEF Picked, Range
<1> QED
    BY <1>1, <1>2, <1>3

\* Everything goes.
LEMMA WithoutAll ==
    ASSUME NEW S, NEW s \in Seq(S), NEW D, DOMAIN s \subseteq D
    PROVE  Without(s, D) = <<>>
<1>1. Range(Without(s, D)) = {}
    BY WithoutMembers
<1>2. Without(s, D) \in Seq(S)
    BY WithoutFlattens
<1>3. ASSUME NEW t \in Seq(S), t # <<>> PROVE t[1] \in Range(t)
  <2>1. Len(t) \in Nat \ {0}
    BY <1>3, EmptySeq
  <2> QED
    BY <2>1, RangeEquality
<1> QED
    BY <1>1, <1>2, <1>3

LEMMA WithoutConcat ==
    ASSUME NEW S, NEW s \in Seq(S), NEW t \in Seq(S), NEW D
    PROVE  Without(s \o t, D) = Without(s, D) \o Without(t, {k \in DOMAIN t : k + Len(s) \in D})
<1> DEFINE E == {k \in DOMAIN t : k + Len(s) \in D}
           u == s \o t
           pp == Picked(s, D)
           qq == Picked(t, E)
<1>1. /\ pp \in Seq(Seq(S)) /\ Len(pp) = Len(s)
      /\ qq \in Seq(Seq(S)) /\ Len(qq) = Len(t)
    BY WithoutFlattens
<1>2. u \in Seq(S) /\ Len(u) = Len(s) + Len(t) /\ DOMAIN u = 1 .. Len(s) + Len(t)
    BY ConcatProperties
<1>u. /\ \A k \in 1 .. Len(s) : u[k] = s[k]
      /\ \A k \in 1 .. Len(t) : u[k + Len(s)] = t[k]
    BY ConcatProperties
<1>n. Len(s) \in Nat /\ Len(t) \in Nat /\ DOMAIN s = 1 .. Len(s) /\ DOMAIN t = 1 .. Len(t)
    OBVIOUS
<1> HIDE DEF u, pp, qq
<1>3. Picked(u, D) \in Seq(Seq(S)) /\ Len(Picked(u, D)) = Len(s) + Len(t)
    BY <1>2, WithoutFlattens
<1>4. pp \o qq \in Seq(Seq(S)) /\ Len(pp \o qq) = Len(s) + Len(t)
  <2>1. pp \o qq \in Seq(Seq(S)) /\ Len(pp \o qq) = Len(pp) + Len(qq)
    BY <1>1, ConcatProperties
  <2> QED
    BY <1>1, <2>1
<1>5. ASSUME NEW k \in 1 .. Len(s) + Len(t)
      PROVE  Picked(u, D)[k] = (pp \o qq)[k]
  <2>1. CASE k <= Len(s)
    <3>0. k \in 1 .. Len(s)
      BY <2>1, <1>n
    <3>1. k \in DOMAIN s /\ u[k] = s[k] /\ (pp \o qq)[k] = pp[k]
      BY <3>0, <2>1, <1>1, <1>u, <1>n, ConcatProperties
    <3>2. Picked(u, D)[k] = pp[k]
      BY <3>1, <3>0, <1>2, <1>n DEF Picked, pp
    <3> QED
      BY <3>1, <3>2
  <2>2. CASE k > Len(s)
    <3> DEFINE j == k - Len(s)
    <3>0. j \in 1 .. Len(t) /\ j + Len(s) = k
      BY <2>2, <1>n
    <3>c. (pp \o qq)[k] = qq[j]
      BY <2>2, <1>1, <1>n, ConcatProperties
    <3> HIDE DEF j
    <3>1. j \in DOMAIN t /\ j + Len(s) = k /\ u[k] = t[j] /\ (pp \o qq)[k] = qq[j]
      BY <3>0, <3>c, <1>u, <1>n
    <3>2. j \in E <=> k \in D
      BY <3>1
    <3> HIDE DEF E
    <3>3. Picked(u, D)[k] = Picked(t, E)[j]
      BY <3>1, <3>2, <1>2 DEF Picked
    <3> QED
      BY <3>1, <3>3 DEF qq
  <2>3. k <= Len(s) \/ k > Len(s)
    BY <1>n
  <2> QED
    BY <2>1, <2>2, <2>3
<1>6. Picked(u, D) = pp \o qq
  <2>1. \A k \in 1 .. Len(Picked(u, D)) : Picked(u, D)[k] = (pp \o qq)[k]
    BY <1>3, <1>5
  <2> QED
    BY <1>3, <1>4, <2>1, SeqEqual
<1>7. Without(u, D) = FlattenSeq(pp \o qq)
    BY <1>2, <1>6, WithoutFlattens
<1>8. FlattenSeq(pp \o qq) = FlattenSeq(pp) \o FlattenSeq(qq)
    BY <1>1, FlattenConcat
<1>9. Without(s, D) = FlattenSeq(pp) /\ Without(t, E) = FlattenSeq(qq)
    BY WithoutFlattens DEF pp, qq
<1> QED
    BY <1>7, <1>8, <1>9 DEF u

\* s without the elements of X.
Sans(s, X) == Without(s, {k \in DOMAIN s : s[k] \in X})

LEMMA SansConcat ==
    ASSUME NEW S, NEW s \in Seq(S), NEW t \in Seq(S), NEW X
    PROVE  Sans(s \o t, X) = Sans(s, X) \o Sans(t, X)
<1> DEFINE D == {k \in DOMAIN (s \o t) : (s \o t)[k] \in X}
           E == {k \in DOMAIN t : k + Len(s) \in D}
<1>1. Sans(s \o t, X) = Without(s, D) \o Without(t, E)
  <2>1. Sans(s \o t, X) = Without(s \o t, D)
    BY DEF Sans
  <2> HIDE DEF D
  <2>2. Without(s \o t, D) = Without(s, D) \o Without(t, {k \in DOMAIN t : k + Len(s) \in D})
    BY WithoutConcat
  <2> QED
    BY <2>1, <2>2
<1>2. DOMAIN (s \o t) = 1 .. Len(s) + Len(t) /\ DOMAIN s = 1 .. Len(s) /\ DOMAIN t = 1 .. Len(t)
      /\ Len(s) \in Nat /\ Len(t) \in Nat
    BY ConcatProperties
<1>3. \A k \in DOMAIN s : k \in D <=> k \in {i \in DOMAIN s : s[i] \in X}
  <2>1. \A k \in DOMAIN s : k \in DOMAIN (s \o t) /\ (s \o t)[k] = s[k]
    BY <1>2, ConcatProperties
  <2> QED
    BY <2>1
<1>4. \A k \in DOMAIN t : k \in E <=> k \in {i \in DOMAIN t : t[i] \in X}
  <2>1. \A k \in DOMAIN t : k + Len(s) \in DOMAIN (s \o t) /\ (s \o t)[k + Len(s)] = t[k]
    BY <1>2, ConcatProperties
  <2> QED
    BY <2>1
<1> HIDE DEF D, E
<1>5. Without(s, D) = Sans(s, X) /\ Without(t, E) = Sans(t, X)
    BY <1>3, <1>4, WithoutSame DEF Sans
<1> QED
    BY <1>1, <1>5

-----------------------------------------------------------------------------
(* The text of a chunk.                                                    *)

LEMMA SizesAreNaturals ==
    Target \in Nat /\ Overlap \in Nat /\ Overlap > 0 /\ Least \in Nat /\ Most \in Nat
BY SizesAssumption

LEMMA BreaksAreText == <<"newline">> \in Seq(Symbols) /\ <<"newline", "newline">> \in Seq(Symbols)
BY SymbolsAssumption

\* A unit is a piece of the text.
LEMMA CharactersTyped ==
    ASSUME text \in Seq(Symbols), NEW u \in Spans
    PROVE  /\ u[1] \in 1 .. Len(text) + 1 /\ u[2] \in 0 .. Len(text) /\ u[1] <= u[2] + 1
           /\ Size(u) \in Nat /\ Characters(u) \in Seq(Symbols) /\ Len(Characters(u)) = Size(u)
           /\ \A k \in u[1] .. u[2] : text[k] \in Range(Characters(u))
<1>1. u[1] \in 1 .. Len(text) + 1 /\ u[2] \in 0 .. Len(text) /\ u[1] <= u[2] + 1
    BY DEF Spans
<1>2. Len(text) \in Nat
    OBVIOUS
<1>3. Size(u) \in Nat
    BY <1>1, <1>2 DEF Size
<1>4. /\ SubSeq(text, u[1], u[2]) \in Seq(Symbols)
      /\ Len(SubSeq(text, u[1], u[2])) = (IF u[1] <= u[2] THEN u[2] - u[1] + 1 ELSE 0)
      /\ \A i \in 1 .. u[2] - u[1] + 1 : SubSeq(text, u[1], u[2])[i] = text[u[1] + i - 1]
    BY <1>1, <1>2, SubSeqProperties
<1>5. Characters(u) \in Seq(Symbols) /\ Len(Characters(u)) = Size(u)
    BY <1>1, <1>2, <1>4 DEF Characters, Size
<1>6. ASSUME NEW k \in u[1] .. u[2] PROVE text[k] \in Range(Characters(u))
  <2> DEFINE i == k - u[1] + 1
  <2>1. i \in 1 .. u[2] - u[1] + 1 /\ u[1] + i - 1 = k
    <3> DEFINE a == u[1]
               b == u[2]
    <3>1. a \in Nat /\ b \in Nat /\ k \in a .. b
      BY <1>1, <1>2
    <3> HIDE DEF a, b
    <3>2. k - a + 1 \in 1 .. b - a + 1 /\ a + (k - a + 1) - 1 = k
      BY <3>1
    <3> QED
      BY <3>2 DEF a, b
  <2>2. i \in DOMAIN Characters(u)
    BY <1>1, <1>2, <1>5, <2>1 DEF Size
  <2>3. Characters(u)[i] = text[k]
    BY <1>4, <2>1 DEF Characters
  <2> QED
    BY <2>2, <2>3 DEF Range
<1> QED
    BY <1>1, <1>3, <1>5, <1>6

\* What a list of units is joined from.
Joined(s, sep) ==
    [i \in DOMAIN s |-> IF i = 1 THEN Characters(s[i]) ELSE sep \o Characters(s[i])]

LEMMA JoinFlattens ==
    ASSUME text \in Seq(Symbols), NEW s \in Seq(Spans), NEW sep \in Seq(Symbols)
    PROVE  /\ Join(s, sep) = FlattenSeq(Joined(s, sep))
           /\ Joined(s, sep) \in Seq(Seq(Symbols)) /\ Len(Joined(s, sep)) = Len(s)
           /\ Join(s, sep) \in Seq(Symbols)
<1>1. Join(s, sep) = FlattenSeq(Joined(s, sep))
    BY DEF Join, Joined
<1>2. DOMAIN s = 1 .. Len(s) /\ Len(s) \in Nat
    OBVIOUS
<1>3. ASSUME NEW i \in DOMAIN s
      PROVE  (IF i = 1 THEN Characters(s[i]) ELSE sep \o Characters(s[i])) \in Seq(Symbols)
  <2>0. s[i] \in Spans
    BY ElementOfSeq
  <2>1. Characters(s[i]) \in Seq(Symbols)
    BY <2>0, CharactersTyped
  <2> QED
    BY <2>1
<1>4. Joined(s, sep) \in [1 .. Len(s) -> Seq(Symbols)]
    BY <1>2, <1>3 DEF Joined
<1>5. Joined(s, sep) \in Seq(Seq(Symbols)) /\ Len(Joined(s, sep)) = Len(s)
    BY <1>2, <1>4
<1>6. FlattenSeq(Joined(s, sep)) \in Seq(Symbols)
  <2>1. <<>> \in Seq(Symbols)
    OBVIOUS
  <2> QED
    BY <1>5, <2>1, FlattenAppend
<1> QED
    BY <1>1, <1>5, <1>6

LEMMA JoinNothing ==
    ASSUME NEW sep
    PROVE  Join(<<>>, sep) = <<>>
<1>1. [i \in DOMAIN <<>> |->
        IF i = 1 THEN Characters(<<>>[i]) ELSE sep \o Characters(<<>>[i])] = <<>>
    OBVIOUS
<1> QED
    BY <1>1, FlattenEmpty DEF Join

\* A unit more is a separator and its characters more.
LEMMA JoinAppend ==
    ASSUME text \in Seq(Symbols), NEW s \in Seq(Spans), NEW u \in Spans, NEW sep \in Seq(Symbols)
    PROVE  Join(Append(s, u), sep) =
                Join(s, sep) \o (IF s = <<>> THEN Characters(u) ELSE sep \o Characters(u))
<1> DEFINE t == Append(s, u)
           e == IF s = <<>> THEN Characters(u) ELSE sep \o Characters(u)
           S == Spans
<1>0. s \in Seq(S) /\ u \in S
    OBVIOUS
<1> HIDE DEF S
<1>1. /\ t \in Seq(S) /\ Len(t) = Len(s) + 1 /\ t[Len(s) + 1] = u
      /\ \A i \in 1 .. Len(s) : t[i] = s[i]
      /\ DOMAIN t = 1 .. Len(s) + 1 /\ DOMAIN s = 1 .. Len(s) /\ Len(s) \in Nat
    BY <1>0
<1>2. e \in Seq(Symbols)
  <2>1. Characters(u) \in Seq(Symbols)
    BY CharactersTyped
  <2> QED
    BY <2>1
<1>3. s = <<>> <=> Len(s) + 1 = 1
    BY <1>0
<1> HIDE DEF t
<1>4. /\ Joined(s, sep) \in Seq(Seq(Symbols)) /\ Len(Joined(s, sep)) = Len(s)
      /\ Joined(t, sep) \in Seq(Seq(Symbols)) /\ Len(Joined(t, sep)) = Len(s) + 1
    BY <1>1, JoinFlattens DEF S
<1>5. Joined(t, sep)[Len(s) + 1] = e
    BY <1>1, <1>3 DEF Joined
<1>6. \A i \in 1 .. Len(s) : Joined(t, sep)[i] = Joined(s, sep)[i]
    BY <1>1 DEF Joined
<1> HIDE DEF e
<1>7. Joined(t, sep) = Append(Joined(s, sep), e)
  <2> DEFINE v == Append(Joined(s, sep), e)
  <2>1. v \in Seq(Seq(Symbols)) /\ Len(v) = Len(s) + 1 /\ v[Len(s) + 1] = e
        /\ \A i \in 1 .. Len(s) : v[i] = Joined(s, sep)[i]
    BY <1>2, <1>4, AppendProperties
  <2> HIDE DEF v
  <2>2. ASSUME NEW i \in 1 .. Len(s) + 1 PROVE v[i] = Joined(t, sep)[i]
    <3>1. CASE i \in 1 .. Len(s)
      BY <1>6, <2>1, <3>1
    <3>2. CASE i = Len(s) + 1
      BY <1>5, <2>1, <3>2
    <3> QED
      BY <1>1, <3>1, <3>2
  <2> QED
    BY <1>4, <2>1, <2>2, SeqEqual DEF v
<1>8. FlattenSeq(Append(Joined(s, sep), e)) = FlattenSeq(Joined(s, sep)) \o e
    BY <1>2, <1>4, FlattenAppend
<1>9. Join(t, sep) = FlattenSeq(Joined(t, sep)) /\ Join(s, sep) = FlattenSeq(Joined(s, sep))
    BY <1>1, JoinFlattens DEF S
<1> QED
    BY <1>7, <1>8, <1>9 DEF e, t

\* How long a join gets.
LEMMA JoinLength ==
    ASSUME text \in Seq(Symbols), NEW s \in Seq(Spans), NEW u \in Spans, NEW sep \in Seq(Symbols)
    PROVE  /\ Len(Join(s, sep)) \in Nat
           /\ Len(Join(Append(s, u), sep)) =
                Len(Join(s, sep)) + (IF s = <<>> THEN Size(u) ELSE Len(sep) + Size(u))
<1> DEFINE j == Join(s, sep)
           c == Characters(u)
<1>1. j \in Seq(Symbols) /\ c \in Seq(Symbols) /\ Len(c) = Size(u)
    BY JoinFlattens, CharactersTyped
<1>2. Join(Append(s, u), sep) = j \o (IF s = <<>> THEN c ELSE sep \o c)
    BY JoinAppend
<1> HIDE DEF j, c
<1>3. /\ Len(j) \in Nat /\ Len(j \o c) = Len(j) + Len(c)
      /\ sep \o c \in Seq(Symbols) /\ Len(sep \o c) = Len(sep) + Len(c)
  <2>0. Len(j) \in Nat
    BY <1>1
  <2>1. Len(j \o c) = Len(j) + Len(c)
    BY <1>1, ConcatProperties
  <2>2. sep \o c \in Seq(Symbols) /\ Len(sep \o c) = Len(sep) + Len(c)
    BY <1>1, ConcatProperties
  <2> QED
    BY <2>0, <2>1, <2>2
<1>4. Len(j \o (sep \o c)) = Len(j) + Len(sep \o c)
  <2> DEFINE d == sep \o c
  <2>1. d \in Seq(Symbols)
    BY <1>3
  <2> HIDE DEF d
  <2>2. Len(j \o d) = Len(j) + Len(d)
    BY <1>1, <2>1, ConcatProperties
  <2> QED
    BY <2>2 DEF d
<1>5. CASE s = <<>>
    BY <1>1, <1>2, <1>3, <1>5 DEF j
<1>6. CASE s # <<>>
    BY <1>1, <1>2, <1>3, <1>4, <1>6 DEF j
<1> QED
    BY <1>5, <1>6

\* The characters of every unit are in the join.
LEMMA JoinMembers ==
    ASSUME text \in Seq(Symbols), NEW s \in Seq(Spans), NEW sep \in Seq(Symbols), NEW i \in DOMAIN s
    PROVE  Range(Characters(s[i])) \subseteq Range(Join(s, sep))
<1>1. Range(Join(s, sep)) = UNION {Range(Joined(s, sep)[j]) : j \in DOMAIN Joined(s, sep)}
    BY JoinFlattens, FlattenMembers
<1>2. i \in DOMAIN Joined(s, sep)
    BY DEF Joined
<1>3. Range(Characters(s[i])) \subseteq Range(Joined(s, sep)[i])
  <2>0. s[i] \in Spans
    BY ElementOfSeq
  <2>1. Characters(s[i]) \in Seq(Symbols)
    BY <2>0, CharactersTyped
  <2>2. Range(sep \o Characters(s[i])) = Range(sep) \cup Range(Characters(s[i]))
    BY <2>1, RangeConcatenation
  <2> QED
    BY <2>2 DEF Joined
<1> QED
    BY <1>1, <1>2, <1>3

ChunkRecord == [units : Seq(Spans), overlap : Seq(Symbols)]

LEMMA ChunkIsRecord ==
    ASSUME NEW units \in Seq(Spans), NEW overlap \in Seq(Symbols)
    PROVE  /\ Chunk(units, overlap) \in ChunkRecord
           /\ Chunk(units, overlap).units = units /\ Chunk(units, overlap).overlap = overlap
BY DEF Chunk, ChunkRecord

\* The characters of the units of a chunk are in its text.
LEMMA TextShows ==
    ASSUME text \in Seq(Symbols), NEW c \in ChunkRecord, NEW n \in DOMAIN c.units,
           kind \notin {"prose", "code"} => c.units = <<c.units[1]>>
    PROVE  Range(Characters(c.units[n])) \subseteq Range(TextOf(c))
<1> DEFINE s == c.units
           rest == IF c.overlap = <<>> THEN <<>> ELSE <<"newline">> \o c.overlap
<1>1. s \in Seq(Spans) /\ c.overlap \in Seq(Symbols)
    BY DEF ChunkRecord
<1>2. rest \in Seq(Symbols)
    BY <1>1, BreaksAreText
<1>3. TextOf(c) = CASE kind = "prose" -> Paragraphs(s) \o rest
                    [] kind = "code" -> Lines(s)
                    [] OTHER -> Characters(s[1])
    BY DEF TextOf
<1>4. n \in DOMAIN s
    OBVIOUS
<1> HIDE DEF rest, s
<1>5. Range(Characters(s[n])) \subseteq Range(Paragraphs(s)) /\ Range(Characters(s[n])) \subseteq Range(Lines(s))
      /\ Paragraphs(s) \in Seq(Symbols)
    BY <1>1, <1>4, BreaksAreText, JoinMembers, JoinFlattens DEF Paragraphs, Lines
<1>6. Range(Paragraphs(s) \o rest) = Range(Paragraphs(s)) \cup Range(rest)
    BY <1>2, <1>5, RangeConcatenation
<1>7. CASE kind = "prose"
    BY <1>3, <1>5, <1>6, <1>7 DEF s
<1>8. CASE kind = "code"
    BY <1>3, <1>5, <1>8 DEF s
<1>9. CASE kind \notin {"prose", "code"}
  <2>1. n = 1
    <3>1. s = <<s[1]>>
      BY <1>9 DEF s
    <3> QED
      BY <1>4, <3>1
  <2>2. TextOf(c) = Characters(s[1])
    BY <1>3, <1>9
  <2> QED
    BY <2>1, <2>2 DEF s
<1> QED
    BY <1>7, <1>8, <1>9

-----------------------------------------------------------------------------
(* What the chunks so far and the current one hold.                        *)

Before(s, t) == \A m \in DOMAIN s, n \in DOMAIN t : s[m][2] < t[n][1]
Below(s, p) == \A m \in DOMAIN s : s[m][2] < p
InChunks(k, cs) == \E i \in DOMAIN cs : InUnits(k, cs[i].units)

\* Units follow one another, all before the position p.
Placed(cs, cur, p) ==
    /\ \A i \in DOMAIN cs :
            Ordered(cs[i].units) /\ Below(cs[i].units, p) /\ Before(cs[i].units, cur)
    /\ \A i, j \in DOMAIN cs : i < j => Before(cs[i].units, cs[j].units)
    /\ Ordered(cur) /\ Below(cur, p)

\* What is needed before the position p is in them.
Covers(cs, cur, p) ==
    \A k \in Positions : (k < p /\ Needed(k)) => InUnits(k, cur) \/ InChunks(k, cs)

Good(cs, cur, p) ==
    /\ cs \in Seq(ChunkRecord) /\ cur \in Seq(Spans)
    /\ Placed(cs, cur, p) /\ Covers(cs, cur, p)

LEMMA SeqDomain ==
    ASSUME NEW S, NEW s \in Seq(S)
    PROVE  /\ Len(s) \in Nat /\ DOMAIN s = 1 .. Len(s)
           /\ \A i \in DOMAIN s : s[i] \in S
OBVIOUS

LEMMA AppendedIs ==
    ASSUME NEW S, NEW s \in Seq(S), NEW e \in S
    PROVE  /\ Append(s, e) \in Seq(S) /\ Len(Append(s, e)) = Len(s) + 1
           /\ DOMAIN Append(s, e) = DOMAIN s \cup {Len(s) + 1}
           /\ Append(s, e)[Len(s) + 1] = e
           /\ \A i \in DOMAIN s : Append(s, e)[i] = s[i] /\ i < Len(s) + 1 /\ i \in Nat
OBVIOUS

\* A unit more, further on.
LEMMA NextUnitGood ==
    ASSUME text \in Seq(Symbols), NEW cs, NEW cur, NEW p \in Nat, NEW q \in Nat, NEW u \in Spans,
           Good(cs, cur, p), p <= u[1], u[2] < q, p <= q,
           \A k \in Positions : (p <= k /\ k < q /\ Needed(k)) => Within(k, u)
    PROVE  Good(cs, Append(cur, u), q)
<1> DEFINE t == Append(cur, u)
           n == Len(cur) + 1
<1>1. /\ cs \in Seq(ChunkRecord) /\ cur \in Seq(Spans) /\ Placed(cs, cur, p) /\ Covers(cs, cur, p)
    BY DEF Good
<1>2. /\ t \in Seq(Spans) /\ DOMAIN t = DOMAIN cur \cup {n} /\ t[n] = u
      /\ \A i \in DOMAIN cur : t[i] = cur[i] /\ i < n /\ i \in Nat
  <2> DEFINE S == Spans
  <2>1. cur \in Seq(S) /\ u \in S
    BY <1>1
  <2> HIDE DEF S
  <2> QED
    BY <2>1, AppendedIs DEF S
<1>3. u[1] \in Nat /\ u[2] \in Nat
    BY CharactersTyped
<1>4. ASSUME NEW s \in Seq(Spans) PROVE \A m \in DOMAIN s : s[m][1] \in Nat /\ s[m][2] \in Nat
  <2>1. \A m \in DOMAIN s : s[m] \in Spans
    BY <1>4, SeqDomain
  <2> QED
    BY <2>1, CharactersTyped
<1>5. \A i \in DOMAIN cs : cs[i].units \in Seq(Spans)
  <2>1. \A i \in DOMAIN cs : cs[i] \in ChunkRecord
    BY <1>1, SeqDomain
  <2> QED
    BY <2>1 DEF ChunkRecord
<1> HIDE DEF t, n
<1>6. ASSUME NEW s \in Seq(Spans), Below(s, p)
      PROVE  Below(s, q) /\ (Before(s, cur) => Before(s, t))
  <2>1. \A m \in DOMAIN s : s[m][2] \in Nat /\ s[m][2] < p
    BY <1>4, <1>6 DEF Below
  <2>2. \A m \in DOMAIN s : s[m][2] < q /\ s[m][2] < u[1]
    BY <1>3, <2>1
  <2> QED
    BY <1>2, <2>2 DEF Below, Before
<1>7. Below(t, q) /\ Ordered(t)
  <2>1. Below(cur, q) /\ \A m \in DOMAIN cur : cur[m][2] < u[1]
    <3>1. \A m \in DOMAIN cur : cur[m][2] \in Nat /\ cur[m][2] < p
      BY <1>1, <1>4 DEF Placed, Below
    <3> QED
      BY <1>3, <3>1 DEF Below
  <2>2. Below(t, q)
    BY <1>2, <2>1 DEF Below
  <2>3. ASSUME NEW i \in DOMAIN t, NEW j \in DOMAIN t, i < j
        PROVE  t[i][2] < t[j][1]
    <3>1. CASE j \in DOMAIN cur
      <4>1. i \in DOMAIN cur
        BY <1>1, <1>2, <2>3, <3>1, SeqDomain DEF n
      <4> QED
        BY <1>1, <1>2, <2>3, <3>1, <4>1 DEF Placed, Ordered
    <3>2. CASE j = n
      <4>1. i \in DOMAIN cur
        BY <1>1, <1>2, <2>3, <3>2, SeqDomain DEF n
      <4> QED
        BY <1>2, <2>1, <3>2, <4>1
    <3> QED
      BY <1>2, <3>1, <3>2
  <2> QED
    BY <2>2, <2>3 DEF Ordered
<1>8. Placed(cs, t, q)
  <2>1. \A i \in DOMAIN cs : Below(cs[i].units, q) /\ Before(cs[i].units, t)
    BY <1>1, <1>5, <1>6 DEF Placed
  <2> QED
    BY <1>1, <1>7, <2>1 DEF Placed
<1>9. Covers(cs, t, q)
  <2> SUFFICES ASSUME NEW k \in Positions, k < q, Needed(k)
               PROVE  InUnits(k, t) \/ InChunks(k, cs)
    BY DEF Covers
  <2>0. k \in Nat
    BY SeqDomain DEF Positions
  <2>1. CASE k < p
    <3>1. InUnits(k, cur) \/ InChunks(k, cs)
      BY <1>1, <2>1 DEF Covers
    <3> QED
      BY <1>2, <3>1 DEF InUnits
  <2>2. CASE p <= k
    <3>1. Within(k, u)
      BY <2>2
    <3> QED
      BY <1>2, <3>1 DEF InUnits
  <2> QED
    BY <2>0, <2>1, <2>2
<1> QED
    BY <1>1, <1>2, <1>8, <1>9 DEF Good, t

\* What is needed of a chunk shows in its text.
LEMMA BlankHoldsNothing ==
    ASSUME text \in Seq(Symbols), NEW c \in ChunkRecord, Range(TextOf(c)) \subseteq White,
           kind \notin {"prose", "code"} => c.units = <<c.units[1]>>,
           NEW k \in Positions, InUnits(k, c.units)
    PROVE  ~Needed(k)
<1>1. c.units \in Seq(Spans)
    BY DEF ChunkRecord
<1>2. PICK n \in DOMAIN c.units : Within(k, c.units[n])
    BY DEF InUnits
<1> DEFINE u == c.units[n]
<1>3. u \in Spans
    BY <1>1, SeqDomain
<1>4. k \in u[1] .. u[2]
  <2>1. u[1] \in Nat /\ u[2] \in Nat /\ k \in Nat
    BY <1>3, CharactersTyped, SeqDomain DEF Positions
  <2> QED
    BY <1>2, <2>1 DEF Within
<1>5. text[k] \in Range(Characters(u))
  <2> HIDE DEF u
  <2> QED
    BY <1>3, <1>4, CharactersTyped
<1>6. text[k] \in White
    BY <1>5, TextShows
<1> QED
    BY <1>6 DEF Needed, White

\* The current chunk is kept, or is blank and goes.
LEMMA FlushGood ==
    ASSUME text \in Seq(Symbols), NEW cs, NEW cur, NEW p, NEW overlap \in Seq(Symbols),
           Good(cs, cur, p), kind \notin {"prose", "code"} => cur = <<cur[1]>>
    PROVE  Good(cs \o Kept(Chunk(cur, overlap)), <<>>, p)
<1> DEFINE c == Chunk(cur, overlap)
           n == Len(cs) + 1
<1>1. /\ cs \in Seq(ChunkRecord) /\ cur \in Seq(Spans) /\ Placed(cs, cur, p) /\ Covers(cs, cur, p)
    BY DEF Good
<1>2. c \in ChunkRecord /\ c.units = cur
    BY <1>1, ChunkIsRecord
<1> HIDE DEF c
<1>3. <<>> \in Seq(Spans) /\ Ordered(<<>>) /\ Below(<<>>, p) /\ \A s : Before(s, <<>>)
    BY DEF Ordered, Below, Before
<1>4. CASE Range(TextOf(c)) \subseteq White
  <2>1. cs \o Kept(c) = cs
    BY <1>1, <1>4 DEF Kept
  <2>2. Placed(cs, <<>>, p)
    BY <1>1, <1>3 DEF Placed
  <2>3. Covers(cs, <<>>, p)
    BY <1>1, <1>2, <1>4, BlankHoldsNothing DEF Covers
  <2> QED
    BY <1>1, <1>3, <2>1, <2>2, <2>3 DEF Good, c
<1>5. CASE ~(Range(TextOf(c)) \subseteq White)
  <2> DEFINE ds == Append(cs, c)
  <2>1. cs \o Kept(c) = ds
    BY <1>1, <1>2, <1>5, AppendIsConcat DEF Kept
  <2>2. /\ ds \in Seq(ChunkRecord) /\ DOMAIN ds = DOMAIN cs \cup {n} /\ ds[n] = c
        /\ \A i \in DOMAIN cs : ds[i] = cs[i] /\ i < n /\ i \in Nat
    BY <1>1, <1>2, AppendedIs
  <2>3. n \in Nat
    BY <1>1, SeqDomain
  <2> HIDE DEF ds, n
  <2>4. \A i \in DOMAIN ds : Ordered(ds[i].units) /\ Below(ds[i].units, p) /\ Before(ds[i].units, <<>>)
    BY <1>1, <1>2, <1>3, <2>2 DEF Placed
  <2>5. ASSUME NEW i \in DOMAIN ds, NEW j \in DOMAIN ds, i < j
        PROVE  Before(ds[i].units, ds[j].units)
    <3>1. CASE j \in DOMAIN cs
      <4>1. i \in DOMAIN cs
        BY <2>2, <2>3, <2>5, <3>1
      <4> QED
        BY <1>1, <2>2, <2>5, <3>1, <4>1 DEF Placed
    <3>2. CASE j = n
      <4>1. i \in DOMAIN cs
        BY <2>2, <2>3, <2>5, <3>2
      <4> QED
        BY <1>1, <1>2, <2>2, <3>2, <4>1 DEF Placed
    <3> QED
      BY <2>2, <3>1, <3>2
  <2>6. Placed(ds, <<>>, p)
    BY <1>3, <2>4, <2>5 DEF Placed
  <2>7. Covers(ds, <<>>, p)
    BY <1>1, <1>2, <2>2 DEF Covers, InChunks
  <2> QED
    BY <1>3, <2>1, <2>2, <2>6, <2>7 DEF Good, c
<1> QED
    BY <1>4, <1>5

-----------------------------------------------------------------------------
(* What each loop finds next.                                              *)

ChunkTyped ==
    /\ text \in Seq(Symbols) /\ kind \in {"none", "prose", "code", "schema"}
    /\ at \in 1 .. Len(text) + 2
    /\ current \in Seq(Spans) /\ size \in Nat
    /\ buffer \in Seq(Symbols) /\ Len(buffer) <= Overlap
    /\ chunks \in Seq(ChunkRecord)
    /\ chunked \in BOOLEAN
    /\ kind = "schema" => current = <<>>

\* u is further on, and nothing needed is skipped up to the position q.
IsNext(u, q) ==
    /\ u \in Spans /\ q \in 1 .. Len(text) + 2
    /\ at <= u[1] /\ u[2] < q /\ at <= q
    /\ \A k \in Positions : (at <= k /\ k < q /\ Needed(k)) => Within(k, u)

LEMMA ParagraphIsNext ==
    ASSUME text \in Seq(Symbols), at \in Nat \ {0}, kind = "prose", NEW u \in NextParagraph
    PROVE  IsNext(u, u[2] + 1)
<1>1. /\ u[1] \in at .. Len(text) /\ u[2] \in at .. Len(text) /\ u[1] <= u[2]
      /\ \A k \in at .. u[1] - 1 : text[k] \in White
      /\ u \in (at .. Len(text)) \X (at .. Len(text))
    BY DEF NextParagraph
<1>2. Len(text) \in Nat /\ Positions = 1 .. Len(text)
    BY SeqDomain DEF Positions
<1>3. u \in Spans
    BY <1>1, <1>2 DEF Spans
<1>4. ASSUME NEW k \in Positions, at <= k, k < u[2] + 1, Needed(k)
      PROVE  Within(k, u)
  <2>1. text[k] \notin White
    BY <1>4 DEF Needed
  <2>2. ~(k < u[1])
    <3>1. k \in Nat /\ u[1] \in Nat
      BY <1>1, <1>2
    <3> SUFFICES ASSUME k < u[1] PROVE FALSE
      OBVIOUS
    <3>2. k \in at .. u[1] - 1
      BY <1>4, <3>1
    <3> QED
      BY <1>1, <2>1, <3>2
  <2>3. k \in Nat /\ u[1] \in Nat /\ u[2] \in Nat
    BY <1>1, <1>2
  <2> QED
    BY <1>4, <2>2, <2>3 DEF Within
<1> QED
    BY <1>1, <1>2, <1>3, <1>4 DEF IsNext

LEMMA LineIsNext ==
    ASSUME text \in Seq(Symbols), at \in 1 .. Len(text) + 2, kind = "code", NEW u \in NextLine
    PROVE  IsNext(u, u[2] + 2)
<1>1. Len(text) \in Nat /\ Positions = 1 .. Len(text)
    BY SeqDomain DEF Positions
<1>2. /\ u[1] = at /\ u[2] \in at - 1 .. Len(text) /\ u = <<u[1], u[2]>>
      /\ (u[2] + 1 \in Positions => Newline(u[2] + 1))
    BY DEF NextLine
<1>3. u[2] \in 0 .. Len(text) /\ at <= Len(text) + 1
    BY <1>1, <1>2
<1>4. u \in Spans
    BY <1>1, <1>2, <1>3 DEF Spans
<1>5. ASSUME NEW k \in Positions, at <= k, k < u[2] + 2, Needed(k)
      PROVE  Within(k, u)
  <2>1. text[k] \notin White
    BY <1>5 DEF Needed
  <2>2. k # u[2] + 1
    BY <1>2, <2>1 DEF Newline, White
  <2> QED
    BY <1>1, <1>2, <1>3, <1>5, <2>2 DEF Within
<1>6. u[2] + 2 \in 1 .. Len(text) + 2 /\ at <= u[1] /\ u[2] < u[2] + 2 /\ at <= u[2] + 2
    BY <1>1, <1>2, <1>3
<1> QED
    BY <1>4, <1>5, <1>6 DEF IsNext

\* A CREATE TABLE that is closed is, by itself, a match.
LEMMA NeededMatches ==
    ASSUME text \in Seq(Symbols), at \in Nat \ {0}, kind = "schema",
           NEW k \in Positions, at <= k, Needed(k)
    PROVE  \E j \in Nat : <<k, j>> \in Matching
<1>1. Len(text) \in Nat /\ Positions = 1 .. Len(text)
    BY SeqDomain DEF Positions
<1> DEFINE J == {j \in Positions : k + 2 <= j /\ text[j] = "close"}
<1>2. text[k] = "create" /\ J # {} /\ J \in SUBSET Nat
    BY <1>1 DEF Needed
<1>3. PICK j \in J : \A m \in J : j <= m
  <2> HIDE DEF J
  <2> QED
    BY <1>2, LeastNatural
<1>4. /\ j \in Positions /\ k + 2 <= j /\ text[j] = "close"
      /\ \A m \in k + 2 .. j - 1 : text[m] # "close"
    BY <1>1, <1>3
<1>5. Match(k, j)
  <2>1. k \in k .. j - 2 /\ Comments(k, k)
    BY <1>1, <1>4 DEF Comments
  <2> QED
    BY <1>2, <1>4, <2>1 DEF Match
<1>6. <<k, j>> \in (at .. Len(text)) \X (at .. Len(text)) /\ j \in Nat
    BY <1>1, <1>4
<1> QED
    BY <1>5, <1>6 DEF Matching

LEMMA TableIsNext ==
    ASSUME text \in Seq(Symbols), at \in Nat \ {0}, kind = "schema", NEW u \in NextTable
    PROVE  IsNext(u, u[2] + 1)
<1>1. Len(text) \in Nat /\ Positions = 1 .. Len(text)
    BY SeqDomain DEF Positions
<1>2. /\ u \in (at .. Len(text)) \X (at .. Len(text)) /\ Match(u[1], u[2])
      /\ \A v \in Matching : u[1] <= v[1]
    BY DEF NextTable, Matching
<1>3. u[1] \in at .. Len(text) /\ u[2] \in at .. Len(text) /\ u[1] <= u[2]
  <2>1. u[1] \in at .. Len(text) /\ u[2] \in at .. Len(text)
    BY <1>2
  <2>2. PICK c \in u[1] .. u[2] - 2 : TRUE
    BY <1>2 DEF Match
  <2> QED
    BY <1>1, <2>1, <2>2
<1>4. u \in Spans
    BY <1>1, <1>2, <1>3 DEF Spans
<1>5. ASSUME NEW k \in Positions, at <= k, k < u[2] + 1, Needed(k)
      PROVE  Within(k, u)
  <2>1. PICK j \in Nat : <<k, j>> \in Matching
    BY <1>5, NeededMatches
  <2>2. u[1] <= k
    BY <1>2, <2>1
  <2> QED
    BY <1>1, <1>3, <1>5, <2>2 DEF Within
<1> QED
    BY <1>1, <1>3, <1>4, <1>5 DEF IsNext

\* A character that is not white begins a paragraph, if no other comes first.
LEMMA ParagraphExists ==
    ASSUME text \in Seq(Symbols), at \in Nat \ {0},
           NEW k \in Positions, at <= k, text[k] \notin White
    PROVE  NextParagraph # {}
<1>1. Len(text) \in Nat /\ Positions = 1 .. Len(text)
    BY SeqDomain DEF Positions
<1> DEFINE I == {i \in at .. Len(text) : text[i] \notin White}
<1>2. I # {} /\ I \in SUBSET Nat
    BY <1>1
<1>3. PICK i \in I : \A m \in I : i <= m
  <2> HIDE DEF I
  <2> QED
    BY <1>2, LeastNatural
<1>4. /\ i \in at .. Len(text) /\ text[i] \notin White
      /\ \A m \in at .. i - 1 : text[m] \in White
    BY <1>1, <1>3
<1> HIDE DEF I
<1> DEFINE J == {j \in i .. Len(text) : text[j] \notin White /\ ~Apart(i, j)}
           D == {Len(text) - j : j \in J}
<1>5. i \in J
    BY <1>1, <1>4 DEF Apart
<1>6. D # {} /\ D \in SUBSET Nat
    BY <1>1, <1>4, <1>5
<1>7. PICK d \in D : \A e \in D : d <= e
  <2> HIDE DEF D
  <2> QED
    BY <1>6, LeastNatural
<1>8. PICK j \in J : \A m \in J : m <= j
  <2>1. PICK j \in J : d = Len(text) - j
    OBVIOUS
  <2>2. ASSUME NEW m \in J PROVE m <= j
    <3>1. Len(text) - j <= Len(text) - m
      BY <1>7, <2>1
    <3> QED
      BY <1>1, <1>4, <3>1
  <2> QED
    BY <2>2
<1>9. j \in i .. Len(text) /\ text[j] \notin White /\ ~Apart(i, j)
    OBVIOUS
<1>10. ASSUME NEW m \in j + 1 .. Len(text), text[m] \notin White
       PROVE  Apart(j, m)
  <2>1. m \in i .. Len(text) /\ m \notin J
    BY <1>1, <1>4, <1>8, <1>9
  <2>2. PICK g \in i .. m - 1 : Newline(g) /\ Newline(g + 1)
    BY <1>10, <2>1 DEF Apart
  <2>3. g # j /\ g + 1 # j
    BY <1>9, <2>2 DEF Newline, White
  <2>4. ~(g + 1 < j)
    <3> SUFFICES ASSUME g + 1 < j PROVE FALSE
      OBVIOUS
    <3>1. g \in i .. j - 1
      BY <1>1, <1>4, <1>9, <2>2
    <3> QED
      BY <1>9, <2>2, <3>1 DEF Apart
  <2>5. g \in j .. m - 1
    BY <1>1, <1>4, <1>9, <2>2, <2>3, <2>4
  <2> QED
    BY <2>2, <2>5 DEF Apart
<1> DEFINE u == <<i, j>>
<1>11. u \in NextParagraph
  <2>1. u \in (at .. Len(text)) \X (at .. Len(text)) /\ u[1] = i /\ u[2] = j /\ i <= j
    BY <1>1, <1>4, <1>9
  <2>2. \A m \in j + 1 .. Len(text) : text[m] \in White \/ Apart(j, m)
    BY <1>10
  <2> HIDE DEF u
  <2> QED
    BY <1>4, <1>9, <2>1, <2>2 DEF NextParagraph
<1> QED
    BY <1>11

\* Nothing needed is left when chunk() returns.
LEMMA NothingNeededLeft ==
    ASSUME ChunkTyped, kind # "none", NothingLeft, NEW k \in Positions, Needed(k)
    PROVE  k < at
<1>1. /\ Len(text) \in Nat /\ Positions = 1 .. Len(text) /\ at \in Nat \ {0} /\ text \in Seq(Symbols)
      /\ kind \in {"prose", "code", "schema"}
    BY SeqDomain DEF Positions, ChunkTyped
<1> SUFFICES ASSUME at <= k PROVE FALSE
    BY <1>1
<1>2. CASE kind = "prose"
  <2>1. text[k] \notin White /\ NextParagraph = {}
    BY <1>2 DEF Needed, NothingLeft
  <2> QED
    BY <1>1, <2>1, ParagraphExists
<1>3. CASE kind = "code"
  <2>1. at > Len(text) + 1
    BY <1>3 DEF NothingLeft
  <2> QED
    BY <1>1, <2>1
<1>4. CASE kind = "schema"
  <2>1. Matching = {}
    BY <1>4 DEF NothingLeft
  <2> QED
    BY <1>1, <1>4, <2>1, NeededMatches
<1> QED
    BY <1>1, <1>2, <1>3, <1>4

-----------------------------------------------------------------------------
(* Chunker: types, and what is kept.                                       *)

Keeps ==
    /\ ~chunked => Good(chunks, current, at)
    /\ chunked => Good(chunks, <<>>, at) /\ \A k \in Positions : Needed(k) => k < at

LEMMA NothingGood ==
    ASSUME at = 1, text \in Seq(Symbols)
    PROVE  Good(<<>>, <<>>, at)
<1>0. DOMAIN <<>> = {} /\ <<>> \in Seq(ChunkRecord) /\ <<>> \in Seq(Spans)
  <2> HIDE DEF ChunkRecord
  <2> QED
    OBVIOUS
<1> DEFINE e == <<>>
<1>e. DOMAIN e = {}
    BY <1>0
<1> HIDE DEF e
<1>1. Placed(e, e, at)
    BY <1>e DEF Placed, Ordered, Below
<1>2. \A k \in Positions : ~(k < at)
    BY DEF Positions
<1> QED
    BY <1>0, <1>1, <1>2 DEF Good, Covers, e

LEMMA KeepsInit == ChunkInit => ChunkTyped /\ Keeps
<1> SUFFICES ASSUME ChunkInit PROVE ChunkTyped /\ Keeps
    OBVIOUS
<1>1. PICK r \in ResourceTexts :
        kind = r[1] /\ text = IF r[1] = "prose" THEN Without(r[2], Tags(r[2])) ELSE r[2]
    BY DEF ChunkInit
<1>2. r[1] \in {"prose", "code", "schema"} /\ r[2] \in Seq(Symbols)
    BY ResourcesAssumption
<1>3. Without(r[2], Tags(r[2])) \in Seq(Symbols)
    BY <1>2, WithoutFlattens
<1>4. text \in Seq(Symbols) /\ kind \in {"none", "prose", "code", "schema"}
    BY <1>1, <1>2, <1>3
<1>5. /\ at = 1 /\ current = <<>> /\ size = 0 /\ buffer = <<>> /\ chunks = <<>>
      /\ chunked = FALSE
    BY DEF ChunkInit
<1>6. Len(text) \in Nat
    BY <1>4
<1>n. /\ <<>> \in Seq(Symbols) /\ <<>> \in Seq(Spans) /\ <<>> \in Seq(ChunkRecord) /\ Len(<<>>) = 0
  <2> HIDE DEF ChunkRecord
  <2> QED
    OBVIOUS
<1>o. at \in 1 .. Len(text) + 2 /\ size \in Nat /\ Len(buffer) <= Overlap /\ chunked \in BOOLEAN
  <2>1. at \in 1 .. Len(text) + 2
    BY <1>5, <1>6
  <2>2. Len(buffer) = 0
    BY <1>5
  <2>3. Len(buffer) <= Overlap
    BY <2>2, SizesAreNaturals
  <2> QED
    BY <1>5, <2>1, <2>3
<1>7. ChunkTyped
    BY <1>4, <1>5, <1>n, <1>o DEF ChunkTyped
<1>8. Keeps
    BY <1>4, <1>5, NothingGood DEF Keeps
<1> QED
    BY <1>7, <1>8

LEMMA LastOnesTyped ==
    ASSUME NEW S, NEW s \in Seq(S), NEW n \in Nat
    PROVE  LastOnes(s, n) \in Seq(S) /\ Len(LastOnes(s, n)) <= n
<1> DEFINE m == (IF Len(s) > n THEN Len(s) - n ELSE 0) + 1
<1>1. /\ Len(s) \in Nat /\ m \in Nat /\ m >= 1 /\ m <= Len(s) + 1
      /\ Len(s) - m + 1 <= n
    OBVIOUS
<1> HIDE DEF m
<1>2. SubSeq(s, m, Len(s)) \in Seq(S) /\ Len(SubSeq(s, m, Len(s))) = (IF m <= Len(s) THEN Len(s) - m + 1 ELSE 0)
    BY <1>1, SubSeqProperties
<1>3. LastOnes(s, n) = SubSeq(s, m, Len(s))
    BY DEF LastOnes, m
<1> QED
    BY <1>1, <1>2, <1>3

\* The overlap of the next chunk.
LEMMA OverlapTyped ==
    ASSUME ChunkTyped, NEW u \in Spans
    PROVE  LET s == Paragraphs(current) \o <<"newline", "newline">> \o Characters(u)
           IN  LastOnes(s, Overlap) \in Seq(Symbols) /\ Len(LastOnes(s, Overlap)) <= Overlap
<1> DEFINE s == Paragraphs(current) \o <<"newline", "newline">> \o Characters(u)
<1>1. Paragraphs(current) \in Seq(Symbols) /\ Characters(u) \in Seq(Symbols)
    BY JoinFlattens, BreaksAreText, CharactersTyped DEF Paragraphs, ChunkTyped
<1>2. Paragraphs(current) \o <<"newline", "newline">> \in Seq(Symbols)
    BY <1>1, BreaksAreText, ConcatProperties
<1>3. s \in Seq(Symbols)
    BY <1>1, <1>2, ConcatProperties
<1> HIDE DEF s
<1>4. LastOnes(s, Overlap) \in Seq(Symbols) /\ Len(LastOnes(s, Overlap)) <= Overlap
    BY <1>3, LastOnesTyped, SizesAreNaturals
<1> QED
    BY <1>4 DEF s

\* What a step does to the chunks, by the definitions of the state before.
LEMMA SameText ==
    ASSUME ChunkNext
    PROVE  /\ text' = text /\ kind' = kind /\ Spans' = Spans /\ ChunkRecord' = ChunkRecord
           /\ \A cs, cur, p : Good(cs, cur, p)' <=> Good(cs, cur, p)
           /\ Positions' = Positions /\ \A k : Needed(k)' <=> Needed(k)
<1>1. text' = text /\ kind' = kind
    BY DEF ChunkNext, AddParagraph, NextChunk, CodeLine, Table, Return
<1>2. Spans' = Spans /\ Positions' = Positions
    BY <1>1 DEF Spans, Positions
<1>3. ChunkRecord' = ChunkRecord
    BY <1>2 DEF ChunkRecord
<1>4. \A k : Needed(k)' <=> Needed(k)
    BY <1>1, <1>2 DEF Needed
<1>5. ASSUME NEW cs, NEW cur, NEW p PROVE Good(cs, cur, p)' <=> Good(cs, cur, p)
    BY <1>2, <1>3, <1>4 DEF Good, Placed, Covers
<1> QED
    BY <1>1, <1>2, <1>3, <1>4, <1>5

LEMMA NextGood ==
    ASSUME ChunkTyped, NEW cs, NEW cur, NEW u, NEW q, IsNext(u, q), Good(cs, cur, at)
    PROVE  Good(cs, Append(cur, u), q) /\ Append(cur, u) \in Seq(Spans) /\ q \in 1 .. Len(text) + 2
<1>1. /\ u \in Spans /\ q \in 1 .. Len(text) + 2 /\ at <= u[1] /\ u[2] < q /\ at <= q
      /\ \A k \in Positions : (at <= k /\ k < q /\ Needed(k)) => Within(k, u)
    BY DEF IsNext
<1>2. at \in Nat /\ q \in Nat /\ text \in Seq(Symbols)
  <2>1. text \in Seq(Symbols) /\ at \in 1 .. Len(text) + 2
    BY DEF ChunkTyped
  <2> QED
    BY <1>1, <2>1
<1>3. Good(cs, Append(cur, u), q)
    BY <1>1, <1>2, NextUnitGood
<1> QED
    BY <1>1, <1>3 DEF Good

LEMMA KeepsStep ==
    ASSUME ChunkTyped, Keeps, ChunkNext
    PROVE  ChunkTyped' /\ Keeps'
<1> DEFINE Typed == /\ at' \in 1 .. Len(text) + 2
                    /\ current' \in Seq(Spans) /\ size' \in Nat
                    /\ buffer' \in Seq(Symbols) /\ Len(buffer') <= Overlap
                    /\ chunked' \in BOOLEAN
                    /\ kind = "schema" => current' = <<>>
           Kept1 == /\ ~chunked' => Good(chunks', current', at')
                    /\ chunked' => Good(chunks', <<>>, at') /\ \A k \in Positions : Needed(k) => k < at'
<1>0. ~chunked /\ Good(chunks, current, at)
    BY DEF ChunkNext, AddParagraph, NextChunk, CodeLine, Table, Return, Keeps
<1>1. SUFFICES Typed /\ Kept1
  <2>1. chunks' \in Seq(ChunkRecord)
    BY <1>1 DEF Good
  <2>2. ChunkTyped'
    BY <1>1, <2>1, SameText DEF ChunkTyped
  <2>3. Keeps'
    <3>1. ~chunked' => Good(chunks, current, at)'
      BY <1>1, SameText DEF Good, Placed, Covers
    <3>2. chunked' => Good(chunks, <<>>, at)'
      BY <1>1, SameText DEF Good, Placed, Covers
    <3>3. chunked' => (\A k \in Positions : Needed(k) => k < at)'
      BY <1>1, SameText
    <3> QED
      BY <3>1, <3>2, <3>3 DEF Keeps
  <2> QED
    BY <2>2, <2>3
<1>t. /\ text \in Seq(Symbols) /\ Len(text) \in Nat /\ at \in 1 .. Len(text) + 2 /\ at \in Nat \ {0}
      /\ size \in Nat /\ buffer \in Seq(Symbols) /\ Len(buffer) <= Overlap
      /\ current \in Seq(Spans) /\ chunks \in Seq(ChunkRecord)
      /\ <<>> \in Seq(Symbols) /\ <<>> \in Seq(Spans)
    BY SeqDomain DEF ChunkTyped
<1>f. chunked = FALSE
    BY <1>0 DEF ChunkTyped
<1>s. \A u \in Spans : Size(u) \in Nat
    BY <1>t, CharactersTyped
<1>a. \A u : Append(<<>>, u) = <<u>>
    OBVIOUS
<1>2. CASE AddParagraph
  <2>1. PICK u \in NextParagraph : /\ current' = Append(current, u) /\ size' = size + Size(u)
                                   /\ at' = u[2] + 1
    BY <1>2 DEF AddParagraph
  <2>2. kind = "prose" /\ buffer' = buffer /\ chunks' = chunks /\ chunked' = chunked
    BY <1>2 DEF AddParagraph
  <2>3. IsNext(u, at')
    BY <1>t, <2>1, <2>2, ParagraphIsNext
  <2>4. Good(chunks', current', at') /\ current' \in Seq(Spans) /\ at' \in 1 .. Len(text) + 2
    BY <1>0, <2>1, <2>2, <2>3, NextGood
  <2>5. u \in Spans
    BY <2>3 DEF IsNext
  <2>6. Size(u) \in Nat /\ size' \in Nat
    BY <1>s, <1>t, <2>1, <2>5
  <2> QED
    BY <1>f, <1>t, <2>2, <2>4, <2>6
<1>3. CASE NextChunk
  <2>1. PICK u \in NextParagraph :
          /\ IF current = <<>> THEN UNCHANGED <<chunks, buffer>>
             ELSE /\ chunks' = chunks \o Kept(Chunk(current, buffer))
                  /\ buffer' = LastOnes(Paragraphs(current) \o <<"newline", "newline">>
                                            \o Characters(u), Overlap)
          /\ current' = <<u>> /\ size' = Size(u) /\ at' = u[2] + 1
    BY <1>3 DEF NextChunk
  <2>2. kind = "prose" /\ chunked' = chunked
    BY <1>3 DEF NextChunk
  <2>3. IsNext(u, at')
    BY <1>t, <2>1, <2>2, ParagraphIsNext
  <2>4. u \in Spans
    BY <2>3 DEF IsNext
  <2>5. Good(chunks', <<>>, at)
    <3>1. CASE current = <<>>
      BY <1>0, <2>1, <3>1
    <3>2. CASE current # <<>>
      BY <1>0, <1>t, <2>1, <2>2, <3>2, FlushGood
    <3> QED
      BY <3>1, <3>2
  <2>6. Good(chunks', current', at') /\ current' \in Seq(Spans) /\ at' \in 1 .. Len(text) + 2
    BY <1>a, <2>1, <2>3, <2>5, NextGood
  <2>7. buffer' \in Seq(Symbols) /\ Len(buffer') <= Overlap
    <3>1. CASE current = <<>>
      BY <1>t, <2>1, <3>1
    <3>2. CASE current # <<>>
      BY <2>1, <2>4, <3>2, OverlapTyped
    <3> QED
      BY <3>1, <3>2
  <2> QED
    BY <1>f, <1>s, <2>1, <2>2, <2>4, <2>6, <2>7
<1>4. CASE CodeLine
  <2>1. PICK u \in NextLine :
          LET ends  == Definition(u) /\ Len(Lines(current)) > Least
              begun == Append(IF ends THEN <<>> ELSE current, u)
              long  == Len(Lines(begun)) > Most
          IN  /\ chunks' = chunks \o (IF ends THEN Kept(Chunk(current, <<>>)) ELSE <<>>)
                                  \o (IF long THEN Kept(Chunk(begun, <<>>)) ELSE <<>>)
              /\ current' = IF long THEN <<>> ELSE begun
              /\ at' = u[2] + 2
    BY <1>4 DEF CodeLine
  <2>2. kind = "code" /\ chunked' = chunked /\ size' = size /\ buffer' = buffer
    BY <1>4 DEF CodeLine
  <2> DEFINE ends == Definition(u) /\ Len(Lines(current)) > Least
             left == IF ends THEN <<>> ELSE current
             begun == Append(left, u)
             long == Len(Lines(begun)) > Most
             cs == chunks \o (IF ends THEN Kept(Chunk(current, <<>>)) ELSE <<>>)
  <2>3. /\ chunks' = cs \o (IF long THEN Kept(Chunk(begun, <<>>)) ELSE <<>>)
        /\ current' = (IF long THEN <<>> ELSE begun) /\ at' = u[2] + 2
    BY <2>1
  <2>4. IsNext(u, at')
    BY <1>t, <2>2, <2>3, LineIsNext
  <2>5. Good(cs, left, at)
    <3>1. CASE ends
      <4>1. left = <<>> /\ cs = chunks \o Kept(Chunk(current, <<>>))
        BY <3>1
      <4> HIDE DEF left, cs
      <4> QED
        BY <1>0, <1>t, <2>2, <4>1, FlushGood
    <3>2. CASE ~ends
      <4>1. left = current /\ cs = chunks
        BY <1>t, <3>2
      <4> HIDE DEF left, cs
      <4> QED
        BY <1>0, <4>1
    <3> QED
      BY <3>1, <3>2
  <2> HIDE DEF ends, left, cs
  <2>6. Good(cs, begun, at') /\ begun \in Seq(Spans) /\ at' \in 1 .. Len(text) + 2
    BY <2>4, <2>5, NextGood
  <2> HIDE DEF begun, long
  <2>7. Good(chunks', current', at')
    <3>1. CASE long
      <4>1. chunks' = cs \o Kept(Chunk(begun, <<>>)) /\ current' = <<>>
        BY <2>3, <3>1
      <4> QED
        BY <1>t, <2>2, <2>6, <4>1, FlushGood
    <3>2. CASE ~long
      <4>1. cs \in Seq(ChunkRecord)
        BY <2>6 DEF Good
      <4>2. chunks' = cs /\ current' = begun
        BY <2>3, <3>2, <4>1
      <4> QED
        BY <2>6, <4>2
    <3> QED
      BY <3>1, <3>2
  <2>8. current' \in Seq(Spans)
    BY <2>7 DEF Good
  <2> QED
    BY <1>f, <1>t, <2>2, <2>6, <2>7, <2>8
<1>5. CASE Table
  <2>1. PICK u \in NextTable : chunks' = chunks \o Kept(Chunk(<<u>>, <<>>)) /\ at' = u[2] + 1
    BY <1>5 DEF Table
  <2>2. /\ kind = "schema" /\ chunked' = chunked /\ current' = current /\ size' = size /\ buffer' = buffer
    BY <1>5 DEF Table
  <2>3. IsNext(u, at')
    BY <1>t, <2>1, <2>2, TableIsNext
  <2>4. current = <<>>
    BY <2>2 DEF ChunkTyped
  <2>5. Good(chunks, <<u>>, at') /\ at' \in 1 .. Len(text) + 2
    BY <1>0, <1>a, <2>3, <2>4, NextGood
  <2>6. <<u>> = <<<<u>>[1]>>
    OBVIOUS
  <2>7. Good(chunks', <<>>, at')
    <3> DEFINE cur == <<u>>
    <3>1. Good(chunks, cur, at') /\ cur = <<cur[1]>> /\ chunks' = chunks \o Kept(Chunk(cur, <<>>))
      BY <2>1, <2>5
    <3> HIDE DEF cur
    <3> QED
      BY <1>t, <3>1, FlushGood
  <2> QED
    BY <1>f, <1>t, <2>2, <2>4, <2>5, <2>7
<1>6. CASE Return
  <2>1. /\ chunks' = chunks \o (IF current = <<>> THEN <<>> ELSE Kept(Chunk(current, buffer)))
        /\ kind # "none" /\ NothingLeft /\ chunked' = TRUE
        /\ at' = at /\ current' = current /\ size' = size /\ buffer' = buffer
    BY <1>6 DEF Return
  <2>2. \A k \in Positions : Needed(k) => k < at'
    BY <2>1, NothingNeededLeft
  <2>3. Good(chunks', <<>>, at')
    <3>1. CASE current = <<>>
      <4>1. chunks' = chunks
        BY <1>t, <2>1, <3>1
      <4> QED
        BY <1>0, <2>1, <3>1, <4>1
    <3>2. CASE current # <<>>
      <4>1. kind \in {"prose", "code"}
        BY <2>1, <3>2 DEF ChunkTyped
      <4>2. chunks' = chunks \o Kept(Chunk(current, buffer))
        BY <2>1, <3>2
      <4> QED
        BY <1>0, <1>t, <2>1, <4>1, <4>2, FlushGood
    <3> QED
      BY <3>1, <3>2
  <2>4. kind = "schema" => current' = <<>>
    BY <2>1 DEF ChunkTyped
  <2> QED
    BY <1>t, <2>1, <2>2, <2>3, <2>4
<1> QED
    BY <1>2, <1>3, <1>4, <1>5, <1>6 DEF ChunkNext

LEMMA TextIsKept ==
    ASSUME ChunkTyped, Keeps
    PROVE  TextKept
<1> SUFFICES ASSUME chunked PROVE Good(chunks, <<>>, at) => TextKept
    BY DEF Keeps, TextKept
<1>1. \A k \in Positions : Needed(k) => k < at
    BY DEF Keeps
<1>2. \A k : ~InUnits(k, <<>>)
    BY DEF InUnits
<1> QED
    BY <1>1, <1>2 DEF Good, Placed, Covers, InChunks, Before, TextKept

-----------------------------------------------------------------------------
(* Chunker: sizes.                                                         *)

CodeSmall(units) ==
    /\ Len(Lines(SubSeq(units, 1, Len(units) - 1))) <= Most
    /\ \A k \in 2 .. Len(units) :
            Definition(units[k]) => Len(Lines(SubSeq(units, 1, k - 1))) <= Least

SmallChunk(c) ==
    /\ (kind = "prose" /\ Len(c.units) > 1) => Len(TextOf(c)) <= Target + 2 * (Len(c.units) - 1)
    /\ kind = "code" => CodeSmall(c.units)

\* What current_size says of the current chunk.
Sized(cur, n, b) ==
    /\ cur = <<>> => n = 0
    /\ cur # <<>> => Len(Paragraphs(cur)) = n + 2 * (Len(cur) - 1)
    /\ Len(cur) > 1 => n + Len(b) < Target

SmallInv ==
    /\ \A i \in DOMAIN chunks : SmallChunk(chunks[i])
    /\ kind = "prose" => Sized(current, size, buffer)
    /\ kind = "code" => CodeSmall(current) /\ Len(Lines(current)) <= Most

LEMMA SmallIsSmall == SmallInv => ChunksAreSmall
BY DEF SmallInv, ChunksAreSmall, SmallChunk, CodeSmall

LEMMA LinesTyped ==
    ASSUME text \in Seq(Symbols), NEW s \in Seq(Spans)
    PROVE  Len(Lines(s)) \in Nat
<1>1. Lines(s) \in Seq(Symbols)
    BY BreaksAreText, JoinFlattens DEF Lines
<1> QED
    BY <1>1

LEMMA NoLines == Lines(<<>>) = <<>> /\ Len(<<>>) = 0
BY JoinNothing DEF Lines

\* A line more at the end of a short beginning.
LEMMA CodeSmallGrows ==
    ASSUME NEW s \in Seq(Spans), NEW u \in Spans, CodeSmall(s),
           Len(Lines(s)) <= Most,
           (s # <<>> /\ Definition(u)) => Len(Lines(s)) <= Least
    PROVE  CodeSmall(Append(s, u))
<1> DEFINE t == Append(s, u)
<1>1. /\ t \in Seq(Spans) /\ Len(t) = Len(s) + 1 /\ t[Len(s) + 1] = u /\ Len(s) \in Nat
      /\ \A k \in 1 .. Len(s) : t[k] = s[k]
    BY AppendProperties
<1>2. ASSUME NEW m \in 0 .. Len(s) PROVE SubSeq(t, 1, m) = SubSeq(s, 1, m)
  <2>0. t = s \o <<u>> /\ <<u>> \in Seq(Spans)
    BY AppendIsConcat
  <2>1. /\ SubSeq(t, 1, m) \in Seq(Spans) /\ SubSeq(s, 1, m) \in Seq(Spans)
        /\ Len(SubSeq(t, 1, m)) = m /\ Len(SubSeq(s, 1, m)) = m
        /\ \A k \in 1 .. m : SubSeq(t, 1, m)[k] = t[k] /\ SubSeq(s, 1, m)[k] = s[k]
    BY <1>1
  <2>2. \A k \in 1 .. m : t[k] = s[k]
    BY <1>1
  <2> HIDE DEF t
  <2> QED
    BY <2>1, <2>2, SeqEqual
<1>3. SubSeq(s, 1, Len(s)) = s
    BY SubSeqFull
<1> HIDE DEF t
<1>4. Len(t) - 1 = Len(s) /\ SubSeq(t, 1, Len(t) - 1) = s
    BY <1>1, <1>2, <1>3
<1>5. ASSUME NEW k \in 2 .. Len(t), Definition(t[k])
      PROVE  Len(Lines(SubSeq(t, 1, k - 1))) <= Least
  <2>1. CASE k \in 2 .. Len(s)
    <3>1. t[k] = s[k] /\ SubSeq(t, 1, k - 1) = SubSeq(s, 1, k - 1)
      BY <1>1, <1>2, <2>1
    <3> QED
      BY <1>5, <2>1, <3>1 DEF CodeSmall
  <2>2. CASE k = Len(s) + 1
    <3>1. k - 1 = Len(s) /\ t[k] = u /\ s # <<>>
      BY <1>1, <2>2
    <3>2. SubSeq(t, 1, k - 1) = s
      BY <1>1, <1>2, <1>3, <3>1
    <3> QED
      BY <1>5, <3>1, <3>2
  <2> QED
    BY <1>1, <2>1, <2>2
<1>6. CodeSmall(t)
    BY <1>4, <1>5 DEF CodeSmall
<1> QED
    BY <1>6 DEF t

LEMMA CodeSmallNothing == CodeSmall(<<>>)
<1>1. SubSeq(<<>>, 1, Len(<<>>) - 1) = <<>> /\ Len(<<>>) = 0
    OBVIOUS
<1>2. Len(Lines(<<>>)) <= Most
    BY NoLines, SizesAreNaturals
<1>3. 2 .. Len(<<>>) = {}
    BY <1>1
<1>4. Len(Lines(SubSeq(<<>>, 1, Len(<<>>) - 1))) <= Most
    BY <1>1, <1>2
<1> QED
    BY <1>3, <1>4 DEF CodeSmall

LEMMA SmallInit == ChunkInit => SmallInv
<1> SUFFICES ASSUME ChunkInit PROVE SmallInv
    OBVIOUS
<1>1. chunks = <<>> /\ current = <<>> /\ size = 0
    BY DEF ChunkInit
<1>2. DOMAIN chunks = {} /\ Len(current) = 0
    BY <1>1
<1>3. Len(Lines(current)) <= Most
    BY <1>1, NoLines, SizesAreNaturals
<1> QED
    BY <1>1, <1>2, <1>3, CodeSmallNothing DEF SmallInv, Sized

\* A paragraph more.
LEMMA SizedGrows ==
    ASSUME text \in Seq(Symbols), NEW cur \in Seq(Spans), NEW u \in Spans,
           NEW n \in Nat, NEW b, Sized(cur, n, b), n + Size(u) + Len(b) < Target, Len(b) \in Nat
    PROVE  Sized(Append(cur, u), n + Size(u), b)
<1> DEFINE t == Append(cur, u)
           S == Spans
<1>0. cur \in Seq(S) /\ u \in S
    OBVIOUS
<1> HIDE DEF S
<1>1. Len(t) = Len(cur) + 1 /\ t # <<>> /\ Len(cur) \in Nat /\ (cur = <<>> <=> Len(cur) = 0)
    BY <1>0
<1>2. Size(u) \in Nat
    BY CharactersTyped
<1>3. Len(<<"newline", "newline">>) = 2
    OBVIOUS
<1>4. Len(Paragraphs(t)) = Len(Paragraphs(cur)) + (IF cur = <<>> THEN Size(u) ELSE 2 + Size(u))
      /\ Len(Paragraphs(cur)) \in Nat
    BY <1>3, BreaksAreText, JoinLength DEF Paragraphs
<1>5. cur = <<>> => Len(Paragraphs(cur)) = 0
    BY JoinNothing DEF Paragraphs
<1> HIDE DEF t
<1>6. Len(Paragraphs(t)) = n + Size(u) + 2 * (Len(t) - 1)
  <2>1. CASE cur = <<>>
    BY <1>1, <1>2, <1>4, <1>5, <2>1 DEF Sized
  <2>2. CASE cur # <<>>
    <3>1. Len(Paragraphs(cur)) = n + 2 * (Len(cur) - 1)
      BY <2>2 DEF Sized
    <3>2. Len(Paragraphs(t)) = n + 2 * (Len(cur) - 1) + (2 + Size(u))
      BY <1>4, <2>2, <3>1
    <3>3. Len(t) - 1 = Len(cur)
      BY <1>1
    <3>4. n + 2 * (Len(cur) - 1) + (2 + Size(u)) = n + Size(u) + 2 * Len(cur)
      BY <1>1, <1>2
    <3> QED
      BY <3>2, <3>3, <3>4
  <2> QED
    BY <2>1, <2>2
<1> QED
    BY <1>1, <1>6 DEF Sized, t

\* One paragraph.
LEMMA SizedOne ==
    ASSUME text \in Seq(Symbols), NEW u \in Spans, NEW b
    PROVE  Sized(<<u>>, Size(u), b)
<1>1. <<>> \in Seq(Spans) /\ Append(<<>>, u) = <<u>> /\ Len(<<u>>) = 1 /\ Size(u) \in Nat
    BY CharactersTyped
<1>2. Join(<<>>, <<"newline", "newline">>) = <<>> /\ Len(<<>>) = 0
    BY JoinNothing
<1>3. Len(Paragraphs(<<u>>)) = Size(u)
  <2> DEFINE e == <<>>
             sep == <<"newline", "newline">>
  <2>1. e \in Seq(Spans) /\ sep \in Seq(Symbols) /\ e = <<>>
    BY <1>1, BreaksAreText
  <2> HIDE DEF e, sep
  <2>2. Len(Join(Append(e, u), sep)) = Len(Join(e, sep)) + Size(u)
    BY <2>1, JoinLength
  <2>3. Append(e, u) = <<u>> /\ Len(Join(e, sep)) = 0
    BY <1>1, <1>2 DEF e, sep
  <2> QED
    BY <1>1, <2>2, <2>3 DEF Paragraphs, sep
<1>4. Size(u) = Size(u) + 2 * (1 - 1)
    BY <1>1
<1> QED
    BY <1>1, <1>3, <1>4 DEF Sized

\* The text of a chunk of paragraphs: its separators and its overlap are in it.
LEMMA SizedIsSmall ==
    ASSUME text \in Seq(Symbols), kind = "prose", NEW cur \in Seq(Spans), NEW n \in Nat,
           NEW b \in Seq(Symbols), Sized(cur, n, b)
    PROVE  SmallChunk(Chunk(cur, b))
<1> DEFINE p == Paragraphs(cur)
           rest == IF b = <<>> THEN <<>> ELSE <<"newline">> \o b
<1>1. TextOf(Chunk(cur, b)) = p \o rest
    BY DEF TextOf, Chunk
<1>2. p \in Seq(Symbols)
    BY BreaksAreText, JoinFlattens DEF Paragraphs
<1>3. rest \in Seq(Symbols) /\ Len(rest) <= 1 + Len(b) /\ Len(b) \in Nat /\ Len(rest) \in Nat
  <2>1. <<"newline">> \o b \in Seq(Symbols) /\ Len(<<"newline">> \o b) = 1 + Len(b)
    BY BreaksAreText, ConcatProperties
  <2> QED
    BY <2>1
<1>4. Chunk(cur, b).units = cur /\ Len(cur) \in Nat
    BY SeqDomain DEF Chunk
<1> SUFFICES ASSUME Len(cur) > 1 PROVE Len(TextOf(Chunk(cur, b))) <= Target + 2 * (Len(cur) - 1)
    BY <1>4 DEF SmallChunk
<1>5. Len(p) = n + 2 * (Len(cur) - 1) /\ n + Len(b) < Target
  <2>1. cur # <<>>
    OBVIOUS
  <2> QED
    BY <2>1 DEF Sized
<1> HIDE DEF p, rest
<1>6. Len(p \o rest) = Len(p) + Len(rest)
    BY <1>2, <1>3, ConcatProperties
<1>7. Len(p) + Len(rest) <= Target + 2 * (Len(cur) - 1)
    BY <1>3, <1>4, <1>5, SizesAreNaturals
<1> QED
    BY <1>1, <1>6, <1>7

LEMMA SmallRigid ==
    ASSUME ChunkNext
    PROVE  /\ \A c : SmallChunk(c)' <=> SmallChunk(c)
           /\ \A cur, n, b : Sized(cur, n, b)' <=> Sized(cur, n, b)
           /\ \A s : CodeSmall(s)' <=> CodeSmall(s)
           /\ \A s : Lines(s)' = Lines(s)
<1>1. text' = text /\ kind' = kind
    BY SameText
<1>2. ASSUME NEW s, NEW sep PROVE Join(s, sep)' = Join(s, sep)
    BY <1>1 DEF Join, Characters
<1>3. ASSUME NEW s PROVE Lines(s)' = Lines(s) /\ Paragraphs(s)' = Paragraphs(s)
    BY <1>2 DEF Lines, Paragraphs
<1>4. ASSUME NEW u PROVE Definition(u)' <=> Definition(u)
    BY <1>1 DEF Definition
<1>5. ASSUME NEW s PROVE CodeSmall(s)' <=> CodeSmall(s)
    BY <1>3, <1>4 DEF CodeSmall
<1>6. ASSUME NEW c PROVE TextOf(c)' = TextOf(c)
    BY <1>1, <1>3 DEF TextOf, Characters
<1>7. ASSUME NEW c PROVE SmallChunk(c)' <=> SmallChunk(c)
    BY <1>1, <1>5, <1>6 DEF SmallChunk
<1>8. ASSUME NEW cur, NEW n, NEW b PROVE Sized(cur, n, b)' <=> Sized(cur, n, b)
    BY <1>3 DEF Sized
<1> QED
    BY <1>3, <1>5, <1>7, <1>8

\* A chunk that is kept is one more, or none.
LEMMA KeptSmall ==
    ASSUME NEW cs \in Seq(ChunkRecord), \A i \in DOMAIN cs : SmallChunk(cs[i]),
           NEW c \in ChunkRecord, SmallChunk(c)
    PROVE  /\ cs \o Kept(c) \in Seq(ChunkRecord)
           /\ \A i \in DOMAIN (cs \o Kept(c)) : SmallChunk((cs \o Kept(c))[i])
<1>1. cs \o Kept(c) \in {cs, Append(cs, c)}
  <2>1. CASE Range(TextOf(c)) \subseteq White
    BY <2>1 DEF Kept
  <2>2. CASE ~(Range(TextOf(c)) \subseteq White)
    BY <2>2, AppendIsConcat DEF Kept
  <2> QED
    BY <2>1, <2>2
<1> DEFINE t == Append(cs, c)
<1>2. /\ t \in Seq(ChunkRecord) /\ DOMAIN t = DOMAIN cs \cup {Len(cs) + 1}
      /\ t[Len(cs) + 1] = c /\ \A i \in DOMAIN cs : t[i] = cs[i]
    BY AppendedIs
<1> HIDE DEF t
<1>3. \A i \in DOMAIN t : SmallChunk(t[i])
    BY <1>2
<1> QED
    BY <1>1, <1>2, <1>3 DEF t

LEMMA SmallStep ==
    ASSUME ChunkTyped, SmallInv, ChunkNext
    PROVE  SmallInv'
<1>1. text' = text /\ kind' = kind
    BY SameText
<1>t. /\ text \in Seq(Symbols) /\ Len(text) \in Nat /\ at \in 1 .. Len(text) + 2 /\ at \in Nat \ {0}
      /\ size \in Nat /\ buffer \in Seq(Symbols) /\ Len(buffer) \in Nat
      /\ current \in Seq(Spans) /\ chunks \in Seq(ChunkRecord)
      /\ <<>> \in Seq(Symbols) /\ <<>> \in Seq(Spans)
    BY SeqDomain DEF ChunkTyped
<1>2. SUFFICES /\ \A i \in DOMAIN chunks' : SmallChunk(chunks'[i])
               /\ kind = "prose" => Sized(current', size', buffer')
               /\ kind = "code" => CodeSmall(current') /\ Len(Lines(current')) <= Most
  <2>1. \A i \in DOMAIN chunks' : SmallChunk(chunks[i])'
    BY <1>2, SmallRigid
  <2>2. Sized(current, size, buffer)' <=> Sized(current', size', buffer')
    <3>1. Paragraphs(current)' = Paragraphs(current')
      BY <1>1 DEF Paragraphs, Join, Characters
    <3> QED
      BY <3>1 DEF Sized
  <2>3. CodeSmall(current)' <=> CodeSmall(current')
    <3>1. \A s : Lines(s)' = Lines(s)
      BY SmallRigid
    <3>2. \A u : Definition(u)' <=> Definition(u)
      BY <1>1 DEF Definition
    <3> QED
      BY <1>1 DEF CodeSmall, Lines, Join, Characters, Definition
  <2>4. Lines(current)' = Lines(current')
    BY <1>1 DEF Lines, Join, Characters
  <2> QED
    BY <1>1, <1>2, <2>1, <2>2, <2>3, <2>4 DEF SmallInv
<1>3. \A i \in DOMAIN chunks : SmallChunk(chunks[i])
    BY DEF SmallInv
<1>4. CASE AddParagraph
  <2>1. PICK u \in NextParagraph : Fits(u) /\ current' = Append(current, u) /\ size' = size + Size(u)
    BY <1>4 DEF AddParagraph
  <2>2. kind = "prose" /\ buffer' = buffer /\ chunks' = chunks
    BY <1>4 DEF AddParagraph
  <2>3. u \in Spans
    BY <1>t, <2>2, ParagraphIsNext DEF IsNext
  <2>4. Sized(current', size', buffer')
    BY <1>t, <2>1, <2>2, <2>3, SizedGrows DEF SmallInv, Fits
  <2> QED
    BY <1>3, <2>2, <2>4
<1>5. CASE NextChunk
  <2>1. PICK u \in NextParagraph :
          /\ chunks' \in {chunks, chunks \o Kept(Chunk(current, buffer))}
          /\ current' = <<u>> /\ size' = Size(u)
    BY <1>5 DEF NextChunk
  <2>2. kind = "prose"
    BY <1>5 DEF NextChunk
  <2>3. u \in Spans
    BY <1>t, <2>2, ParagraphIsNext DEF IsNext
  <2>4. Sized(current', size', buffer')
    BY <1>t, <2>1, <2>3, SizedOne
  <2>5. Chunk(current, buffer) \in ChunkRecord /\ SmallChunk(Chunk(current, buffer))
    BY <1>t, <2>2, ChunkIsRecord, SizedIsSmall DEF SmallInv
  <2>6. \A i \in DOMAIN chunks' : SmallChunk(chunks'[i])
    BY <1>3, <1>t, <2>1, <2>5, KeptSmall
  <2> QED
    BY <2>2, <2>4, <2>6
<1>6. CASE CodeLine
  <2>1. PICK u \in NextLine :
          LET ends  == Definition(u) /\ Len(Lines(current)) > Least
              begun == Append(IF ends THEN <<>> ELSE current, u)
              long  == Len(Lines(begun)) > Most
          IN  /\ chunks' = chunks \o (IF ends THEN Kept(Chunk(current, <<>>)) ELSE <<>>)
                                  \o (IF long THEN Kept(Chunk(begun, <<>>)) ELSE <<>>)
              /\ current' = IF long THEN <<>> ELSE begun
    BY <1>6 DEF CodeLine
  <2>2. kind = "code"
    BY <1>6 DEF CodeLine
  <2>3. u \in Spans
    BY <1>t, <2>2, LineIsNext DEF IsNext
  <2>c. \A s \in Seq(Spans) : CodeSmall(s) =>
            Chunk(s, <<>>) \in ChunkRecord /\ SmallChunk(Chunk(s, <<>>))
    BY <1>t, <2>2, ChunkIsRecord DEF SmallChunk
  <2> DEFINE ends == Definition(u) /\ Len(Lines(current)) > Least
             left == IF ends THEN <<>> ELSE current
             begun == Append(left, u)
             long == Len(Lines(begun)) > Most
             cs == chunks \o (IF ends THEN Kept(Chunk(current, <<>>)) ELSE <<>>)
  <2>4. /\ chunks' = cs \o (IF long THEN Kept(Chunk(begun, <<>>)) ELSE <<>>)
        /\ current' = (IF long THEN <<>> ELSE begun)
    BY <2>1
  <2>5. CodeSmall(current) /\ Len(Lines(current)) <= Most /\ Len(Lines(current)) \in Nat
    BY <1>t, <2>2, LinesTyped DEF SmallInv
  <2>6. /\ left \in Seq(Spans) /\ CodeSmall(left) /\ Len(Lines(left)) <= Most
        /\ (left # <<>> /\ Definition(u)) => Len(Lines(left)) <= Least
        /\ cs \in Seq(ChunkRecord) /\ \A i \in DOMAIN cs : SmallChunk(cs[i])
    <3>1. CASE ends
      <4>1. left = <<>> /\ cs = chunks \o Kept(Chunk(current, <<>>))
        BY <3>1
      <4>2. cs \in Seq(ChunkRecord) /\ \A i \in DOMAIN cs : SmallChunk(cs[i])
        <5> HIDE DEF left, cs
        <5> QED
          BY <1>3, <1>t, <2>5, <2>c, <4>1, KeptSmall
      <4> HIDE DEF left, cs
      <4> QED
        BY <1>t, <4>1, <4>2, CodeSmallNothing, NoLines, SizesAreNaturals
    <3>2. CASE ~ends
      <4>1. left = current /\ cs = chunks /\ (Definition(u) => Len(Lines(current)) <= Least)
        BY <1>t, <2>5, <3>2, SizesAreNaturals
      <4> HIDE DEF left, cs
      <4> QED
        BY <1>3, <1>t, <2>5, <4>1
    <3> QED
      BY <3>1, <3>2
  <2> HIDE DEF ends, left, cs
  <2>7. CodeSmall(begun) /\ begun \in Seq(Spans)
    <3>1. CodeSmall(Append(left, u))
      BY <2>3, <2>6, CodeSmallGrows
    <3>2. Append(left, u) \in Seq(Spans)
      <4> DEFINE S == Spans
      <4>1. left \in Seq(S) /\ u \in S
        BY <2>3, <2>6
      <4> HIDE DEF S
      <4>2. Append(left, u) \in Seq(S)
        BY <4>1
      <4> QED
        BY <4>2 DEF S
    <3> QED
      BY <3>1, <3>2
  <2> HIDE DEF begun
  <2>8. Len(Lines(begun)) \in Nat
    BY <1>t, <2>7, LinesTyped
  <2>9. CASE long
    <3>1. chunks' = cs \o Kept(Chunk(begun, <<>>)) /\ current' = <<>>
      BY <2>4, <2>9
    <3>2. \A i \in DOMAIN chunks' : SmallChunk(chunks'[i])
      BY <2>6, <2>7, <2>c, <3>1, KeptSmall
    <3> QED
      BY <2>2, <3>1, <3>2, CodeSmallNothing, NoLines, SizesAreNaturals
  <2>10. CASE ~long
    <3>1. chunks' = cs /\ current' = begun
      BY <2>4, <2>6, <2>10
    <3>2. Len(Lines(begun)) <= Most
      BY <2>8, <2>10, SizesAreNaturals
    <3> QED
      BY <2>2, <2>6, <2>7, <3>1, <3>2
  <2> QED
    BY <2>9, <2>10
<1>7. CASE Table
  <2>1. PICK u \in NextTable : chunks' = chunks \o Kept(Chunk(<<u>>, <<>>))
    BY <1>7 DEF Table
  <2>2. kind = "schema"
    BY <1>7 DEF Table
  <2>3. u \in Spans
    BY <1>t, <2>2, TableIsNext DEF IsNext
  <2>4. <<u>> \in Seq(Spans)
    BY <2>3
  <2>5. Chunk(<<u>>, <<>>) \in ChunkRecord
    BY <1>t, <2>4, ChunkIsRecord
  <2>6. \A c : SmallChunk(c)
    BY <2>2 DEF SmallChunk
  <2> QED
    BY <2>2, <2>6
<1>8. CASE Return
  <2>1. /\ chunks' \in {chunks \o <<>>, chunks \o Kept(Chunk(current, buffer))}
        /\ current' = current /\ size' = size /\ buffer' = buffer
    BY <1>8 DEF Return
  <2>2. SmallChunk(Chunk(current, buffer)) /\ Chunk(current, buffer) \in ChunkRecord
    <3>1. CASE kind = "prose"
      BY <1>t, <3>1, ChunkIsRecord, SizedIsSmall DEF SmallInv
    <3>2. CASE kind # "prose"
      BY <1>t, <3>2, ChunkIsRecord DEF SmallInv, SmallChunk
    <3> QED
      BY <3>1, <3>2
  <2>3. chunks \o <<>> = chunks
    BY <1>t
  <2>4. \A i \in DOMAIN chunks' : SmallChunk(chunks'[i])
    BY <1>3, <1>t, <2>1, <2>2, <2>3, KeptSmall
  <2> QED
    BY <2>1, <2>4 DEF SmallInv
<1> QED
    BY <1>4, <1>5, <1>6, <1>7, <1>8 DEF ChunkNext

LEMMA SansTyped ==
    ASSUME NEW S, NEW s \in Seq(S), NEW X
    PROVE  Sans(s, X) \in Seq(S)
BY WithoutFlattens DEF Sans

LEMMA RangeAppend ==
    ASSUME NEW S, NEW s \in Seq(S), NEW e
    PROVE  Range(Append(s, e)) = Range(s) \cup {e}
<1>1. /\ DOMAIN Append(s, e) = DOMAIN s \cup {Len(s) + 1} /\ Append(s, e)[Len(s) + 1] = e
      /\ \A i \in DOMAIN s : Append(s, e)[i] = s[i]
    OBVIOUS
<1> QED
    BY <1>1 DEF Range

-----------------------------------------------------------------------------
(* PIIScreen: matches.                                                     *)

GoodText(t) ==
    /\ t \in RawTexts /\ t.chars \in Seq(Letters) /\ IsFiniteSet(t.matches)
    /\ \A f \in t.matches :
            /\ f[1] \in Categories /\ f[2] \in Nat \ {0} /\ f[3] \in Nat
            /\ f[2] <= f[3] /\ f[3] <= Len(t.chars)

LEMMA BatchTextsTyped ==
    ASSUME NEW b \in Batches
    PROVE  /\ b \in Seq(RawTexts) /\ Len(b) \in Nat /\ DOMAIN b = 1 .. Len(b)
           /\ \A i \in DOMAIN b : GoodText(b[i])
<1>1. /\ b \in Seq(RawTexts)
      /\ \A i \in DOMAIN b :
            /\ IsFiniteSet(b[i].matches)
            /\ \A f \in b[i].matches : f[2] <= f[3] /\ f[3] <= Len(b[i].chars)
    BY BatchesAssumption
<1>2. Len(b) \in Nat /\ DOMAIN b = 1 .. Len(b) /\ \A i \in DOMAIN b : b[i] \in RawTexts
  <2> DEFINE T == RawTexts
  <2>1. b \in Seq(T)
    BY <1>1
  <2> HIDE DEF T
  <2>2. Len(b) \in Nat /\ DOMAIN b = 1 .. Len(b) /\ \A i \in DOMAIN b : b[i] \in T
    BY <2>1
  <2> QED
    BY <2>2 DEF T
<1>3. ASSUME NEW t \in RawTexts
      PROVE  /\ t.chars \in Seq(Letters)
             /\ \A f \in t.matches : f[1] \in Categories /\ f[2] \in Nat \ {0} /\ f[3] \in Nat
    BY DEF RawTexts
<1> QED
    BY <1>1, <1>2, <1>3 DEF GoodText

\* The order is total, since no two categories have the same rank.
LEMMA EarlierOrders ==
    ASSUME NEW t, GoodText(t), NEW f \in t.matches, NEW g \in t.matches
    PROVE  /\ ~Earlier(f, f)
           /\ f = g \/ Earlier(f, g) \/ Earlier(g, f)
           /\ \A e \in t.matches : Earlier(e, f) /\ Earlier(f, g) => Earlier(e, g)
<1>1. t.matches \subseteq Categories \X (Nat \ {0}) \X Nat
    BY DEF GoodText, RawTexts
<1>2. \A e \in t.matches : /\ e[1] \in Categories /\ e[2] \in Nat /\ e[3] \in Nat /\ Place[e[1]] \in Nat
                           /\ e = <<e[1], e[2], e[3]>>
    BY <1>1, PatternsAssumption
<1>3. ~Earlier(f, f)
    BY <1>2 DEF Earlier
<1>4. ASSUME f # g PROVE Earlier(f, g) \/ Earlier(g, f)
  <2>1. f[2] # g[2] \/ f[3] # g[3] \/ f[1] # g[1]
    BY <1>2, <1>4
  <2>2. f[1] # g[1] => Place[f[1]] # Place[g[1]]
    BY <1>2, PatternsAssumption
  <2> QED
    BY <1>2, <2>1, <2>2 DEF Earlier
<1>5. ASSUME NEW e \in t.matches, Earlier(e, f), Earlier(f, g) PROVE Earlier(e, g)
    BY <1>2, <1>5 DEF Earlier
<1> QED
    BY <1>3, <1>4, <1>5

\* The matches in their order are all of the matches.
LEMMA SortedTyped ==
    ASSUME NEW t, GoodText(t)
    PROVE  /\ Len(Sorted(t)) \in Nat /\ DOMAIN Sorted(t) = 1 .. Len(Sorted(t))
           /\ \A n \in DOMAIN Sorted(t) : Sorted(t)[n] \in t.matches
           /\ Range(Sorted(t)) = t.matches
<1> DEFINE found == t.matches
           N == Cardinality(found)
           before(f) == {g \in found : Earlier(g, f)}
           rank == [f \in found |-> Cardinality(before(f))]
<1>1. /\ IsFiniteSet(found) /\ N \in Nat
      /\ \A f \in found : ~Earlier(f, f)
      /\ \A f, g \in found : f = g \/ Earlier(f, g) \/ Earlier(g, f)
      /\ \A e, f, g \in found : Earlier(e, f) /\ Earlier(f, g) => Earlier(e, g)
  <2>1. IsFiniteSet(found)
    BY DEF GoodText
  <2> QED
    BY <2>1, EarlierOrders, FS_CardinalityType
<1>2. Sorted(t) = [n \in 1 .. N |-> CHOOSE f \in found : Cardinality(before(f)) = n - 1]
    BY DEF Sorted
<1> HIDE DEF found
<1>3. \A f \in found : /\ before(f) \subseteq found /\ f \notin before(f)
                       /\ IsFiniteSet(before(f)) /\ Cardinality(before(f)) \in Nat
  <2> TAKE f \in found
  <2>1. before(f) \subseteq found /\ f \notin before(f)
    BY <1>1
  <2> HIDE DEF before
  <2> QED
    BY <1>1, <2>1, FS_Subset, FS_CardinalityType
<1>4. ASSUME NEW f \in found, NEW g \in found, Earlier(f, g)
      PROVE  Cardinality(before(f)) # Cardinality(before(g))
  <2>1. before(f) \subseteq before(g) /\ f \in before(g)
    BY <1>1, <1>4
  <2>2. IsFiniteSet(before(g)) /\ f \notin before(f)
    BY <1>3
  <2> HIDE DEF before
  <2> QED
    BY <2>1, <2>2, FS_Subset
<1>5. \A f \in found : Cardinality(before(f)) \in 0 .. N - 1
  <2> TAKE f \in found
  <2>1. before(f) \subseteq found /\ f \notin before(f) /\ Cardinality(before(f)) \in Nat
    BY <1>3
  <2> HIDE DEF before
  <2>2. Cardinality(before(f)) <= N /\ Cardinality(before(f)) # N
    BY <1>1, <2>1, FS_Subset
  <2> QED
    BY <1>1, <2>1, <2>2
<1> HIDE DEF before
<1>6. rank \in Injection(found, 0 .. N - 1)
  <2>1. rank \in [found -> 0 .. N - 1]
    BY <1>5
  <2>2. ASSUME NEW f \in found, NEW g \in found, f # g PROVE rank[f] # rank[g]
    <3>1. Earlier(f, g) \/ Earlier(g, f)
      BY <1>1, <2>2
    <3>2. Cardinality(before(f)) # Cardinality(before(g))
      BY <1>4, <3>1
    <3> QED
      BY <3>2
  <2> HIDE DEF rank
  <2> QED
    BY <2>1, <2>2 DEF Injection, IsInjective
<1>7. IsFiniteSet(0 .. N - 1) /\ Cardinality(0 .. N - 1) = N
  <2>1. 0 \in Int /\ N - 1 \in Int
    BY <1>1
  <2>2. IsFiniteSet(0 .. N - 1) /\ Cardinality(0 .. N - 1) = IF 0 > N - 1 THEN 0 ELSE (N - 1) - 0 + 1
    BY <2>1, FS_Interval
  <2> HIDE DEF N
  <2> QED
    BY <1>1, <2>2
<1>8. \A n \in 0 .. N - 1 : \E f \in found : Cardinality(before(f)) = n
  <2>1. rank \in Surjection(found, 0 .. N - 1)
    <3> HIDE DEF rank, N
    <3>1. Cardinality(found) = Cardinality(0 .. N - 1)
      BY <1>7 DEF N
    <3> QED
      BY <1>6, <1>7, <3>1, FS_Injection
  <2>2. \A n \in 0 .. N - 1 : \E f \in found : rank[f] = n
    <3> HIDE DEF rank, N
    <3> QED
      BY <2>1 DEF Surjection
  <2> QED
    BY <2>2
<1>9. \A n \in 1 .. N : Sorted(t)[n] \in found /\ Cardinality(before(Sorted(t)[n])) = n - 1
  <2> TAKE n \in 1 .. N
  <2>1. n - 1 \in 0 .. N - 1
    BY <1>1
  <2>2. \E f \in found : Cardinality(before(f)) = n - 1
    BY <1>8, <2>1
  <2>3. Sorted(t)[n] = CHOOSE f \in found : Cardinality(before(f)) = n - 1
    BY <1>2
  <2> QED
    BY <2>2, <2>3
<1>10. ASSUME NEW f \in found PROVE f \in Range(Sorted(t))
  <2> DEFINE n == Cardinality(before(f)) + 1
  <2>1. n \in 1 .. N /\ n - 1 = Cardinality(before(f))
    BY <1>1, <1>5
  <2> HIDE DEF n
  <2>2. Sorted(t)[n] \in found /\ Cardinality(before(Sorted(t)[n])) = Cardinality(before(f))
    BY <1>9, <2>1
  <2>3. Sorted(t)[n] = f
    BY <1>1, <1>4, <2>2
  <2> QED
    BY <1>2, <2>1, <2>3 DEF Range
<1>11. DOMAIN Sorted(t) = 1 .. N /\ Len(Sorted(t)) = N
    BY <1>1, <1>2
<1> QED
    BY <1>1, <1>9, <1>10, <1>11 DEF Range, found

\* A text that is not dropped is scanned to its end.
LEMMA FindingsTyped ==
    ASSUME NEW t, GoodText(t), ~Dropped(t)
    PROVE  Findings(t) = Sorted(t)
<1> DEFINE all == Sorted(t)
           I == {i \in 1 .. Len(all) : Drops(all[i])}
<1>1. I = {}
    BY SortedTyped DEF Dropped
<1>2. SelectInSeq(all, Drops) = 0
    BY <1>1 DEF SelectInSeq
<1> QED
    BY <1>2 DEF Findings

-----------------------------------------------------------------------------
(* PIIScreen: replacements.                                                *)

AnyChar == Letters \cup {Mark}

\* The text with marks at the positions D.
Marked(chars, D) == [k \in DOMAIN chars |-> IF k \in D THEN Mark ELSE chars[k]]

LEMMA MarkedTyped ==
    ASSUME NEW chars \in Seq(Letters), NEW D
    PROVE  Marked(chars, D) \in Seq(AnyChar) /\ Len(Marked(chars, D)) = Len(chars)
<1>1. DOMAIN chars = 1 .. Len(chars) /\ Len(chars) \in Nat
      /\ \A k \in DOMAIN chars : chars[k] \in AnyChar /\ Mark \in AnyChar
    BY DEF AnyChar
<1>2. Marked(chars, D) \in [1 .. Len(chars) -> AnyChar]
  <2> HIDE DEF AnyChar
  <2> QED
    BY <1>1 DEF Marked
<1> HIDE DEF AnyChar
<1> QED
    BY <1>1, <1>2

LEMMA UnmarkedIsSans ==
    ASSUME NEW s
    PROVE  Unmarked(s) = Sans(s, {Mark})
<1>1. \A k \in DOMAIN s : k \in {i \in DOMAIN s : s[i] = Mark} <=> k \in {i \in DOMAIN s : s[i] \in {Mark}}
    OBVIOUS
<1> QED
    BY <1>1, WithoutSame DEF Unmarked, Sans

\* A text without its marks is the text that was not replaced.
LEMMA UnmarkedMarked ==
    ASSUME NEW chars \in Seq(Letters), NEW D
    PROVE  Unmarked(Marked(chars, D)) = Without(chars, D)
<1> DEFINE s == Marked(chars, D)
           E == {k \in DOMAIN s : s[k] = Mark}
<1>1. DOMAIN s = DOMAIN chars
    BY DEF Marked
<1>2. ASSUME NEW k \in DOMAIN chars
      PROVE  (k \in E <=> k \in D) /\ (k \notin D => s[k] = chars[k])
  <2>1. chars[k] # Mark
    <3>1. chars[k] \in Letters
      OBVIOUS
    <3> QED
      BY <3>1, LettersAssumption
  <2> QED
    BY <1>1, <2>1 DEF Marked
<1>3. Unmarked(s) = FlattenSeq(Picked(s, E))
    BY DEF Unmarked, Without, Picked
<1> HIDE DEF s, E
<1>4. Picked(s, E) = Picked(chars, D)
    BY <1>1, <1>2 DEF Picked
<1> QED
    BY <1>3, <1>4 DEF Without, Picked, s

Span(f) == f[2] .. f[3]
SpansUpto(t, n) == UNION {Span(Sorted(t)[m]) : m \in 1 .. n}

\* Both sides of a span.
LEMMA ReplaceParts ==
    ASSUME NEW s \in Seq(AnyChar), NEW a \in Nat \ {0}, NEW b \in Nat, a <= b, b <= Len(s)
    PROVE  /\ Upto(s, a - 1) \in Seq(AnyChar) /\ Len(Upto(s, a - 1)) = a - 1
           /\ \A k \in 1 .. a - 1 : Upto(s, a - 1)[k] = s[k]
           /\ SubSeq(s, b + 1, Len(s)) \in Seq(AnyChar) /\ Len(SubSeq(s, b + 1, Len(s))) = Len(s) - b
           /\ \A k \in 1 .. Len(s) - b : SubSeq(s, b + 1, Len(s))[k] = s[k + b]
<1> HIDE DEF AnyChar
<1>0. Len(s) \in Nat /\ a - 1 < Len(s) /\ a - 1 \in Nat /\ b + 1 \in Nat \ {0} /\ b + 1 <= Len(s) + 1
    OBVIOUS
<1>1. Upto(s, a - 1) = SubSeq(s, 1, a - 1)
    BY <1>0 DEF Upto
<1>2. SubSeq(s, 1, a - 1) \in Seq(AnyChar) /\ Len(SubSeq(s, 1, a - 1)) = a - 1
      /\ \A k \in 1 .. a - 1 : SubSeq(s, 1, a - 1)[k] = s[k]
    BY <1>0
<1>3. SubSeq(s, b + 1, Len(s)) \in Seq(AnyChar) /\ Len(SubSeq(s, b + 1, Len(s))) = Len(s) - b
    BY <1>0, SubSeqProperties
<1>4. ASSUME NEW k \in 1 .. Len(s) - b PROVE SubSeq(s, b + 1, Len(s))[k] = s[k + b]
  <2>1. k \in 1 .. Len(s) - (b + 1) + 1 /\ (b + 1) + k - 1 = k + b
    BY <1>0
  <2> QED
    BY <1>0, <2>1, SubSeqProperties
<1> QED
    BY <1>1, <1>2, <1>3, <1>4

AllMarks(s) == s \in Seq(AnyChar) /\ \A k \in DOMAIN s : s[k] = Mark

\* f is a finding in the text; s is as many marks as its span is long.
Finds(f, chars) ==
    /\ f[1] \in Categories /\ f[2] \in Nat \ {0} /\ f[3] \in Nat
    /\ f[2] <= f[3] /\ f[3] <= Len(chars)
Fills(s, f) == AllMarks(s) /\ Len(s) = f[3] - f[2] + 1

\* s with the span of f replaced.
Replaced(s, f, marks) == Upto(s, f[2] - 1) \o marks \o SubSeq(s, f[3] + 1, Len(s))

\* A span overwritten by as many marks.
LEMMA Overwrites ==
    ASSUME NEW chars \in Seq(Letters), NEW D, NEW f, Finds(f, chars), NEW marks, Fills(marks, f)
    PROVE  Replaced(Marked(chars, D), f, marks) = Marked(chars, D \cup Span(f))
<1> DEFINE a == f[2]
           b == f[3]
<1>a. a \in Nat \ {0} /\ b \in Nat /\ a <= b /\ b <= Len(chars) /\ Span(f) = a .. b
    BY DEF Finds, Span
<1>b. AllMarks(marks) /\ Len(marks) = b - a + 1
    BY DEF Fills
<1>c. \A s : Replaced(s, f, marks) = Upto(s, a - 1) \o marks \o SubSeq(s, b + 1, Len(s))
    BY DEF Replaced
<1> HIDE DEF a, b
<1> DEFINE s == Marked(chars, D)
           left == Upto(s, a - 1)
           right == SubSeq(s, b + 1, Len(s))
           t == Marked(chars, D \cup (a .. b))
           w == left \o marks \o right
<1>0. /\ marks \in Seq(AnyChar) /\ Len(marks) = b - a + 1 /\ Len(marks) \in Nat
      /\ DOMAIN marks = 1 .. Len(marks) /\ \A k \in DOMAIN marks : marks[k] = Mark
    BY <1>b DEF AllMarks
<1> USE <1>a
<1>1. s \in Seq(AnyChar) /\ Len(s) = Len(chars) /\ t \in Seq(AnyChar) /\ Len(t) = Len(chars) /\ Len(chars) \in Nat
    BY MarkedTyped
<1>2. \A k \in 1 .. Len(chars) : s[k] = (IF k \in D THEN Mark ELSE chars[k])
                               /\ t[k] = (IF k \in D \cup (a .. b) THEN Mark ELSE chars[k])
    BY DEF Marked
<1> HIDE DEF s, t, AnyChar
<1>3. /\ left \in Seq(AnyChar) /\ Len(left) = a - 1 /\ \A k \in 1 .. a - 1 : left[k] = s[k]
      /\ right \in Seq(AnyChar) /\ Len(right) = Len(chars) - b
      /\ \A k \in 1 .. Len(chars) - b : right[k] = s[k + b]
  <2>1. b <= Len(s)
    BY <1>1
  <2>2. /\ left \in Seq(AnyChar) /\ Len(left) = a - 1 /\ \A k \in 1 .. a - 1 : left[k] = s[k]
        /\ right \in Seq(AnyChar) /\ Len(right) = Len(s) - b
        /\ \A k \in 1 .. Len(s) - b : right[k] = s[k + b]
    BY <1>1, <2>1, ReplaceParts
  <2> QED
    BY <1>1, <2>2
<1> HIDE DEF left, right
<1>4. left \o marks \in Seq(AnyChar) /\ Len(left \o marks) = b
      /\ (\A k \in 1 .. a - 1 : (left \o marks)[k] = s[k])
      /\ (\A k \in a .. b : (left \o marks)[k] = Mark)
  <2>0. left \o marks \in Seq(AnyChar) /\ Len(left \o marks) = Len(left) + Len(marks)
    BY <1>0, <1>3, ConcatProperties
  <2>1. left \o marks \in Seq(AnyChar) /\ Len(left \o marks) = b
    BY <1>0, <1>3, <2>0
  <2>2. \A k \in 1 .. a - 1 : (left \o marks)[k] = s[k]
    BY <1>0, <1>3, ConcatProperties
  <2>3. ASSUME NEW k \in a .. b PROVE (left \o marks)[k] = Mark
    <3>1. k \in 1 .. Len(left) + Len(marks) /\ k > Len(left) /\ k - Len(left) \in DOMAIN marks
      BY <1>0, <1>3
    <3>2. (left \o marks)[k] = marks[k - Len(left)]
      <4>1. k \in 1 .. Len(left) + Len(marks) /\ ~(k <= Len(left))
        BY <1>3, <3>1
      <4>2. left \in Seq(AnyChar) /\ marks \in Seq(AnyChar)
        BY <1>0, <1>3
      <4> QED
        BY ONLY <4>1, <4>2, ConcatProperties
    <3> QED
      BY <1>0, <3>1, <3>2
  <2> QED
    BY <2>1, <2>2, <2>3
<1> DEFINE front == left \o marks
<1> HIDE DEF front
<1>5. front \in Seq(AnyChar) /\ Len(front) = b /\ w = front \o right
    BY <1>4 DEF front
<1> HIDE DEF w
<1>6. w \in Seq(AnyChar) /\ Len(w) = Len(chars)
    BY <1>1, <1>3, <1>5, ConcatProperties
<1>7. ASSUME NEW k \in 1 .. Len(chars) PROVE w[k] = t[k]
  <2>1. CASE k <= b
    <3>1. w[k] = front[k]
      BY <1>3, <1>5, <2>1, ConcatProperties
    <3>2. CASE k < a
      <4>1. front[k] = s[k] /\ k \notin a .. b /\ k \in 1 .. a - 1
        BY <1>4, <3>2 DEF front
      <4> QED
        BY <1>2, <3>1, <4>1
    <3>3. CASE k >= a
      <4>1. k \in a .. b
        BY <2>1, <3>3
      <4>2. front[k] = Mark
        BY <1>4, <4>1 DEF front
      <4> QED
        BY <1>2, <3>1, <4>1, <4>2
    <3> QED
      BY <3>2, <3>3
  <2>2. CASE k > b
    <3>1. k - b \in 1 .. Len(chars) - b /\ (k - b) + b = k /\ k \notin a .. b
      BY <1>1, <2>2
    <3>2. w[k] = right[k - b]
      <4>1. k \in 1 .. Len(front) + Len(right) /\ ~(k <= Len(front)) /\ k - Len(front) = k - b
        BY <1>1, <1>3, <1>5, <2>2
      <4>2. (front \o right)[k] = right[k - Len(front)]
        BY <1>3, <1>5, <4>1, ConcatProperties
      <4> QED
        BY <1>5, <4>1, <4>2
    <3>3. right[k - b] = s[k]
      BY <1>3, <3>1
    <3> QED
      BY <1>2, <3>1, <3>2, <3>3
  <2> QED
    BY <2>1, <2>2
<1>8. w = t
    BY <1>1, <1>6, <1>7, SeqEqual
<1> QED
    BY <1>8, <1>c DEF w, left, right, s, t

\* cut[n] is the text after the first n replacements.
OneCut(cut, chars, found, n) == IF n = 0 THEN chars ELSE ReplaceSpan(cut[n - 1], found[n])
Cuts(cut, chars, found, m) == \A n \in 0 .. m : cut[n] = OneCut(cut, chars, found, n)
CutFunction(cut, chars, found) == cut = [n \in 0 .. Len(found) |-> OneCut(cut, chars, found, n)]

LEMMA CutsExist ==
    ASSUME NEW chars, NEW found, Len(found) \in Nat
    PROVE  \E cut : CutFunction(cut, chars, found)
<1> DEFINE P == {m \in Nat : \E cut : Cuts(cut, chars, found, m)}
<1>1. 0 \in P
  <2> DEFINE g == [n \in 0 .. 0 |-> chars]
  <2>1. Cuts(g, chars, found, 0)
    BY DEF Cuts, OneCut
  <2> HIDE DEF g
  <2> QED
    BY <2>1
<1>2. ASSUME NEW m \in P PROVE m + 1 \in P
  <2> PICK cut : Cuts(cut, chars, found, m)
    OBVIOUS
  <2> DEFINE g == [n \in 0 .. m + 1 |-> IF n = m + 1 THEN OneCut(cut, chars, found, n) ELSE cut[n]]
  <2>1. ASSUME NEW n \in 0 .. m + 1 PROVE g[n] = OneCut(g, chars, found, n)
    <3>1. g[n] = OneCut(cut, chars, found, n)
      BY DEF Cuts
    <3>2. n # 0 => g[n - 1] = cut[n - 1]
      OBVIOUS
    <3> HIDE DEF g
    <3> QED
      BY <3>1, <3>2 DEF OneCut
  <2> HIDE DEF g
  <2>2. Cuts(g, chars, found, m + 1)
    BY <2>1 DEF Cuts
  <2> QED
    BY <2>2
<1>3. Nat \subseteq P
  <2> HIDE DEF P
  <2> QED
    BY <1>1, <1>2, AllNaturals
<1>4. PICK cut : Cuts(cut, chars, found, Len(found))
    BY <1>3
<1> DEFINE g == [n \in 0 .. Len(found) |-> cut[n]]
<1>5. ASSUME NEW n \in 0 .. Len(found) PROVE g[n] = OneCut(g, chars, found, n)
  <2>1. g[n] = OneCut(cut, chars, found, n) /\ (n # 0 => g[n - 1] = cut[n - 1])
    BY <1>4 DEF Cuts
  <2> HIDE DEF g
  <2> QED
    BY <2>1 DEF OneCut
<1>6. g = [n \in 0 .. Len(found) |-> OneCut(g, chars, found, n)]
    BY <1>5
<1> QED
    BY <1>6 DEF CutFunction

\* Sanitized takes the last of them.
LEMMA SanitizedIsLast ==
    ASSUME NEW t, Len(Findings(t)) \in Nat
    PROVE  \E cut : /\ Cuts(cut, t.chars, Findings(t), Len(Findings(t)))
                    /\ Sanitized(t) = cut[Len(Findings(t))]
<1> DEFINE found == Findings(t)
           cut == CHOOSE h : CutFunction(h, t.chars, found)
<1>1. CutFunction(cut, t.chars, found)
    BY CutsExist
<1>2. Sanitized(t) = cut[Len(found)]
    BY DEF Sanitized, CutFunction, OneCut
<1> HIDE DEF cut, found
<1>3. Cuts(cut, t.chars, found, Len(found))
    BY <1>1 DEF CutFunction, Cuts
<1> QED
    BY <1>2, <1>3 DEF found

LEMMA MarksTyped ==
    ASSUME NEW f, f[1] \in Categories
    PROVE  /\ Marks(f) \in Seq(AnyChar) /\ Len(Marks(f)) = Length[f[1]]
           /\ \A k \in DOMAIN Marks(f) : Marks(f)[k] = Mark
<1>1. Length[f[1]] \in Nat
    BY PatternsAssumption
<1>2. Mark \in AnyChar
    BY DEF AnyChar
<1> HIDE DEF AnyChar
<1> QED
    BY <1>1, <1>2 DEF Marks

LEMMA UnmarkedConcat ==
    ASSUME NEW s \in Seq(AnyChar), NEW t \in Seq(AnyChar)
    PROVE  /\ Unmarked(s \o t) = Unmarked(s) \o Unmarked(t)
           /\ Unmarked(s) \in Seq(AnyChar)
<1> DEFINE X == {Mark}
<1>1. Unmarked(s \o t) = Sans(s \o t, X) /\ Unmarked(s) = Sans(s, X) /\ Unmarked(t) = Sans(t, X)
    BY UnmarkedIsSans
<1> HIDE DEF X, AnyChar
<1>2. Sans(s \o t, X) = Sans(s, X) \o Sans(t, X)
    BY SansConcat, SMTT(30)
<1>3. Sans(s, X) \in Seq(AnyChar)
    BY SansTyped
<1> QED
    BY <1>1, <1>2, <1>3

LEMMA UnmarkedMarks ==
    ASSUME NEW s, AllMarks(s)
    PROVE  Unmarked(s) = <<>>
<1>1. s \in Seq(AnyChar) /\ DOMAIN s \subseteq {k \in DOMAIN s : s[k] = Mark}
    BY DEF AllMarks
<1> QED
    BY <1>1, WithoutAll DEF Unmarked

\* A replacement of the length of its span.
LEMMA ReplaceOverwrites ==
    ASSUME NEW chars \in Seq(Letters), NEW D, NEW f, Finds(f, chars), Length[f[1]] = f[3] - f[2] + 1
    PROVE  ReplaceSpan(Marked(chars, D), f) = Marked(chars, D \cup Span(f))
<1>1. Fills(Marks(f), f)
    BY MarksTyped DEF AllMarks, Fills, Finds
<1>2. ReplaceSpan(Marked(chars, D), f) = Replaced(Marked(chars, D), f, Marks(f))
    BY DEF ReplaceSpan, Replaced
<1>3. Replaced(Marked(chars, D), f, Marks(f)) = Marked(chars, D \cup Span(f))
    BY <1>1, Overwrites
<1> QED
    BY <1>2, <1>3

\* A replacement of any length, but for its marks.
LEMMA ReplaceUnmarked ==
    ASSUME NEW chars \in Seq(Letters), NEW D, NEW f, Finds(f, chars)
    PROVE  Unmarked(ReplaceSpan(Marked(chars, D), f)) = Unmarked(Marked(chars, D \cup Span(f)))
<1> DEFINE s == Marked(chars, D)
           a == f[2]
           b == f[3]
           left == Upto(s, a - 1)
           right == SubSeq(s, b + 1, Len(s))
           mid == [k \in 1 .. b - a + 1 |-> Mark]
           m == Marks(f)
<1>1. ReplaceSpan(s, f) = Replaced(s, f, m)
    BY DEF ReplaceSpan, Replaced
<1>2. AllMarks(m)
    BY MarksTyped DEF AllMarks, Finds
<1>3. s \in Seq(AnyChar) /\ Len(s) = Len(chars)
    BY MarkedTyped
<1>4. Mark \in AnyChar
    BY DEF AnyChar
<1>5. a \in Nat \ {0} /\ b \in Nat /\ a <= b /\ b <= Len(s)
    BY <1>3 DEF Finds
<1>c. \A t : Replaced(s, f, t) = left \o t \o right
    BY DEF Replaced
<1>e. \A t : Fills(t, f) <=> AllMarks(t) /\ Len(t) = b - a + 1
    BY DEF Fills
<1> HIDE DEF a, b, m, s
<1>6. AllMarks(mid) /\ Fills(mid, f)
  <2>1. AllMarks(mid)
    BY <1>4, <1>5 DEF AllMarks
  <2>2. Len(mid) = b - a + 1
    BY <1>5
  <2> QED
    BY <1>e, <2>1, <2>2
<1> HIDE DEF mid
<1>7. Replaced(s, f, mid) = Marked(chars, D \cup Span(f))
    BY <1>6, Overwrites DEF s
<1>8. left \in Seq(AnyChar) /\ right \in Seq(AnyChar)
    BY <1>3, <1>5, ReplaceParts
<1> HIDE DEF left, right
<1>9. ASSUME NEW t, AllMarks(t)
      PROVE  Unmarked(Replaced(s, f, t)) = Unmarked(left) \o Unmarked(right)
  <2> DEFINE u == left \o t
  <2>1. t \in Seq(AnyChar) /\ u \in Seq(AnyChar)
    BY <1>8, <1>9, ConcatProperties DEF AllMarks
  <2>2. Unmarked(left \o t) = Unmarked(left) \o Unmarked(t) /\ Unmarked(left) \in Seq(AnyChar)
    BY <1>8, <2>1, UnmarkedConcat
  <2>3. Unmarked(t) = <<>>
    BY <1>9, UnmarkedMarks
  <2>4. Unmarked(left) \o <<>> = Unmarked(left)
    BY <2>2
  <2>6. Replaced(s, f, t) = u \o right
    BY <1>c
  <2> HIDE DEF u
  <2>5. Unmarked(u \o right) = Unmarked(u) \o Unmarked(right)
    BY <1>8, <2>1, UnmarkedConcat
  <2>7. Unmarked(u) = Unmarked(left)
    BY <2>2, <2>3, <2>4 DEF u
  <2> QED
    BY <2>5, <2>6, <2>7
<1>10. Unmarked(Replaced(s, f, m)) = Unmarked(Replaced(s, f, mid))
    BY <1>2, <1>6, <1>9
<1> QED
    BY <1>1, <1>7, <1>10 DEF s

\* All of every match is gone and nothing else.
LEMMA SanitizedSpans ==
    ASSUME NEW t, GoodText(t), ~Dropped(t),
           \A n \in 1 .. Len(Sorted(t)) - 1 :
                Length[Sorted(t)[n][1]] = Sorted(t)[n][3] - Sorted(t)[n][2] + 1
    PROVE  Unmarked(Sanitized(t)) = Outside(t)
<1> DEFINE found == Sorted(t)
           N == Len(found)
           covered(n) == SpansUpto(t, n)
<1>1. /\ N \in Nat /\ DOMAIN found = 1 .. N
      /\ \A n \in 1 .. N : found[n] \in t.matches
      /\ Range(found) = t.matches
    BY SortedTyped
<1>2. PICK cut : Cuts(cut, t.chars, found, N) /\ Sanitized(t) = cut[N]
    BY <1>1, FindingsTyped, SanitizedIsLast
<1>3. \A n \in 1 .. N : Finds(found[n], t.chars)
  <2> TAKE n \in 1 .. N
  <2>1. found[n] \in t.matches
    BY <1>1
  <2>2. found[n][1] \in Categories /\ found[n][2] \in Nat \ {0} /\ found[n][3] \in Nat
        /\ found[n][2] <= found[n][3] /\ found[n][3] <= Len(t.chars)
    BY <2>1 DEF GoodText
  <2> HIDE DEF found
  <2> QED
    BY <2>2 DEF Finds
<1>4. \A n \in 1 .. N - 1 : Length[found[n][1]] = found[n][3] - found[n][2] + 1
    OBVIOUS
<1>s. t.chars \in Seq(Letters)
    BY DEF GoodText
<1> HIDE DEF N, found
<1>5. covered(0) = {} /\ \A n \in Nat : covered(n + 1) = covered(n) \cup Span(found[n + 1])
    BY DEF SpansUpto, found
<1>6. covered(N) = UNION {f[2] .. f[3] : f \in t.matches}
    BY <1>1 DEF SpansUpto, Span, Range, found
<1> HIDE DEF covered
<1>7. \A n \in Nat : n <= N - 1 \/ n = 0 => cut[n] = Marked(t.chars, covered(n))
  <2> DEFINE P == {n \in Nat : n <= N - 1 \/ n = 0 => cut[n] = Marked(t.chars, covered(n))}
  <2>1. 0 \in P
    <3>1. cut[0] = t.chars
      BY <1>1, <1>2 DEF Cuts, OneCut
    <3>2. Marked(t.chars, {}) = t.chars
      BY <1>s DEF Marked
    <3> QED
      BY <1>5, <3>1, <3>2
  <2>2. ASSUME NEW n \in P PROVE n + 1 \in P
    <3> SUFFICES ASSUME n + 1 <= N - 1 PROVE cut[n + 1] = Marked(t.chars, covered(n + 1))
      OBVIOUS
    <3> DEFINE f == found[n + 1]
               D == covered(n)
    <3>1. cut[n] = Marked(t.chars, D) /\ n + 1 \in 1 .. N - 1 /\ n + 1 \in 1 .. N
      BY <1>1
    <3>2. cut[n + 1] = ReplaceSpan(Marked(t.chars, D), f)
      <4>1. (n + 1) - 1 = n /\ n + 1 # 0 /\ n + 1 \in 0 .. N
        BY <3>1
      <4> QED
        BY <1>2, <3>1, <4>1 DEF Cuts, OneCut
    <3>3. /\ Finds(f, t.chars)
          /\ Length[f[1]] = f[3] - f[2] + 1
      BY <1>3, <1>4, <3>1
    <3>4. covered(n + 1) = D \cup Span(f)
      BY <1>5
    <3> HIDE DEF f, D
    <3> QED
      BY <1>s, <3>2, <3>3, <3>4, ReplaceOverwrites
  <2>3. Nat \subseteq P
    <3> HIDE DEF P
    <3> QED
      BY <2>1, <2>2, AllNaturals
  <2> QED
    BY <2>3
<1>8. Unmarked(cut[N]) = Without(t.chars, covered(N))
  <2>1. CASE N = 0
    <3>1. cut[N] = Marked(t.chars, covered(N))
      BY <1>7, <2>1
    <3> QED
      BY <1>s, <3>1, UnmarkedMarked
  <2>2. CASE N # 0
    <3> DEFINE f == found[N]
               D == covered(N - 1)
    <3>1. N - 1 \in Nat /\ N \in 1 .. N /\ (N - 1) + 1 = N
      BY <1>1, <2>2
    <3>2. cut[N - 1] = Marked(t.chars, D)
      BY <1>7, <3>1
    <3>3. cut[N] = ReplaceSpan(Marked(t.chars, D), f)
      BY <1>1, <1>2, <2>2, <3>1, <3>2 DEF Cuts, OneCut
    <3>4. Finds(f, t.chars)
      BY <1>3, <3>1
    <3>5. covered(N) = D \cup Span(f)
      BY <1>5, <3>1
    <3> HIDE DEF f, D
    <3> QED
      BY <1>s, <3>3, <3>4, <3>5, ReplaceUnmarked, UnmarkedMarked
  <2> QED
    BY <2>1, <2>2
<1> QED
    BY <1>2, <1>6, <1>8 DEF Outside

-----------------------------------------------------------------------------
(* PIIScreen: types.                                                       *)

\* A batch is screened twice only after a mismatch, and then as declared.
ScreenTyped ==
    /\ declared \in BOOLEAN /\ detected \in BOOLEAN
    /\ step \in {"none", "waiting", "screening", "mismatch", "review", "ok", "aborted", "error"}
    /\ batch \in Batches \/ (step = "none" /\ batch = <<>>)
    /\ round \in 0 .. 2 /\ chunk_index \in 0 .. Len(batch) + 1
    /\ step \in {"none", "waiting"} => round = 0 /\ audit = {} /\ rows = {}
    /\ step \notin {"none", "waiting"} => round >= 1 /\ chunk_index >= 1
    /\ step \in {"mismatch", "review"} => ~declared
    /\ ~declared => round <= 1
    /\ \A row \in rows \cup audit : row[1] \in 1 .. round /\ row[2] \in DOMAIN batch

LEMMA BatchTyped ==
    ASSUME ScreenTyped
    PROVE  /\ Len(batch) \in Nat /\ DOMAIN batch = 1 .. Len(batch)
           /\ \A i \in DOMAIN batch : GoodText(batch[i])
<1>1. CASE batch \in Batches
    BY <1>1, BatchTextsTyped
<1>2. CASE batch = <<>>
  <2>1. Len(batch) = 0 /\ DOMAIN batch = {} /\ 1 .. 0 = {}
    BY <1>2
  <2> QED
    BY <2>1
<1> QED
    BY <1>1, <1>2 DEF ScreenTyped

LEMMA ScreenTypedInit == ScreenInit \/ ScreenIdle => ScreenTyped
<1>1. ASSUME ScreenInit PROVE ScreenTyped
  <2>1. /\ batch \in Batches /\ declared \in BOOLEAN /\ step = "waiting" /\ round = 0
        /\ chunk_index = 0 /\ detected = FALSE /\ rows = {} /\ audit = {}
    BY <1>1 DEF ScreenInit
  <2>2. Len(batch) \in Nat
    BY <2>1, BatchTextsTyped
  <2>3. round \in 0 .. 2 /\ chunk_index \in 0 .. Len(batch) + 1 /\ round <= 1
    BY <2>1, <2>2
  <2>4. detected \in BOOLEAN
    BY <2>1
  <2> QED
    BY <2>1, <2>3, <2>4 DEF ScreenTyped
<1>2. ASSUME ScreenIdle PROVE ScreenTyped
  <2>1. /\ batch = <<>> /\ declared = FALSE /\ step = "none" /\ round = 0
        /\ chunk_index = 0 /\ detected = FALSE /\ rows = {} /\ audit = {}
    BY <1>2 DEF ScreenIdle
  <2>2. Len(batch) = 0
    BY <2>1
  <2>3. round \in 0 .. 2 /\ chunk_index \in 0 .. Len(batch) + 1 /\ round <= 1
    BY <2>1, <2>2
  <2>4. detected \in BOOLEAN /\ declared \in BOOLEAN
    BY <2>1
  <2> QED
    BY <2>1, <2>3, <2>4 DEF ScreenTyped
<1> QED
    BY <1>1, <1>2

LEMMA CallTyped ==
    ASSUME ScreenTyped, batch \in Batches, round <= 1, NEW pii \in BOOLEAN, ~pii => round = 0,
           Call(batch, pii)
    PROVE  ScreenTyped'
<1>1. /\ batch' = batch /\ declared' = pii /\ step' = "screening" /\ round' = round + 1
      /\ chunk_index' = 1 /\ detected' = FALSE /\ rows' = {} /\ audit' = audit
    BY DEF Call
<1>2. Len(batch) \in Nat
    BY BatchTyped
<1>3. round \in 0 .. 1
    BY DEF ScreenTyped
<1>4. round' \in 0 .. 2 /\ round' >= 1 /\ chunk_index' \in 0 .. Len(batch') + 1 /\ chunk_index' >= 1
    BY <1>1, <1>2, <1>3
<1>5. \A row \in rows' \cup audit' : row[1] \in 1 .. round' /\ row[2] \in DOMAIN batch'
  <2> TAKE row \in rows' \cup audit'
  <2>1. row \in audit
    BY <1>1
  <2>2. row[1] \in 1 .. round /\ row[2] \in DOMAIN batch
    BY <2>1 DEF ScreenTyped
  <2> QED
    BY <1>1, <1>3, <2>2
<1>6. ~declared' => round' <= 1
    BY <1>1, <1>3
<1>7. detected' \in BOOLEAN /\ declared' \in BOOLEAN /\ batch' \in Batches
    BY <1>1
<1> QED
    BY <1>1, <1>4, <1>5, <1>6, <1>7 DEF ScreenTyped

LEMMA ScreenTypedStep ==
    ASSUME ScreenTyped, ScreenNext
    PROVE  ScreenTyped'
<1>1. Len(batch) \in Nat /\ DOMAIN batch = 1 .. Len(batch)
    BY BatchTyped
<1>2. CASE Begin
  <2>1. step = "waiting" /\ Call(batch, declared)
    BY <1>2 DEF Begin
  <2>2. round = 0 /\ batch \in Batches /\ declared \in BOOLEAN /\ round <= 1
    BY <2>1 DEF ScreenTyped
  <2> QED
    BY <2>1, <2>2, CallTyped
<1>3. CASE Resume
  <2>1. step = "review" /\ Call(batch, TRUE)
    BY <1>3 DEF Resume
  <2>2. round <= 1 /\ batch \in Batches
    BY <2>1 DEF ScreenTyped
  <2> QED
    BY <2>1, <2>2, CallTyped
<1>4. CASE ScreenChunk
  <2> DEFINE t == batch[chunk_index]
  <2>1. /\ step = "screening" /\ chunk_index <= Len(batch) /\ chunk_index' = chunk_index + 1
        /\ detected' = (detected \/ Findings(t) # <<>>)
        /\ rows' = rows \cup RowsOf(chunk_index)
        /\ batch' = batch /\ declared' = declared /\ step' = step /\ round' = round /\ audit' = audit
    BY <1>4 DEF ScreenChunk
  <2>2. chunk_index \in 1 .. Len(batch) /\ chunk_index' \in 0 .. Len(batch) + 1 /\ chunk_index' >= 1
    BY <1>1, <2>1 DEF ScreenTyped
  <2>3. round \in 1 .. round
    BY <2>1 DEF ScreenTyped
  <2>4. \A row \in rows' \cup audit' : row[1] \in 1 .. round' /\ row[2] \in DOMAIN batch'
    BY <1>1, <2>1, <2>2, <2>3 DEF ScreenTyped, RowsOf
  <2>5. detected' \in BOOLEAN
    BY <2>1
  <2> QED
    BY <2>1, <2>2, <2>4, <2>5 DEF ScreenTyped
<1>5. CASE ScreenFails
  <2>1. /\ step = "screening" /\ step' = "error" /\ rows' = {} /\ audit' \subseteq audit \cup rows
        /\ batch' = batch /\ declared' = declared /\ round' = round /\ chunk_index' = chunk_index
        /\ detected' = detected
    BY <1>5 DEF ScreenFails
  <2> QED
    BY <2>1 DEF ScreenTyped
<1>6. CASE Commit
  <2>1. /\ step = "screening" /\ rows' = {} /\ audit' = audit \cup rows
        /\ step' = (IF detected /\ ~declared THEN "mismatch" ELSE "ok")
        /\ batch' = batch /\ declared' = declared /\ round' = round /\ chunk_index' = chunk_index
        /\ detected' = detected
    BY <1>6 DEF Commit
  <2>2. step' \in {"mismatch", "ok"} /\ (step' = "mismatch" => ~declared')
    BY <2>1
  <2> QED
    BY <2>1, <2>2 DEF ScreenTyped
<1>7. CASE Halt \/ Abort
  <2>1. /\ step \in {"mismatch", "review"} /\ step' \in {"aborted", "review"}
        /\ rows' = rows /\ audit' = audit
        /\ batch' = batch /\ declared' = declared /\ round' = round /\ chunk_index' = chunk_index
        /\ detected' = detected
    BY <1>7 DEF Halt, Abort
  <2> QED
    BY <2>1 DEF ScreenTyped
<1> QED
    BY <1>2, <1>3, <1>4, <1>5, <1>6, <1>7 DEF ScreenNext

-----------------------------------------------------------------------------
(* PIIScreen: what is screened and audited.                                *)

Passes(i) == ~(Dropped(batch[i]) \/ Sanitized(batch[i]) = Sentinel)
PairsUpto(n) == {<<i, Sanitized(batch[i])>> : i \in {j \in 1 .. n : Passes(j)}}
RowsUpto(n) == UNION {RowsOf(i) : i \in 1 .. n}

\* Each chunk before chunk_index has its rows, and is screened or dropped.
ScreenedInv ==
    /\ screened \in Seq(PairsUpto(chunk_index - 1))
    /\ step \in {"screening", "ok"} => PairsUpto(chunk_index - 1) \subseteq Range(screened)
    /\ step = "screening" => RowsUpto(chunk_index - 1) \subseteq rows
    /\ step = "ok" => chunk_index = Len(batch) + 1 /\ RowsUpto(chunk_index - 1) \subseteq audit

LEMMA NothingUpto ==
    ASSUME NEW n \in Int, n <= 0
    PROVE  PairsUpto(n) = {} /\ RowsUpto(n) = {}
<1>1. 1 .. n = {}
    OBVIOUS
<1> QED
    BY <1>1 DEF PairsUpto, RowsUpto

LEMMA OneMoreUpto ==
    ASSUME NEW n \in Nat \ {0}
    PROVE  /\ PairsUpto(n) = PairsUpto(n - 1) \cup
                    (IF Passes(n) THEN {<<n, Sanitized(batch[n])>>} ELSE {})
           /\ RowsUpto(n) = RowsUpto(n - 1) \cup RowsOf(n)
<1>1. 1 .. n = (1 .. n - 1) \cup {n}
    OBVIOUS
<1>2. PairsUpto(n) = PairsUpto(n - 1) \cup
                    (IF Passes(n) THEN {<<n, Sanitized(batch[n])>>} ELSE {})
  <2>1. CASE ~Passes(n)
    <3>1. {j \in 1 .. n : Passes(j)} = {j \in 1 .. n - 1 : Passes(j)}
      BY <1>1, <2>1
    <3> QED
      BY <2>1, <3>1 DEF PairsUpto
  <2>2. CASE Passes(n)
    <3>1. {j \in 1 .. n : Passes(j)} = {j \in 1 .. n - 1 : Passes(j)} \cup {n}
      BY <1>1, <2>2
    <3> QED
      BY <2>2, <3>1 DEF PairsUpto
  <2> QED
    BY <2>1, <2>2
<1>3. RowsUpto(n) = RowsUpto(n - 1) \cup RowsOf(n)
    BY <1>1 DEF RowsUpto
<1> QED
    BY <1>2, <1>3

LEMMA UptoRigid ==
    ASSUME config' = config, batch' = batch, round' = round
    PROVE  \A n : PairsUpto(n)' = PairsUpto(n) /\ RowsUpto(n)' = RowsUpto(n)
<1>1. \A t : Findings(t)' = Findings(t) /\ (Dropped(t)' <=> Dropped(t))
  <2>1. \A f : Drops(f)' <=> Drops(f)
    BY DEF Drops, Action
  <2>2. \A t : Dropped(t)' <=> Dropped(t)
    BY <2>1 DEF Dropped
  <2>3. ASSUME NEW t PROVE Findings(t)' = Findings(t)
    <3> DEFINE all == Sorted(t)
               I == {i \in 1 .. Len(all) : Drops(all[i])}
    <3>1. I' = I
      BY <2>1
    <3>2. SelectInSeq(all, Drops) = IF I # {} THEN Min(I) ELSE 0
      BY DEF SelectInSeq
    <3>3. Findings(t) = LET n == IF I # {} THEN Min(I) ELSE 0 IN IF n = 0 THEN all ELSE SubSeq(all, 1, n)
      BY <3>2 DEF Findings
    <3>4. Findings(t)' = LET n == IF I' # {} THEN Min(I') ELSE 0 IN IF n = 0 THEN all ELSE SubSeq(all, 1, n)
      BY DEF Findings, SelectInSeq
    <3> HIDE DEF I, all
    <3> QED
      BY <3>1, <3>3, <3>4
  <2> QED
    BY <2>2, <2>3
<1>2. \A t : Sanitized(t)' = Sanitized(t)
    BY <1>1 DEF Sanitized
<1>3. \A n : PairsUpto(n)' = PairsUpto(n)
    BY <1>1, <1>2 DEF PairsUpto, Passes, Sentinel
<1>4. \A n : RowsUpto(n)' = RowsUpto(n)
    BY <1>1 DEF RowsUpto, RowsOf
<1> QED
    BY <1>3, <1>4

LEMMA ScreenedInit == ScreenInit \/ ScreenIdle => ScreenedInv
<1> SUFFICES ASSUME ScreenInit \/ ScreenIdle PROVE ScreenedInv
    OBVIOUS
<1>1. screened = <<>> /\ step \in {"none", "waiting"}
    BY DEF ScreenInit, ScreenIdle
<1>2. <<>> \in Seq(PairsUpto(chunk_index - 1))
    OBVIOUS
<1> QED
    BY <1>1, <1>2 DEF ScreenedInv

LEMMA CallScreened ==
    ASSUME NEW texts, NEW pii, Call(texts, pii)
    PROVE  ScreenedInv'
<1>1. screened' = <<>> /\ step' = "screening" /\ chunk_index' = 1
    BY DEF Call
<1>2. /\ screened' \in Seq(PairsUpto(chunk_index - 1)')
      /\ PairsUpto(chunk_index - 1)' = {}
      /\ RowsUpto(chunk_index - 1)' = {}
  <2>1. chunk_index' - 1 \in Int /\ chunk_index' - 1 <= 0 /\ 1 .. chunk_index' - 1 = {}
    BY <1>1
  <2>2. PairsUpto(chunk_index - 1)' = {} /\ RowsUpto(chunk_index - 1)' = {}
    BY <2>1 DEF PairsUpto, RowsUpto
  <2> QED
    BY <1>1, <2>2
<1> QED
    BY <1>1, <1>2 DEF ScreenedInv

LEMMA ScreenedStep ==
    ASSUME ScreenTyped, ScreenedInv, ScreenNext
    PROVE  ScreenedInv'
<1>1. Len(batch) \in Nat /\ DOMAIN batch = 1 .. Len(batch) /\ chunk_index \in Nat
    BY BatchTyped DEF ScreenTyped
<1>n. \A S : <<>> \in Seq(S)
    OBVIOUS
<1>3. CASE Begin
    BY <1>3, CallScreened DEF Begin
<1>4. CASE ScreenChunk
  <2> DEFINE n == chunk_index
             pair == <<n, Sanitized(batch[n])>>
  <2>1. /\ step = "screening" /\ n <= Len(batch) /\ chunk_index' = n + 1
        /\ screened' = (IF Passes(n) THEN Append(screened, pair) ELSE screened)
        /\ rows' = rows \cup RowsOf(n)
        /\ batch' = batch /\ config' = config /\ step' = step /\ round' = round
    BY <1>4 DEF ScreenChunk, Passes
  <2>2. n \in Nat \ {0} /\ chunk_index' - 1 = n
    BY <1>1, <2>1 DEF ScreenTyped
  <2>3. PairsUpto(chunk_index - 1)' = PairsUpto(n) /\ RowsUpto(chunk_index - 1)' = RowsUpto(n)
    BY <2>1, <2>2, UptoRigid
  <2>4. /\ screened \in Seq(PairsUpto(n - 1)) /\ PairsUpto(n - 1) \subseteq Range(screened)
        /\ RowsUpto(n - 1) \subseteq rows
    BY <2>1 DEF ScreenedInv
  <2>5. /\ PairsUpto(n) = PairsUpto(n - 1) \cup (IF Passes(n) THEN {pair} ELSE {})
        /\ RowsUpto(n) = RowsUpto(n - 1) \cup RowsOf(n)
    BY <2>2, OneMoreUpto
  <2> HIDE DEF n, pair
  <2>6. screened' \in Seq(PairsUpto(n)) /\ PairsUpto(n) \subseteq Range(screened')
    <3>1. CASE ~Passes(n)
      BY <2>1, <2>4, <2>5, <3>1
    <3>2. CASE Passes(n)
      <4>1. screened' = Append(screened, pair) /\ PairsUpto(n) = PairsUpto(n - 1) \cup {pair}
        BY <2>1, <2>5, <3>2
      <4>2. screened \in Seq(PairsUpto(n)) /\ pair \in PairsUpto(n)
        BY <2>4, <4>1
      <4>3. Range(Append(screened, pair)) = Range(screened) \cup {pair}
        BY <4>2, RangeAppend
      <4>4. Append(screened, pair) \in Seq(PairsUpto(n))
        BY <4>2
      <4> QED
        BY <2>4, <4>1, <4>3, <4>4
    <3> QED
      BY <3>1, <3>2
  <2>7. RowsUpto(n) \subseteq rows'
    BY <2>1, <2>4, <2>5
  <2> QED
    BY <2>1, <2>3, <2>6, <2>7 DEF ScreenedInv
<1>5. CASE ScreenFails
  <2>1. screened' = <<>> /\ step' = "error"
    BY <1>5 DEF ScreenFails
  <2>2. screened' \in Seq(PairsUpto(chunk_index - 1)')
    BY <2>1
  <2> QED
    BY <2>1, <2>2 DEF ScreenedInv
<1>6. CASE Commit
  <2>1. /\ step = "screening" /\ chunk_index > Len(batch) /\ audit' = audit \cup rows
        /\ step' = (IF detected /\ ~declared THEN "mismatch" ELSE "ok")
        /\ screened' = (IF detected /\ ~declared THEN <<>> ELSE screened)
        /\ batch' = batch /\ config' = config /\ round' = round /\ chunk_index' = chunk_index
    BY <1>6 DEF Commit
  <2>2. /\ PairsUpto(chunk_index - 1)' = PairsUpto(chunk_index - 1)
        /\ RowsUpto(chunk_index - 1)' = RowsUpto(chunk_index - 1)
    BY <2>1, UptoRigid
  <2>3. chunk_index' = Len(batch') + 1
    BY <1>1, <2>1 DEF ScreenTyped
  <2>4. CASE detected /\ ~declared
    <3>1. screened' = <<>> /\ step' = "mismatch"
      BY <2>1, <2>4
    <3>2. screened' \in Seq(PairsUpto(chunk_index - 1)')
      BY <3>1
    <3> QED
      BY <3>1, <3>2 DEF ScreenedInv
  <2>5. CASE ~(detected /\ ~declared)
    <3>1. screened' = screened /\ step' = "ok"
      BY <2>1, <2>5
    <3> QED
      BY <2>1, <2>2, <2>3, <3>1 DEF ScreenedInv
  <2> QED
    BY <2>4, <2>5
<1>7. CASE Halt \/ Abort
  <2>1. /\ step' \in {"aborted", "review"} /\ screened' = screened
        /\ batch' = batch /\ config' = config /\ round' = round /\ chunk_index' = chunk_index
    BY <1>7 DEF Halt, Abort
  <2>2. PairsUpto(chunk_index - 1)' = PairsUpto(chunk_index - 1)
    BY <2>1, UptoRigid
  <2> QED
    BY <2>1, <2>2 DEF ScreenedInv
<1>8. CASE Resume
    BY <1>8, CallScreened DEF Resume
<1> QED
    BY <1>3, <1>4, <1>5, <1>6, <1>7, <1>8 DEF ScreenNext

-----------------------------------------------------------------------------
(* TextSteps: the theorems.                                                *)

TextInv == ChunkTyped /\ Keeps /\ SmallInv /\ ScreenTyped /\ ScreenedInv

LEMMA IdleTyped == ChunkIdle => ChunkTyped /\ Keeps /\ SmallInv
<1> SUFFICES ASSUME ChunkIdle PROVE ChunkTyped /\ Keeps /\ SmallInv
    OBVIOUS
<1>1. /\ kind = "none" /\ text = <<>> /\ at = 1 /\ current = <<>> /\ size = 0
      /\ buffer = <<>> /\ chunks = <<>> /\ chunked = FALSE
    BY DEF ChunkIdle
<1>n. /\ <<>> \in Seq(Symbols) /\ <<>> \in Seq(Spans) /\ <<>> \in Seq(ChunkRecord) /\ Len(<<>>) = 0
      /\ DOMAIN <<>> = {}
  <2> HIDE DEF ChunkRecord
  <2> QED
    OBVIOUS
<1>2. text \in Seq(Symbols)
    BY <1>1, <1>n
<1>3. at \in 1 .. Len(text) + 2 /\ size \in Nat /\ Len(buffer) <= Overlap /\ chunked \in BOOLEAN
  <2>1. Len(text) = 0 /\ Len(buffer) = 0
    BY <1>1, <1>n
  <2>2. at \in 1 .. Len(text) + 2
    BY <1>1, <2>1
  <2>3. Len(buffer) <= Overlap
    BY <2>1, SizesAreNaturals
  <2> QED
    BY <1>1, <2>2, <2>3
<1>4. ChunkTyped
    BY <1>1, <1>2, <1>3, <1>n DEF ChunkTyped
<1>5. Keeps
    BY <1>1, <1>2, NothingGood DEF Keeps
<1>6. SmallInv
    BY <1>1, <1>n DEF SmallInv
<1> QED
    BY <1>4, <1>5, <1>6

LEMMA TextInvInit == TextInit => TextInv
BY KeepsInit, SmallInit, IdleTyped, ScreenTypedInit, ScreenedInit DEF TextInit, TextInv

\* What is not called keeps what it has.
LEMMA ChunkUnchanged ==
    ASSUME UNCHANGED chunkVars
    PROVE  /\ ChunkTyped => ChunkTyped'
           /\ Keeps => Keeps'
           /\ SmallInv => SmallInv'
<1>1. /\ kind' = kind /\ text' = text /\ at' = at /\ current' = current /\ size' = size
      /\ buffer' = buffer /\ chunks' = chunks /\ chunked' = chunked
    BY DEF chunkVars
<1>s. Spans' = Spans /\ Positions' = Positions /\ ChunkRecord' = ChunkRecord
  <2>1. Spans' = Spans /\ Positions' = Positions
    BY <1>1 DEF Spans, Positions
  <2> QED
    BY <2>1 DEF ChunkRecord
<1>2. ChunkTyped => ChunkTyped'
  <2> HIDE DEF ChunkRecord
  <2> QED
    BY <1>1, <1>s DEF ChunkTyped
<1>3. Keeps => Keeps'
  <2>1. ASSUME NEW k PROVE Needed(k)' <=> Needed(k)
    BY <1>1, <1>s DEF Needed
  <2>2. ASSUME NEW cs, NEW cur, NEW n PROVE Good(cs, cur, n)' <=> Good(cs, cur, n)
    BY <1>s, <2>1 DEF Good, Placed, Covers
  <2> QED
    BY <1>1, <1>s, <2>1, <2>2 DEF Keeps
<1>4. ASSUME NEW s, NEW sep PROVE Join(s, sep)' = Join(s, sep)
    BY <1>1 DEF Join, Characters
<1>5. ASSUME NEW s PROVE Lines(s)' = Lines(s) /\ Paragraphs(s)' = Paragraphs(s)
    BY <1>4 DEF Lines, Paragraphs
<1>6. ASSUME NEW s PROVE CodeSmall(s)' <=> CodeSmall(s)
  <2>1. ASSUME NEW u PROVE Definition(u)' <=> Definition(u)
    BY <1>1 DEF Definition
  <2> QED
    BY <1>5, <2>1 DEF CodeSmall
<1>7. ASSUME NEW c PROVE TextOf(c)' = TextOf(c)
    BY <1>1, <1>5 DEF TextOf, Characters
<1>8. ASSUME NEW c PROVE SmallChunk(c)' <=> SmallChunk(c)
    BY <1>1, <1>6, <1>7 DEF SmallChunk
<1>9. ASSUME NEW s, NEW n, NEW b PROVE Sized(s, n, b)' <=> Sized(s, n, b)
    BY <1>5 DEF Sized
<1>10. SmallInv => SmallInv'
    BY <1>1, <1>5, <1>6, <1>8, <1>9 DEF SmallInv
<1> QED
    BY <1>2, <1>3, <1>10

LEMMA ScreenUnchanged ==
    ASSUME UNCHANGED screenVars
    PROVE  (ScreenTyped => ScreenTyped') /\ (ScreenedInv => ScreenedInv')
<1>1. ScreenTyped => ScreenTyped'
    BY DEF ScreenTyped, screenVars
<1>2. ScreenedInv => ScreenedInv'
    BY UptoRigid DEF ScreenedInv, screenVars
<1> QED
    BY <1>1, <1>2

LEMMA TextInvStep == TextInv /\ [TextNext]_textVars => TextInv'
<1> SUFFICES ASSUME TextInv, [TextNext]_textVars PROVE TextInv'
    OBVIOUS
<1>1. ChunkTyped /\ Keeps /\ SmallInv /\ ScreenTyped /\ ScreenedInv
    BY DEF TextInv
<1>2. CASE ChunkNext /\ UNCHANGED screenVars
  <2>1. ChunkTyped' /\ Keeps' /\ SmallInv'
    BY <1>1, <1>2, KeepsStep, SmallStep
  <2> QED
    BY <1>1, <1>2, <2>1, ScreenUnchanged DEF TextInv
<1>3. CASE ScreenNext /\ UNCHANGED chunkVars
  <2>1. ScreenTyped' /\ ScreenedInv'
    BY <1>1, <1>3, ScreenTypedStep, ScreenedStep
  <2> QED
    BY <1>1, <1>3, <2>1, ChunkUnchanged DEF TextInv
<1>4. CASE UNCHANGED textVars
    BY <1>1, <1>4, ChunkUnchanged, ScreenUnchanged DEF TextInv, textVars
<1> QED
    BY <1>2, <1>3, <1>4 DEF TextNext

\* The inductive invariant, of which every property below is a consequence.
THEOREM TextInvariant == TextSpec => []TextInv
BY TextInvInit, TextInvStep, PTL DEF TextSpec

LEMMA TextTyped == TextInv => TextTypeOK
<1> SUFFICES ASSUME TextInv PROVE TextTypeOK
    OBVIOUS
<1>1. ChunkTyped /\ ScreenTyped /\ ScreenedInv
    BY DEF TextInv
<1>2. Range(current) \subseteq Spans
  <2>1. current \in Seq(Spans)
    BY <1>1 DEF ChunkTyped
  <2> DEFINE S == Spans
  <2>2. \A i \in DOMAIN current : current[i] \in S
    BY <2>1
  <2> HIDE DEF S
  <2> QED
    BY <2>2 DEF Range, S
<1>3. \A i \in DOMAIN chunks : Range(chunks[i].units) \subseteq Spans
  <2> TAKE i \in DOMAIN chunks
  <2>1. chunks[i] \in ChunkRecord
    <3> DEFINE R == ChunkRecord
    <3>1. chunks \in Seq(R)
      BY <1>1 DEF ChunkTyped
    <3> HIDE DEF R
    <3>2. chunks[i] \in R
      BY <3>1
    <3> QED
      BY <3>2 DEF R
  <2> DEFINE S == Spans
  <2>2. chunks[i].units \in Seq(S)
    BY <2>1 DEF ChunkRecord
  <2> HIDE DEF S
  <2>3. \A k \in DOMAIN chunks[i].units : chunks[i].units[k] \in S
    BY <2>2
  <2> QED
    BY <2>3 DEF Range, S
<1>4. Len(batch) \in Nat /\ DOMAIN batch = 1 .. Len(batch)
    BY <1>1, BatchTyped
<1>5. \A i \in DOMAIN screened : screened[i][1] \in DOMAIN batch
  <2> TAKE i \in DOMAIN screened
  <2>1. screened[i] \in PairsUpto(chunk_index - 1)
    BY <1>1 DEF ScreenedInv
  <2>2. screened[i][1] \in 1 .. chunk_index - 1
    BY <2>1 DEF PairsUpto
  <2> QED
    BY <1>1, <1>4, <2>2 DEF ScreenTyped
<1>6. /\ at \in 1 .. Len(text) + 2 /\ Len(buffer) <= Overlap /\ chunked \in BOOLEAN /\ size \in Nat
      /\ kind \in {"none", "prose", "code", "schema"}
    BY <1>1 DEF ChunkTyped
<1> QED
    BY <1>1, <1>2, <1>3, <1>5, <1>6 DEF TextTypeOK, ScreenTyped

\* Types: chunk() stays in the text, the overlap in its limit, and the rows
\* and the chunks that are returned name texts of the batch.
THEOREM TextTypeCorrect == TextSpec => []TextTypeOK
BY TextInvariant, TextTyped, PTL

LEMMA KeepsText == TextInv => TextKept
BY TextIsKept DEF TextInv

\* Of the text without its tags chunk() loses and repeats nothing, and of a
\* schema it keeps each table, whatever the text and the sizes.
THEOREM ChunksKeepText == TextSpec => []TextKept
BY TextInvariant, KeepsText, PTL

LEMMA SmallChunks == TextInv => ChunksAreSmall
BY SmallIsSmall DEF TextInv

\* Chunks, with their separators and their overlap, are as small as chunk()
\* makes them, whatever the text and the sizes.
THEOREM ChunksStaySmall == TextSpec => []ChunksAreSmall
BY TextInvariant, SmallChunks, PTL

\* What is returned is what the scan made of a text that it did not drop.
LEMMA ReleasedTyped ==
    ASSUME TextInv, NEW c \in Released
    PROVE  /\ step = "ok" /\ c[1] \in DOMAIN batch /\ GoodText(batch[c[1]])
           /\ ~Dropped(batch[c[1]]) /\ c[2] = Sanitized(batch[c[1]])
           /\ RowsOf(c[1]) \subseteq audit
<1>1. ScreenTyped /\ ScreenedInv
    BY DEF TextInv
<1>2. step = "ok" /\ c \in Range(screened)
    BY DEF Released
<1>3. c \in PairsUpto(chunk_index - 1)
    BY <1>1, <1>2 DEF ScreenedInv, Range
<1>4. c[1] \in 1 .. chunk_index - 1 /\ ~Dropped(batch[c[1]]) /\ c[2] = Sanitized(batch[c[1]])
    BY <1>3 DEF PairsUpto, Passes
<1>5. Len(batch) \in Nat /\ DOMAIN batch = 1 .. Len(batch)
    BY <1>1, BatchTyped
<1>6. chunk_index - 1 = Len(batch) /\ RowsUpto(chunk_index - 1) \subseteq audit
    BY <1>1, <1>2, <1>5 DEF ScreenedInv, ScreenTyped
<1>7. c[1] \in DOMAIN batch /\ RowsOf(c[1]) \subseteq audit
    BY <1>4, <1>5, <1>6 DEF RowsUpto
<1>8. GoodText(batch[c[1]])
    BY <1>1, <1>7, BatchTyped
<1> QED
    BY <1>2, <1>4, <1>7, <1>8

LEMMA HardIsDropped == TextInv => HardDropped
<1> SUFFICES ASSUME TextInv, NEW c \in Released, NEW f \in batch[c[1]].matches, f[1] \in HardDrop
             PROVE  FALSE
    BY DEF HardDropped
<1>1. f[1] \notin HardRedact
    BY DEF HardDrop, HardRedact
<1>2. Drops(f)
    BY <1>1 DEF Drops, Action
<1> QED
    BY <1>2, ReleasedTyped DEF Dropped

\* No configuration of a connector lets a password or a secret through.
THEOREM ScreenDropsSecrets == TextSpec => []HardDropped
BY TextInvariant, HardIsDropped, PTL

LEMMA ReleasedHasRows == TextInv => ReleasedIsAudited
<1> SUFFICES ASSUME TextInv, NEW c \in Released, NEW f \in batch[c[1]].matches
             PROVE  <<round, c[1], f>> \in audit
    BY DEF ReleasedIsAudited
<1> DEFINE t == batch[c[1]]
<1>1. GoodText(t) /\ ~Dropped(t) /\ RowsOf(c[1]) \subseteq audit
    BY ReleasedTyped
<1>2. Range(Findings(t)) = t.matches
    BY <1>1, FindingsTyped, SortedTyped
<1> QED
    BY <1>1, <1>2 DEF RowsOf

\* Every match in a text that is returned has its row in the log.
THEOREM ScreenAuditsReleased == TextSpec => []ReleasedIsAudited
BY TextInvariant, ReleasedHasRows, PTL

LEMMA SpansAreGone == TextInv => SpansGone
BY ReleasedTyped, SanitizedSpans DEF SpansGone

\* As long as no replacement but the last changes the length, what is returned
\* is the text outside of its matches.
THEOREM ScreenCutsSpans == TextSpec => []SpansGone
BY TextInvariant, SpansAreGone, PTL
=============================================================================
