# MEMRAG in TLA+

MEMRAG keeps the memory of LLM agents in four layers (Redis sessions, per-agent
memories, findings shared in a workspace, knowledge of connected sources) and
assembles a prompt from them.  This directory holds TLA+ modules of the parts
of it that keep state, the configurations with which TLC checks them on small
instances, and theorems about them that TLAPS checks for every instance.

    tlc -config <run>.cfg <MC module>.tla      # a run; names in section 4
    tlapm <Component>Proofs.tla                # proofs; the module is in section 2

## 1. The system and its parts

| Part | State | Operations | What is hard |
|---|---|---|---|
| Session buffer, layer 1 (`memrag_shared/session`, used by memory-api and agent-workers) | a Redis key with the turns or a manifest, and chunk keys, each with a TTL | `checkpoint_session`, `fetch_recent_session` | several Redis calls per operation, several processes, a process that dies between two of them, keys that expire |
| Agent memory, layer 2 (`memory/mem0_client`, `memory/dedup`, `recall/layer2`; `decay_memories` of knowledge-ingestion) | points in Qdrant with a score and an access time; the tombstone archive | store with duplicate check, recall, nightly decay and archive | check-then-act over two calls, a nightly run beside requests, overlapping attempts, archive and delete in two systems |
| Shared memory, layer 3 (`memory/shared`, `memory/graphiti`, `recall/layer3`) | points in Qdrant, or episodes in Graphiti | promotion over REST, MCP or an activity; search | two stores and one setting, duplicate check races, lost answers |
| Knowledge, layer 4 (knowledge-ingestion, `recall/layer4`) | points in Qdrant, `knowledge_sync_state` | ingestion workflow with delta sync, query | a run may end between any two activities; runs of several connectors write one collection |
| Grants and scopes (connector-registry, `recall/grants`, `recall/layer4`) | grants and connectors, a Redis entry per workspace, the scope copied into payloads | grant, revoke, delete, PATCH, `load_grants`, filter | a cache nobody invalidates, read and written apart |
| Hydration (`memory-api` `hydrate`, `assembler`) | one request | four concurrent recalls, weighing, token budget | any subset of the recalls fails; greedy loops at the boundary of a budget |
| Source weights (`weights`) | a cache per process over a file or AppConfig | `load_weights`, `get_weight` | read again in the middle of the loop that weighs the chunks; a configuration that does not load |
| Embedding client (`infra/ollama_client`) | a cache and a table of requests in flight | `embed` | coroutines that share a future; a failing owner; pruning |
| Agent workflow (agent-workers) | what a run has fetched, recalled and promoted; its activities under way | fetch, recall, promote, store, checkpoint | activities that are not awaited, retries beside attempts that still run, two runs of one session |
| Connector registry (Go) | connectors in a map or a table; the workflow of each | POST, GET, PATCH, DELETE, status | insert and workflow start are two steps; handlers share pointers over a map without a lock |
| Chunker (`chunker`) | a text | `chunk` for prose, code, schemas | boundaries of sizes, overlap, the last chunk |
| PII screening (`pii`, `pii_screen`, `process_ingestion_batch`) | a batch, the audit log | scan, audit, review | offsets after a replacement, one transaction beside what is returned |

The parts meet in the stores: memory-api and agent-workers share the Redis keys
of layer 1 and the collections of layers 2 and 3; knowledge-ingestion writes what
`recall_org_knowledge` reads; the registry's grants reach a recall only through
PostgreSQL and the Redis entry; Temporal starts, retries and carries on the
activities of the three workers.

What makes them correct, in a line each: a session reads as the last checkpoint
or as nothing; no fact is lost without a trace and nothing is deleted before it is
archived; what was promoted can be found by the readers meant for its store; what
delta sync skips is indexed; a grant or revocation that reached PostgreSQL is
honoured after a bounded time; the prompt respects the budget and names what is
missing; a configuration of the weights takes effect; nobody waits for a request
that is over; the turns of a workflow stand after the turns it was shown; an
acknowledged connector is listed until a DELETE or the end of the process, and is
changed and deleted by requests of its own workspace only; of a text without its
tags `chunk` loses nothing at a boundary; a text with a secret is not returned.
Where the code promises less than its documents, section 7 says so.

## 2. Modules

| Component | Module | Instance for TLC | Proofs |
|---|---|---|---|
| abstract session | `SessionRegister` | | |
| session buffer | `SessionBuffer` | `MCSessionBuffer` | `SessionBufferProofs` |
| agent memory | `AgentMemory` | `MCAgentMemory` | `AgentMemoryProofs` |
| shared memory | `SharedMemory` | `MCSharedMemory` | `SharedMemoryProofs` |
| grants and scopes | `SharingGrants` | `MCSharingGrants` | `SharingGrantsProofs` |
| ingestion and query | `OrgIngestion` | `MCOrgIngestion` | `IngestionProofs` |
| source weights | `WeightsCache` | `MCContextAssembly` | `HydrationProofs` |
| hydration, over `WeightsCache` | `ContextAssembly` | `MCContextAssembly` | `HydrationProofs` |
| embedding client | `EmbedClient` | `MCEmbedClient` | `HydrationProofs` |
| agent workflow | `AgentWorkflow` | `MCAgentWorkflow` | `AgentWorkflowProofs` |
| abstract table of connectors | `ConnectorTable` | | |
| connector registry, implements `ConnectorTable` | `Registry` | `MCRegistry` | `RegistryProofs` |
| chunker | `Chunker` | `MCTextSteps` | `IngestionProofs` |
| PII screening | `PIIScreen` | `MCTextSteps` | `IngestionProofs` |
| a call of `chunk`, or of the screening | `TextSteps` | `MCTextSteps` | `IngestionProofs` |

Everywhere an action is one call to a store, or the code between two suspension
points of an event loop; processes interleave between actions.  Definitions
called `Mutant: ...` are plausible bugs, used to confirm that a property notices
them; they are part of no specification.

**SessionBuffer.**  `messages`/`mttl` are the messages key and its TTL,
`chunk`/`pttl` the payload keys.  `checkpoint_session` is `BeginCheckpoint` (GET),
`DeleteOld` (DELETE of the old chunk keys) and `WriteInline` or `WriteExternal`
(the pipeline, one MULTI/EXEC).  `fetch_recent_session` is `BeginFetch` (GET and
EXPIRE), one `LoadChunk` per key, and `FinishFetch` (join and parse); a join of
chunks that do not belong together is `Torn`.  `Fail` abandons an operation
between calls, at the points that `Deaths` names: before the DELETE ("delete"),
before the write when nothing was deleted ("write"), after the DELETE ("deleted"),
in a fetch ("load").  A payload is a model value with a number of chunks; no payload
has exactly one, since the inline limit (256 KB) exceeds the chunk size (240 KB).
Refinement, proved: with inline payloads it implements `SessionRegister`, a register
that is read and replaced as a whole and expires when left alone.  agent-workers
has its own copy of `session.py`, which makes the same calls.

**AgentMemory.**  `live`, `idle`, `loss` are the points with their access time and
decay score; `archived` is the tombstone table.  A request of a process is
`StartStore` and then `Skip`, or `FindNew` and `Upsert`, per fact, or `Recall` and
`Touch`.  The nightly attempt is `Scroll` (one page, scores computed), `WriteScore`
for each strong entry, `Archive`, `Delete`.  A score is kept as its logarithm, so
that the threshold 0.1 is the exact integer test `1000 * loss > 2303 * HalfLife`.

**SharedMemory.**  `setup` is the deployment: which processes promote, through
which of the three channels, and the value of `GRAPHITI_ENABLED`; it is chosen
initially and never changes.  `Promote`, then `Duplicate` or `New` and `Upsert`
(Qdrant), or `Post` (Graphiti); `Fail` raises with or without the effect of the
call.  There are two kinds of readers: `"service"` (`search_shared` and `hydrate` of
memory-api), which looks where the setting says, and `"agent"` (the recall activity
of agent-workers), which looks in Qdrant whatever the setting is.
`PromotedIsSearchable` says that a promotion is found by each reader that is meant
for the store of its channel; `FoundByAgents` and `FoundByServices`, which say what
the documents promise, are in section 7.

**SharingGrants.**  Registry rows (`active`, `revoked`, `deleted`), the Redis
entries (`cache`, `ttl`) and recalls under way.  A recall is `Hit`, or `Select` and
later `Setex`, then `Answer`, which filters with `SharingScopeAllows`.  `since`
counts the ticks since a pair changed.  `Backend` is `"store"` for the PostgreSQL
`Store` and `"memory"` for `MockQueries`, which `cmd/main.go` builds: the SELECT of a
recall sees `Recorded`, the grants in PostgreSQL, of which there are none with
`"memory"`.  `GrantsConverge` is about that table, whichever registry is built; what
the registry promised its clients is `AcknowledgedTakesEffect` (section 7).

**OrgIngestion.**  `source` is what a connector would return, `sync` the stored
hashes (a content stands for its hash), `index` the payload owner of the point of
each text (the point id is the hash of the text alone).  A run is `FetchResources`,
`DiffResources`, `UpsertOrgKnowledge`, `UpdateSyncState` for each resource,
`Complete`; `Fail` may end it anywhere, an upsert with part of its points stored.
`Recalled` is the query with its unfiltered window followed by the scopes.

**WeightsCache.**  `config` is what the backend holds, a function from the sources
it mentions; `cache` the weights last loaded and `age` the ticks since.
`load_weights` is `Served` while the cache is younger than the poll interval,
then `Loaded`, or `LoadRaises` when the configuration names an unknown source or
is no JSON.  `Reconfigure` and `Elapse` are the world.

**ContextAssembly.**  One request from the embedding over the four recalls, each
of which may fail, to the loops of `assemble`: `TakeTurn` from the newest turn,
`Weigh` per chunk, which reads `WeightsCache`, `Rank`, and `TakeChunk` in the order
of score times weight.  A turn or chunk is its number of tokens.  `Beside` lets time
pass, the configuration change and another request load the weights between any
two chunks that are weighed.

**EmbedClient.**  `entryAge` is the cache, `inFlight` the table of futures.  `Call` is
the first critical section; `PostSucceeds`/`PostFails` include the pop from the
table and the resolution of the future for every waiter.

**AgentWorkflow.**  The workflows of one session.  `pc` is the awaited activity,
`tries` its failed attempts; an attempt fails (`AttemptFails`), or is given up at
its timeout after it has acted or while it still runs (`TimesOut`), and then acts
later (`Land`) or never.  `scheduled` are the activities that the workflow starts
and never awaits (`store_agent_memory`, and `promote_finding` if the manifest asks for
it): `Take` is a worker that takes one; those still there when the workflow
closes are dropped.  The session is a register, which is what `SessionBuffer`
implements for inline turns; the turns of a workflow are one element of it.
`Compose` and `EndTools` hold the step in which `memory.text` raises: an activity
called by its name gives dicts, the workflow task fails and is tried again without
end (`"stuck"`).

**Registry.**  The handlers of `cmd/main.go`: `stored` are the keys of the map,
`object` what the stored pointers point to.  A request is a goroutine: POST is
`InsertConnector` and `StartIngestionWorkflow` or `StartPanics` (no Temporal client),
PATCH is `PatchConnector` (check), `Assign` per field, `CheckUpdate` and `WriteUpdate`,
DELETE is `DeleteConnector` and `Delete`.  `runs` are the workflows, `TriggerIngest` the
signal of memory-api, `Restart` a new process, which empties the map.  History:
`acked` are the connectors a client was told of and has not deleted, a restart does
not take them out; `lost` are those that went with a process; `caller` is the
workspace of the request that last touched a connector.  Refinement: it implements
`ConnectorTable`, which is `Store` over the SQL table.  A statement there names the
workspace it acts for (`caller`) and does nothing to a row of another, as the WHERE
of `store.go` has it, so that a handler that lets another workspace through does not
implement it.  Two departures from the table are left out, and stand in section 7:
connectors whose DELETE fell into a PATCH (`raced`), and the loss of the map (a lost
connector keeps its row).

**Chunker.**  A text is a sequence of symbols: characters, and as wholes the keyword
of a definition ("def"), `--` ("comment"), `CREATE TABLE` ("create") and `);` ("close").
`ChunkInit` takes the tags out of prose (`Tags`, the matches of `<[^>]+>`, which may go
over lines and are not always tags).  A unit (a paragraph, a line, a table) is the pair of its
first and last position, so that a chunk can be traced to its place.  Splitting,
stripping, joining with separators and the search of the regular expression are
those of the code.  One action is one round of the loop of `_chunk_prose`
(`AddParagraph`, `NextChunk`) or `_chunk_code` (`CodeLine`), or one match of
`_chunk_schema` (`Table`); then `Return`.  The definitions were compared with the
Python functions on some 50 000 short texts.

**PIIScreen.**  `process_ingestion_batch` over `pii_screen`: a text is its characters and
what the patterns find in it, each match with its category, first and last character.
Matches may overlap or coincide; they are sorted by start, end and the order of the
patterns (`Place`).  `ScreenChunk` per chunk, `Commit` or `ScreenFails`, and `Halt`,
`Abort`, `Resume` after a mismatch.  `ReplaceSpan` cuts the span of the original text out
of the text as it is by then; a text that becomes `Sentinel`, or was it, is dropped.

**TextSteps.**  A behaviour is one call of `chunk` or one of `process_ingestion_batch`.
No workflow gives the chunks of the one to the other (`IngestionWorkflow` calls the
registered stub), so nothing is said of the two together.

## 3. What is abstracted

* Texts, vectors, similarity and ranking are data: relations and rankings given as
  constants.  Qdrant's nearest neighbour search is taken as exact.
* A memory-api or worker process is one actor for layers 2 and 3: its Qdrant
  client is synchronous, so its event loop runs nothing else between the duplicate
  check and the upsert.  Several processes still interleave.
* GET and the EXPIRE after it are one step (no operation reads only the TTL).
  In `SessionBuffer` the clock moves only between operations: a tick stands for
  hours and an operation takes milliseconds.  In `SharingGrants` it moves between
  the SELECT and the SETEX of a recall, at most `MaxDelay` ticks, and not between
  the grants and the filtering, which runs in the same process after one query.
* `EmbedClient` has no cancellation of a coroutine that posts or waits.
* `AgentMemory`: every entry is semantic, the only type `extract_and_store`
  writes; an entry unused for longer than `MaxIdle` counts as that old, which
  only makes it decay more slowly than in the code.
* Ingestion is modelled with the PostgreSQL store (`knowledge_sync_state` refers to
  the connector's row), an attempt of `update_sync_state` that was given up and writes
  later is left out, so is the agent scope (agent ids and tags), and the
  registered `pii_screen` returns its chunks as they are.  External libraries are
  taken by what the code expects of them: whether Qdrant accepts a hexadecimal
  digest as an id or pyiceberg the rows it is given is not modelled.
* `ContextAssembly`: time passes and weights change only while the cache may be
  read, before the recalls and while chunks are weighed; elsewhere it makes no
  difference to anything.  A request has no domain or the one whose column of
  the weights is modelled; the two backends are one configuration.
* `AgentWorkflow`: the signal `hitl_response`, which sets a field of the result, is
  left out.  An attempt in `running` may stay there for good: it was lost.
* `Registry`: one connector id and three requests at a time; a request that is
  refused before its first call changes nothing and is left out.
* `Chunker`: the claims are about prose without its tags.  The pattern of the tags
  also takes what is none: the `<https://...>` of a Slack message, or everything
  from `x < y` to the next `>`, be it paragraphs later.  White space is a space or the
  end of a line; a definition is recognised by its keyword.
* `PIIScreen`: what a pattern finds in a text is data, and so are the actions that a
  connector configures (their parsing and Presidio, which adds findings of the same
  form, are left out).  The `pii_screen` that `worker.py` registers is a stub that
  returns its chunks as they are: `PIIScreen` is the other one, which
  `process_ingestion_batch` and its tests use.

## 4. Runs

| Run | Instance and bounds | Shows |
|---|---|---|
| `session_concurrent` | two writers, two readers (one process is both), turn lists of no, two and three chunks, TTL 2, checkpoints that die before they have deleted anything; 2 562 000 states | at rest the keys hold exactly the last checkpoint and expire together; a fetch no checkpoint overlaps is exact |
| `embed_client` | four coroutines, three keys, cache of two, TTL 3 | one POST per key and none for a cached one, no stranded waiter, bounded cache, every call answered |
| `memory_concurrent` | two processes, two overlapping attempts, two near duplicates, failures; 923 000 states | no fact lost without a row in the archive; nothing deleted before it is archived |
| `memory_one_process` | one process, near duplicates and a fact of another agent, failures, fairness | no near duplicates; an unused entry leaves in the end |
| `shared_memory` | three findings with a non-transitive similarity; two processes and one on Qdrant, two on Graphiti, each with all channels; 1 400 000 states | what was answered is found by every reader meant for the store of its channel; a single process stores no near duplicates |
| `hydrate` | all sessions of up to two turns, two sizes of four chunks, two budgets, all failures, three configurations, one of them invalid, poll interval 2; 4 830 000 states | budget as counted, chunks dropped by rank for want of room only, failures named, a configuration takes effect |
| `grants_converge` | two processes, two workspaces, one connector, TTL 2, delay 2; 1 000 000 states | every grant and revocation that the table took is honoured after `TTL + MaxDelay` ticks |
| `ingest_partly_shared` | two connectors with two texts in common and one of their own each, two resources, two edits, one failing run; 35 000 states | skipped means indexed (whoever the point names); one good run catches up |
| `registry` | three requests, two workspaces, one connector, bodies with one field and with several, restarts; 28 000 states | the refinement of `ConnectorTable`; overlapping patches merge; acknowledged means listed until a DELETE or the end of the process; stored means acknowledged |
| `agent_workflow` | two workflows of one session, one with a tool call and a given output, one that promotes its output; 71 000 states | turns in context, lost only by overlap; findings promoted; a workflow that recalled nothing ends |
| `agent_recall` | the same | a violation: a workflow that recalled a memory does not reach its checkpoint, against agent_workflow.py:15 and spec.md:475 |
| `text_steps` | all texts of up to 6 to 8 of the symbols that a kind tells apart, prose of up to five paragraphs, sizes scaled down; one or two texts with up to three matches, two configurations, a failing database; 194 000 states | no text lost or repeated at a boundary, chunks small; secrets gone, everything released audited; exactly the matches are cut out as long as no replacement but the last changes the length |

Why the bounds suffice.  Two writers and a reader that writes are what an
overlapping delete and rewrite needs; three chunks give a shorter and a longer
manifest; a TTL of two separates "refreshed" from "not refreshed".  Three keys
overflow a cache of two and four callers are an owner, two followers and another
request.  Two attempts per night is the retry policy's maximum.  Similarity that
is not transitive needs three findings.  The budgets of
`hydrate` lie below the preamble, where the room is raised to 10 and a size fills
it exactly, and on an odd half; a poll interval of two separates a configuration that is
in the cache from one that has stood and one that has just changed.  `MaxDelay` 2 with TTL 2 lets
a SETEX put a list over one that another process wrote a whole lifetime later.
Two edits and two resources leave one resource changed and another not; the
contents have a text that stays, one that goes and one that comes.  A third
request can act between the check and the write of another one while a second
changes the same object; connectors share nothing, so one is enough.  Two workflows
overlap in every way two can; two attempts are the retry policy's maximum.
With a target of 6 and an overlap of 2, five paragraphs of up to four characters
fill chunks below, at and above the target, with and without an overlap before them;
seven symbols hold a tag over a paragraph's end, a `<` without a `>` and the empty
`<>`.  With 2 and 5 for code, eight symbols hold definitions before and after both
limits.  Six symbols of a schema hold two tables, comments before them, an open
table and one that closes at once.  Three matches in four characters lie apart,
touch, overlap or coincide, and replacements are shorter than, as long as and longer
than what they replace.  Two texts are what a dropped chunk beside a released one and
a failure between two chunks need.

Deadlock is checked in every run but those of `hydrate` (a request ends),
`agent_workflow` and `agent_recall` (workflows end), `text_steps` (a call ends) and `OrgIngestion`
(edits and failures are bounded, and all connectors may be deleted, so the system
may stop).

Symmetry is used for processes in `grants_converge`, for processes and attempts
in `memory_concurrent` and for requests in `registry`; none of these runs has a
liveness property, and nothing distinguishes the permuted values.

The type invariants of `ContextAssembly`, `Registry` and `TextSteps` are in their
runs; those of the other modules are in no run, since they are proved (section 6)
and the other properties of their runs rest on them.

## 5. Fairness

* `EmbedClient`: a POST that was sent ends, with an answer or an error: the HTTP
  client has a timeout.  Nothing is assumed of calls or of the clock.
* `AgentMemory`: requests end (their calls have timeouts), days pass and Temporal
  starts the attempts of a night that is due and carries them on.  Failing attempts
  stop at last (`<>[][~FailDecay]`): with two attempts a night the code promises
  nothing during an outage that never ends.  The schedule is assumed to exist; the
  worker creates one for `default-workspace` only, so entries of other workspaces
  never decay.  The clock and the nightly run are strongly and weakly fair, so no
  fairness is asked of a user.
* `OrgIngestion`: `FairSpec` carries a started run to its end, as Temporal does;
  nothing starts a second run, since no schedule exists in the code.
* `AgentWorkflow`: `FairSpec` carries a started workflow on: a worker polls the queue
  and an attempt ends or is given up at its timeout.  Nothing is assumed of what is
  not awaited, nor of attempts that were given up.

## 6. Proofs

Everything below holds for every value of the constants that satisfies the named
ASSUMEs (similarity is reflexive and symmetric, `None` is no datum, lifetimes are
positive, a match lies inside its text, and the like), each of which TLC evaluates in
the runs.

* **Session.**  `SessionTypeCorrect`, whatever `Deaths` are.  For operations that are
  not abandoned once they have deleted or refreshed something
  (`Harmless == Deaths \subseteq {"delete", "write"}`): `SessionDurable`,
  `SessionKeysExpireTogether` and `SessionFetchExact`; with the other deaths the code
  keeps none of the first two (section 7).  The invariant `IInv` says more than the
  property: as long as no checkpoint is between delete and write, a manifest names
  chunks that all belong to `acked` with equal clocks (`Body`, `Clocks`), and a fetch
  that started undisturbed has read a prefix of `acked` (`Prefix`); the property alone
  says nothing of a fetch half way.  `InlineImplementsRegister` proves the refinement,
  wherever an operation dies, if every payload is inline.
* **Embedding.**  `EmbedSingleFlight`, `EmbedNoStrandedWaiter`, `EmbedTypeCorrect`
  from `Owned`: the caller in `inFlight[k]` is exactly the one that posts `k`.
  `EmbedCacheBounded` from `CacheInv`: no two valid entries have the same age, so the
  ranks by which the pruning keeps entries are pairwise different.  (In
  `HydrationProofs`, since a hydration begins with an embedding.)
* **Agent memory.**  `MemoryKeepsEveryFact` and `MemoryArchivesFirst` from
  `WeakArchived`: an attempt about to delete has archived what it deletes.
  `MemoryDeduplicates`, for one process, from `CurrentNew`: what is about to be
  upserted is near nothing, which the nightly run can only make truer.
* **Shared memory.**  `SharedSearchable`, in every deployment, from `RightStore` (a
  promotion under way is at the store of its channel) and `Kept` (what was answered is
  there, or something near it); `SharedFoundByAll`: without Graphiti that is every
  reader.  `SharedDeduplicates` from `JobNew` and `BusyInSetup`, whose hypothesis (a
  single promoting process) is in the property.
* **Hydration.**  `HydrationTypeCorrect`, `HydrationRespectsBudget` and
  `HydrationDropsOnlyForRoom`, for all sessions, chunk lists, sizes, budgets and
  configurations.  `TurnsInv` says that the turns kept take at most half of the
  room and lie after the one the loop is at; `RemainingInv`, that `remaining` is the
  room less what the turns kept and the chunks included take, in every phase, and
  never negative; `RankInv`, that a chunk tried comes before each one not tried, and
  that one tried and left out had too little room left by the chunks above it.
  Tokens are sums over finite sets, of which the proofs use that a sum over a union
  with one more member is larger by that member.
  `HydrationReportsFailures`: the loops include only what was
  found, and what is lost stays lost.  `WeightsFollowConfiguration`, for every poll
  interval and set of configurations, from `FreshInv`: the cache holds the
  configuration, is due to be loaded, or was loaded before the last change.
* **Agent workflow.**  The three safety properties, for any number of workflows and
  tool calls.  `IInv` says that no attempt is under way before its step
  (`NothingEarly`), that the session and every checkpoint still under way hold turns
  in context (`Contexts`), what a fetch owes a workflow it holds (`HoldsShown`), and
  that tool calls done are promoted (`Promoting`).  The properties alone say nothing
  of attempts that were given up and may still act.
* **Grants.**  `GrantsTakeEffect`, whichever registry is built, from `Agreement`: an
  entry that disagrees with the table comes from a SELECT before the change, so
  the age of the change plus what is left of the entry's life is at most
  `TTL + MaxDelay`; likewise for a SELECT that was not yet written and for a recall
  that filters.
* **Ingestion.**  `IngestSkipsOnlyIndexed` (what a run is about to record is
  indexed) and `IngestCatchesUp` (from the diff to the end a run still holds every
  resource the sync state disagrees with).
* **Registry.**  `RegistryTypeCorrect`, `RegistryStoresAcknowledged`,
  `RegistryListsAcknowledged`, `RegistryMergesPatches` and `RegistryImplementsTable`,
  for any number of requests, connectors, workspaces and bodies.  `StoreInv`: what is
  stored has an owner, acknowledged is stored or went with a process, a lost connector
  is neither stored nor the target of a request (`LostIsGone`), and a PATCH
  between its check and its write has a connector that is still stored, or one whose
  DELETE fell in between (`WritesStored`); the property alone says nothing of it.
  The refinement is proved action by action: each step of a handler is one statement
  that names the request's workspace, or leaves the table and `caller` as they are.
  `TypeOK` supplies that a request past its check acts for the workspace of its
  connector.
* **Chunker.**  `ChunksKeepText` and `ChunksStaySmall`, for every text and all four
  sizes.  `Keeps`: the units of the chunks and of the chunk begun follow one another
  and end before `at` (`Placed`), and what must not be lost before `at` is in one of
  them (`Covers`); the chunks that are left out as blank hold nothing of the kind.
  `SmallInv`: what `current_size` says of the chunk begun (`Sized`), with the lengths of
  the joined texts, separators included, and for code how long it was before its last
  line and before each definition (`CodeSmall`).
* **Screening.**  `ScreenDropsSecrets`, `ScreenAuditsReleased` and `ScreenCutsSpans`, for
  all texts, matches, overrides and lengths of replacements.  `ScreenTyped` ties the
  round to what was declared; `ScreenedInv` says that all chunks
  before `chunk_index` are in `screened` or dropped and have their rows in the open
  transaction, and after the commit in the log; the properties alone say nothing of
  a batch under way.  For the spans, `Place` makes the order of the matches total, so
  that the sorted matches are a bijection from `1 .. n`; as long as no length has
  changed, what was cut so far is the text with marks at the places of the matches
  before, overlapping or not.

The invariants of the chunker and of the screening are conjuncts of `TextInv`, which
is inductive (`TextInvariant`).  `FlattenSeq`, sums and the function of the
replacements are defined by recursion.  What is used of them is proved without the
library's induction theorems: a set of naturals without a least member is empty, so
the least place where a claim fails leads to a contradiction (`LeastNatural`,
`AllNaturals`, `AllPrefixes`), with the claim written as a set.

Model-checked only: the liveness properties `EveryCallAnswered`,
`UnusedEntriesLeave` and `EndsUnlessRecalled`, since liveness under fairness is out of
the prover's reach, and the violation of `RecalledIsCheckpointed`.  Every other property
of a run is stated by a theorem; the three of the session have the condition
`Harmless`, `MemoryDeduplicates` that of a single process, which their runs meet.

## 7. Where code and documents disagree

One disagreement is a run: `agent_recall`, an expected violation.  The others that
were met while modelling can be reproduced by hand: the configurations below, and the
properties of the second table, which are checked by the configuration named there
with its INVARIANTS and PROPERTY replaced by that property.  TLC finds each of them
violated.  References are to
`specs/001-memrag-production-memory/` where no other path is given.

| Configuration | Property | What the code does, and the text |
|---|---|---|
| `session_crash` | `CheckpointDurable` | a process that dies between `session.py:116` and `:136` leaves a manifest without chunks; spec.md:475 "MUST be durably checkpointed" |
| `session_read_during_write` | `EmptyOnlyWithoutSession` | a fetch between the two calls answers `[]`; the docstring at `session.py:81` "an empty list if no session is found" |
| `memory_half_life` | `KeptForHalfLife` | the decayed score is decayed again by the whole idle time every night, so an entry goes before its half-life; data-model.md:42, spec.md:464-465 |
| `memory_first_page` | `UnusedEntriesLeave` | one page of 512 is scrolled; tasks.md:95 "by batch" |
| `memory_used_today` | `KeptWhenJustUsed` | an entry recalled between scroll and delete is deleted; data-model.md:42 |
| `grants_scope` | `ScopeTakesEffect` | PATCH ignores `sharing_scope`, and payloads keep the scope they were stored with; spec.md:537-540 |
| `grants_one_lifetime` | `WithinOneLifetime` | a late SETEX adds its delay to the staleness; spec.md:550-551 |
| `grants_unwired` | `AcknowledgedTakesEffect` | `cmd/main.go` keeps grants in `MockQueries`, recalls read PostgreSQL; spec.md:259-262 |
| `ingest_collision` | `SyncedIsOwned` | the point of a text that two connectors hold changes owner and is not taken back; spec.md:426-428, research.md:46 |
| `ingest_stale` | `IndexStaysFresh` | chunks of an edited resource stay; spec.md:138-139 |
| `ingest_crowded` | `RecallFindsReadable` | scopes are applied after the limit of the query; spec.md:542 |
| `ingest_purge` | `DeletedIsPurged` | nothing deletes the points of a deleted connector; contracts/connector_management_api.md:148-149 |

| Configuration | Property | What the code does, and the text |
|---|---|---|
| `session_concurrent`, `Deaths = {"load"}` | `KeysExpireTogether` and `CheckpointDurable` | a fetch that dies between the EXPIRE of the manifest (`session.py:41`) and those of its chunks leaves them with different clocks, and later a manifest without chunks; spec.md:475 |
| `shared_memory` | `FoundByAgents` | with `GRAPHITI_ENABLED` promotions over REST and by agents go to Graphiti, and the recall of the agents reads Qdrant (`activities/memory.py:76-84`); spec.md:730-732 (SC-004), :625 (FR-033) |
| `shared_memory` | `FoundByServices` | with `GRAPHITI_ENABLED` the MCP tool still promotes to Qdrant, and `search_shared` and `hydrate` read Graphiti; spec.md:625-627 |
| `shared_memory` | `OneEntryPerFinding` | two processes on Qdrant check before either has stored; spec.md:435-437 "only one entry is stored" |
| `hydrate` | `PromptWithinBudget` | headings, labels and citations are not counted; contracts/context_hydration.md:56 |
| `hydrate` | `NewestTurnsKept` | an older turn may stay where a newer one goes; spec.md:582-584 |
| `hydrate` | `TurnsRemovedOnlyOnOverflow` | turns get half of the room; contracts/context_hydration.md:87-88 |
| `registry` | `TriggerReachesRun` | the workflow is started as `ingestion-{id}-{workspace}` and signalled as `ingestion-{id}`; the docstring at `main.py:682` |
| `registry` | `StatusFollowsRun` | nothing writes the sync status after POST; contracts/connector_management_api.md (GET status) |
| `registry` | `AcknowledgedOutlivesRestart` | `cmd/main.go:26` builds `MockQueries`, whose connectors go with the process; data-model.md:104-109 and plan.md:109 put them in PostgreSQL |
| `registry` | `DeletedStaysDeleted` | a PATCH past its check stores the deleted connector again; contracts/connector_management_api.md:148 |
| `agent_workflow` | `EveryWorkflowEnds` | `agent_workflow.py:67` and `:106` read `memory.text` of a dict; the workflow never ends (`agent_recall` is about what it therefore does not write) |
| `agent_workflow` | `OutputOnItsWay` | the storing of the output is started, not awaited, and dropped when the workflow closes first; spec.md FR-001 |
| `agent_workflow` | `RecallMayFail` | a recall that fails twice fails the workflow; spec.md FR-029 |
| `agent_workflow` | `TurnsKept` | of two overlapping workflows the later checkpoint writes over the turns of the other; spec.md:475 |
| `text_steps` | `HardRedacted` | after a replacement that changes the length, later spans are cut at the wrong place; spec.md FR-017 |
| `text_steps` | `EveryMatchAudited` | the scan of a chunk ends at the first match that drops it, later ones are not audited; spec.md FR-020 |
| `text_steps` | `OneTablePerChunk` | a CREATE TABLE that is not closed swallows the next; spec.md FR-014 |
| `text_steps` | `ChunksOverlap` | the overlap of a chunk is the end of the paragraph that begins it, not of the chunk before; spec.md FR-014 |

`session_one_writer` is a passing one: with a single writer `NoOrphanChunks` holds.

## 8. Not modelled, and what could follow

Left out for good: HTTP clients of the connectors, embedders, sparse vectors,
metrics, manifests, migrations, secrets, test doubles and deployment (pure I/O,
data classes or configuration); header checks and the MCP dispatch of memory-api;
the agent scope of layer 4 (a test of one payload without state); the copies of
the shared library in agent-workers, where they do not differ towards a store.

What could follow:

1. `Registry` composed with `OrgIngestion`: a workflow started without a connector
   configuration, and the deletion of a connector whose run is under way.
2. An abstract knowledge index, a set of owned texts, that `OrgIngestion` implements
   for the texts only one source holds; the embedding cache as a partial map.
