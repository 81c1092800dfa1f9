---------------------------- MODULE AgentMemory ----------------------------
(***************************************************************************)
(* Layer 2, the long-term memory of the agents of one workspace: the       *)
(* collection agent_memories of Qdrant, written by extract_and_store, read *)
(* by recall_agent_memory and aged by the nightly activity                 *)
(* decay_and_archive, which moves weak entries to the tombstone archive.   *)
(*                                                                         *)
(* The Qdrant client is synchronous: after the embedding of its input has  *)
(* been awaited, a store or a recall runs to its end without a suspension  *)
(* point, so an operating system process is one actor, and an action is    *)
(* one call to Qdrant.  A decay score is kept as its logarithm: the entry  *)
(* with loss n has the score exp(-n / HalfLife).  Every entry is semantic, *)
(* the only memory type extract_and_store writes.                          *)
(***************************************************************************)
EXTENDS Naturals, FiniteSets

CONSTANTS
    Facts,        \* facts of the workspace; a fact determines its point id
    AgentOf,      \* AgentOf[f]: the agent that states f
    Similar,      \* pairs of facts whose embeddings have similarity >= 0.95
    Rank,         \* Rank[f]: position of the id of f, the order of a scroll
    Procs,        \* processes that store and recall (memory-api, agent-workers)
    Decayers,     \* attempts of the nightly activity that may run at once
    HalfLife,     \* _half_life("semantic"), in days
    ScrollLimit,  \* 512
    MaxIdle,      \* bound: an entry unused for longer counts as this old
    Recalls,      \* whether anybody recalls
    Failures,     \* whether requests and attempts may fail
    None          \* no fact

Attempts == 2     \* maximum_attempts of DecayMemoriesWorkflow

ASSUME HalfLifeAssumption == HalfLife \in Nat /\ MaxIdle \in Nat
ASSUME RankAssumption == Rank \in [Facts -> Nat]
ASSUME SimilarAssumption ==
    /\ Similar \subseteq Facts \X Facts
    /\ \A f \in Facts : <<f, f>> \in Similar
    /\ \A f, g \in Facts : <<f, g>> \in Similar => <<g, f>> \in Similar
ASSUME NoneAssumption == None \notin Facts

VARIABLES
    live,       \* facts that have a point in agent_memories
    idle,       \* idle[f]: whole days since last_accessed_at
    loss,       \* loss[f]: logarithm of decay_score, times -HalfLife
    archived,   \* facts with a row in the tombstone table
    handled,    \* history: facts stored, or skipped as duplicates
    pc,         \* pc[p]: what the process p does next
    work,       \* work[p]: facts still to store, or the hits to touch
    cur,        \* cur[p]: the fact found new and about to be upserted
    dpc,        \* dpc[d]: what the attempt d does next
    scores,     \* scores[d]: strong entries whose new score d has yet to write
    weak,       \* weak[d]: entries d has found below 0.1
    aged,       \* aged[d]: the losses d computed from its scroll
    due         \* attempts tonight's run has left

points == <<live, idle, loss>>
clients == <<pc, work, cur>>
nightly == <<dpc, scores, weak, aged, due>>
vars == <<points, archived, handled, clients, nightly>>

Near(f, g) == AgentOf[f] = AgentOf[g] /\ <<f, g>> \in Similar

\* is_near_duplicate: the nearest entry of the same agent is close enough.
IsNearDuplicate(f) == \E g \in live : Near(f, g)

\* exp(-n / HalfLife) < 0.1, as ln 10 = 2.3026 (exact for the half-lives of
\* the code and of the runs).
Weak(n) == 1000 * n > 2303 * HalfLife

Zero == [f \in Facts |-> 0]

-----------------------------------------------------------------------------
Init ==
    /\ live = {} /\ idle = Zero /\ loss = Zero
    /\ archived = {} /\ handled = {}
    /\ pc = [p \in Procs |-> "idle"]
    /\ work = [p \in Procs |-> {}]
    /\ cur = [p \in Procs |-> None]
    /\ dpc = [d \in Decayers |-> "idle"]
    /\ scores = [d \in Decayers |-> {}]
    /\ weak = [d \in Decayers |-> {}]
    /\ aged = [d \in Decayers |-> Zero]
    /\ due = 0

(***************************************************************************)
(* extract_and_store.                                                      *)
(***************************************************************************)
\* The facts are extracted and embedded; the loop over them begins.
StartStore(p, fs) ==
    /\ pc[p] = "idle" /\ fs # {}
    /\ pc' = [pc EXCEPT ![p] = "check"]
    /\ work' = [work EXCEPT ![p] = fs]
    /\ UNCHANGED <<points, archived, handled, cur, nightly>>

\* Leave the loop when the last fact is done.
Continue(p, f) ==
    /\ work' = [work EXCEPT ![p] = @ \ {f}]
    /\ pc' = [pc EXCEPT ![p] = IF work[p] = {f} THEN "idle" ELSE "check"]
    /\ handled' = handled \cup {f}

Skip(p, f) ==
    /\ pc[p] = "check" /\ f \in work[p]
    /\ IsNearDuplicate(f)
    /\ Continue(p, f)
    /\ UNCHANGED <<points, archived, cur, nightly>>

\* Mutant: the duplicate check is left out.
FindNewUnchecked(p, f) ==
    /\ pc[p] = "check" /\ f \in work[p]
    /\ pc' = [pc EXCEPT ![p] = "upsert"]
    /\ cur' = [cur EXCEPT ![p] = f]
    /\ UNCHANGED <<points, archived, handled, work, nightly>>

FindNew(p, f) ==
    /\ pc[p] = "check" /\ f \in work[p]
    /\ ~IsNearDuplicate(f)
    /\ pc' = [pc EXCEPT ![p] = "upsert"]
    /\ cur' = [cur EXCEPT ![p] = f]
    /\ UNCHANGED <<points, archived, handled, work, nightly>>

\* A new point, or the whole payload of the point with the same id.
Upsert(p) ==
    /\ pc[p] = "upsert"
    /\ live' = live \cup {cur[p]}
    /\ idle' = [idle EXCEPT ![cur[p]] = 0]
    /\ loss' = [loss EXCEPT ![cur[p]] = 0]
    /\ Continue(p, cur[p])
    /\ cur' = [cur EXCEPT ![p] = None]
    /\ UNCHANGED <<archived, nightly>>

(***************************************************************************)
(* recall_agent_memory: one query, then one set_payload on the hits.       *)
(***************************************************************************)
Recall(p, fs) ==
    /\ Recalls
    /\ pc[p] = "idle" /\ fs # {}
    /\ fs \subseteq live
    /\ \A f, g \in fs : AgentOf[f] = AgentOf[g]
    /\ pc' = [pc EXCEPT ![p] = "touch"]
    /\ work' = [work EXCEPT ![p] = fs]
    /\ UNCHANGED <<points, archived, handled, cur, nightly>>

\* Only last_accessed_at is written, and only on points that still exist.
Touch(p) ==
    /\ pc[p] = "touch"
    /\ idle' = [f \in Facts |-> IF f \in work[p] THEN 0 ELSE idle[f]]
    /\ pc' = [pc EXCEPT ![p] = "idle"]
    /\ work' = [work EXCEPT ![p] = {}]
    /\ UNCHANGED <<live, loss, archived, handled, cur, nightly>>

\* A call to Qdrant fails, or the process dies: the request is over.
Abandon(p) ==
    /\ Failures
    /\ pc[p] # "idle"
    /\ pc' = [pc EXCEPT ![p] = "idle"]
    /\ work' = [work EXCEPT ![p] = {}]
    /\ cur' = [cur EXCEPT ![p] = None]
    /\ UNCHANGED <<points, archived, handled, nightly>>

-----------------------------------------------------------------------------
(***************************************************************************)
(* decay_and_archive.  The schedule is one run per night, of at most two   *)
(* attempts; the second may start while a timed out first one still runs.  *)
(***************************************************************************)
\* The batch of one scroll: the first ScrollLimit points in the order of ids.
FirstPage(S) ==
    /\ S \subseteq live
    /\ Cardinality(S) <= ScrollLimit
    /\ S # live => Cardinality(S) = ScrollLimit
    /\ \A f \in S, g \in live \ S : Rank[f] < Rank[g]

StopDecay(d) ==
    /\ dpc' = [dpc EXCEPT ![d] = "idle"]
    /\ scores' = [scores EXCEPT ![d] = {}]
    /\ weak' = [weak EXCEPT ![d] = {}]
    /\ aged' = [aged EXCEPT ![d] = Zero]

\* Mutant: the last access is not found, and _parse_datetime answers now.
ScrollNow(d, S) ==
    /\ dpc[d] = "idle" /\ due > 0
    /\ FirstPage(S)
    /\ due' = due - 1
    /\ dpc' = [dpc EXCEPT ![d] = "score"]
    /\ aged' = [aged EXCEPT ![d] = [f \in Facts |-> IF f \in S THEN loss[f] ELSE 0]]
    /\ scores' = [scores EXCEPT ![d] = S]
    /\ UNCHANGED <<points, archived, handled, clients, weak>>

\* The scores are computed from the payloads the scroll returns: the old
\* score, which already holds the earlier nights, is decayed again by all
\* the days since the last access.
Scroll(d, S) ==
    LET loss2 == [f \in Facts |-> IF f \in S THEN loss[f] + idle[f] ELSE 0]
    IN  /\ dpc[d] = "idle" /\ due > 0
        /\ FirstPage(S)
        /\ due' = due - 1
        /\ dpc' = [dpc EXCEPT ![d] = "score"]
        /\ aged' = [aged EXCEPT ![d] = loss2]
        /\ weak' = [weak EXCEPT ![d] = {f \in S : Weak(loss2[f])}]
        /\ scores' = [scores EXCEPT ![d] = {f \in S : ~Weak(loss2[f])}]
        /\ UNCHANGED <<points, archived, handled, clients>>

WriteScore(d, f) ==
    /\ dpc[d] = "score" /\ f \in scores[d]
    /\ loss' = [loss EXCEPT ![f] = IF f \in live THEN aged[d][f] ELSE @]
    /\ scores' = [scores EXCEPT ![d] = @ \ {f}]
    /\ UNCHANGED <<live, idle, archived, handled, clients, dpc, weak, aged, due>>

\* Mutant: weak entries are deleted without a row in the archive.
ArchiveNothing(d) ==
    /\ dpc[d] = "score" /\ scores[d] = {}
    /\ dpc' = [dpc EXCEPT ![d] = "delete"]
    /\ UNCHANGED <<points, archived, handled, clients, scores, weak, aged, due>>

Archive(d) ==
    /\ dpc[d] = "score" /\ scores[d] = {}
    /\ archived' = archived \cup weak[d]
    /\ dpc' = [dpc EXCEPT ![d] = "delete"]
    /\ UNCHANGED <<points, handled, clients, scores, weak, aged, due>>

\* Mutant: the entries to delete are those that are weak by now.
DeleteWeakNow(d) ==
    LET gone == {f \in live : Weak(loss[f] + idle[f])}
    IN  /\ dpc[d] = "delete"
        /\ live' = live \ gone
        /\ idle' = [f \in Facts |-> IF f \in gone THEN 0 ELSE idle[f]]
        /\ loss' = [f \in Facts |-> IF f \in gone THEN 0 ELSE loss[f]]
        /\ due' = 0
        /\ StopDecay(d)
        /\ UNCHANGED <<archived, handled, clients>>

\* delete_ids, whatever has happened to these points since the scroll.
Delete(d) ==
    /\ dpc[d] = "delete"
    /\ live' = live \ weak[d]
    /\ idle' = [f \in Facts |-> IF f \in weak[d] THEN 0 ELSE idle[f]]
    /\ loss' = [f \in Facts |-> IF f \in weak[d] THEN 0 ELSE loss[f]]
    /\ due' = 0
    /\ StopDecay(d)
    /\ UNCHANGED <<archived, handled, clients>>

\* Any call of an attempt may fail, and its worker may die.
FailDecay(d) ==
    /\ Failures
    /\ dpc[d] # "idle"
    /\ StopDecay(d)
    /\ UNCHANGED <<points, archived, handled, clients, due>>

\* A day passes and it is 02:00 again.  Bound: whatever starts on one day,
\* a request or an attempt, has ended on the next.
Day ==
    /\ \A p \in Procs : pc[p] = "idle"
    /\ \A d \in Decayers : dpc[d] = "idle"
    /\ idle' = [f \in Facts |->
                    IF f \in live /\ idle[f] < MaxIdle THEN idle[f] + 1 ELSE idle[f]]
    /\ due' = Attempts
    /\ UNCHANGED <<live, loss, archived, handled, clients, dpc, scores, weak, aged>>

-----------------------------------------------------------------------------
RequestStep(p) ==
    \/ \E f \in Facts : Skip(p, f) \/ FindNew(p, f)
    \/ Upsert(p) \/ Touch(p) \/ Abandon(p)

Next ==
    \/ \E p \in Procs, fs \in SUBSET Facts : StartStore(p, fs) \/ Recall(p, fs)
    \/ \E p \in Procs : RequestStep(p)
    \/ \E d \in Decayers, S \in SUBSET Facts : Scroll(d, S)
    \/ \E d \in Decayers, f \in Facts : WriteScore(d, f)
    \/ \E d \in Decayers : Archive(d) \/ Delete(d) \/ FailDecay(d)
    \/ Day

DecayStep(d) ==
    \/ \E S \in SUBSET Facts : Scroll(d, S)
    \/ \E f \in Facts : WriteScore(d, f)
    \/ Archive(d) \/ Delete(d)

\* Requests end, days pass, Temporal starts the attempts of each night, and
\* the outages that make attempts fail come to an end.
Fairness ==
    /\ SF_vars(Day)
    /\ \A p \in Procs : WF_vars(RequestStep(p))
    /\ \A d \in Decayers : WF_vars(DecayStep(d))
    /\ <>[][\A d \in Decayers : ~FailDecay(d)]_vars

Spec == Init /\ [][Next]_vars
FairSpec == Spec /\ Fairness

-----------------------------------------------------------------------------
\* Every variable has its type.
TypeOK ==
    /\ live \subseteq Facts
    /\ idle \in [Facts -> 0 .. MaxIdle]
    /\ loss \in [Facts -> Nat]
    /\ archived \subseteq Facts
    /\ handled \subseteq Facts
    /\ pc \in [Procs -> {"idle", "check", "upsert", "touch"}]
    /\ work \in [Procs -> SUBSET Facts]
    /\ cur \in [Procs -> Facts \cup {None}]
    /\ dpc \in [Decayers -> {"idle", "score", "delete"}]
    /\ scores \in [Decayers -> SUBSET Facts]
    /\ weak \in [Decayers -> SUBSET Facts]
    /\ aged \in [Decayers -> [Facts -> Nat]]
    /\ due \in 0 .. Attempts

\* Every fact an agent has handed over is still remembered, itself or a near
\* duplicate that made extract_and_store skip it, or it is in the archive:
\* no interleaving of stores, decay attempts and failures loses it.
RememberedOrArchived ==
    \A f \in handled : \E g \in live \cup archived : Near(f, g)

\* No two entries of one agent are near duplicates (threshold 0.95 of
\* is_near_duplicate); claimed for a single storing process.
NoNearDuplicates == \A f, g \in live : Near(f, g) => f = g

\* An entry leaves Qdrant only after its row is in the tombstone table, by
\* whichever attempt of the nightly run it is deleted.
ArchivedBeforeDeleted == [][live \ live' \subseteq archived]_vars

\* An entry nobody uses any more does not stay for ever: it is deleted or
\* used again.
UnusedEntriesLeave ==
    \A f \in Facts :
        (f \in live /\ idle[f] > 0) ~> (f \notin live \/ idle[f] = 0)

\* The documented schedule: a semantic entry is not removed before it has
\* been inactive for its half-life (data-model.md, decay schedule).
KeptForHalfLife == [][\A f \in live \ live' : idle[f] >= HalfLife]_vars

\* The same schedule seen from a recall: an entry accessed today is not
\* removed today.
KeptWhenJustUsed == [][\A f \in live \ live' : idle[f] > 0]_vars
=============================================================================
