------------------------- MODULE AgentMemoryProofs -------------------------
(***************************************************************************)
(* Proofs about AgentMemory, for every set of facts, of processes and of   *)
(* decay attempts, every similarity relation and every schedule.           *)
(***************************************************************************)
EXTENDS AgentMemory, TLAPS

(***************************************************************************)
(* Type correctness.                                                       *)
(***************************************************************************)
LEMMA ScrollTypes ==
    ASSUME TypeOK, NEW d \in Decayers, NEW S \in SUBSET Facts, Scroll(d, S)
    PROVE  TypeOK'
<1> DEFINE aged2 == [f \in Facts |-> IF f \in S THEN loss[f] + idle[f] ELSE 0]
<1>1. aged2 \in [Facts -> Nat]
    BY HalfLifeAssumption DEF TypeOK
<1>2. /\ {f \in S : Weak(aged2[f])} \in SUBSET Facts
      /\ {f \in S : ~Weak(aged2[f])} \in SUBSET Facts
    OBVIOUS
<1>3. /\ aged' = [aged EXCEPT ![d] = aged2]
      /\ weak' = [weak EXCEPT ![d] = {f \in S : Weak(aged2[f])}]
      /\ scores' = [scores EXCEPT ![d] = {f \in S : ~Weak(aged2[f])}]
    BY DEF Scroll
<1>4. UNCHANGED <<points, archived, handled, clients>> /\ due' = due - 1 /\ due > 0
      /\ dpc' = [dpc EXCEPT ![d] = "score"]
    BY DEF Scroll
<1> HIDE DEF aged2
<1>5. aged' \in [Decayers -> [Facts -> Nat]]
    BY <1>1, <1>3 DEF TypeOK
<1>6. weak' \in [Decayers -> SUBSET Facts] /\ scores' \in [Decayers -> SUBSET Facts]
    BY <1>2, <1>3 DEF TypeOK
<1>7. due' \in 0 .. Attempts
    BY <1>4 DEF TypeOK, Attempts
<1> QED
    BY <1>4, <1>5, <1>6, <1>7 DEF TypeOK, points, clients

\* A process about to upsert has a fact to upsert.
CurrentKnown == \A p \in Procs : pc[p] = "upsert" => cur[p] \in Facts

TypeInv == TypeOK /\ CurrentKnown

LEMMA TypeInit == Init => TypeInv
BY HalfLifeAssumption DEF Init, TypeInv, TypeOK, CurrentKnown, Zero, Attempts

LEMMA TypeStep == TypeInv /\ [Next]_vars => TypeInv'
<1> SUFFICES ASSUME TypeInv, [Next]_vars PROVE TypeInv'
    OBVIOUS
<1> USE DEF TypeInv, CurrentKnown, points, clients, nightly
<1>1. ASSUME NEW p \in Procs, NEW fs \in SUBSET Facts, StartStore(p, fs)
      PROVE  TypeInv'
    BY <1>1 DEF StartStore, TypeOK
<1>2. ASSUME NEW p \in Procs, NEW fs \in SUBSET Facts, Recall(p, fs)
      PROVE  TypeInv'
    BY <1>2 DEF Recall, TypeOK
<1>3. ASSUME NEW p \in Procs, NEW f \in Facts, Skip(p, f)
      PROVE  TypeInv'
    BY <1>3 DEF Skip, Continue, TypeOK
<1>4. ASSUME NEW p \in Procs, NEW f \in Facts, FindNew(p, f)
      PROVE  TypeInv'
    BY <1>4 DEF FindNew, TypeOK
<1>5. ASSUME NEW p \in Procs, Upsert(p)
      PROVE  TypeInv'
    BY <1>5, HalfLifeAssumption DEF Upsert, Continue, TypeOK
<1>6. ASSUME NEW p \in Procs, Touch(p)
      PROVE  TypeInv'
    BY <1>6, HalfLifeAssumption DEF Touch, TypeOK
<1>7. ASSUME NEW p \in Procs, Abandon(p)
      PROVE  TypeInv'
    BY <1>7 DEF Abandon, TypeOK
<1>8. ASSUME NEW d \in Decayers, NEW S \in SUBSET Facts, Scroll(d, S)
      PROVE  TypeInv'
    BY <1>8, ScrollTypes DEF Scroll
<1>9. ASSUME NEW d \in Decayers, NEW f \in Facts, WriteScore(d, f)
      PROVE  TypeInv'
    BY <1>9 DEF WriteScore, TypeOK
<1>10. ASSUME NEW d \in Decayers, Archive(d)
       PROVE  TypeInv'
    BY <1>10 DEF Archive, TypeOK
<1>11. ASSUME NEW d \in Decayers, Delete(d)
       PROVE  TypeInv'
    BY <1>11, HalfLifeAssumption DEF Delete, StopDecay, Zero, Attempts, TypeOK
<1>12. ASSUME NEW d \in Decayers, FailDecay(d)
       PROVE  TypeInv'
    BY <1>12 DEF FailDecay, StopDecay, Zero, TypeOK
<1>13. CASE Day
    BY <1>13, HalfLifeAssumption DEF Day, Attempts, TypeOK
<1>14. CASE UNCHANGED vars
    BY <1>14 DEF vars, TypeOK
<1> QED
    BY <1>1, <1>2, <1>3, <1>4, <1>5, <1>6, <1>7, <1>8, <1>9, <1>10, <1>11,
       <1>12, <1>13, <1>14 DEF Next, RequestStep

\* Type correctness of the collection, the requests and the nightly run.
THEOREM MemoryTypeCorrect == Spec => []TypeOK
<1>1. Spec => []TypeInv
    BY TypeInit, TypeStep, PTL DEF Spec
<1> QED
    BY <1>1, PTL DEF TypeInv

-----------------------------------------------------------------------------
(***************************************************************************)
(* Nothing handed over is lost.  The strengthening: what an attempt is     *)
(* about to delete is in the archive already.                              *)
(***************************************************************************)
WeakArchived == \A d \in Decayers : dpc[d] = "delete" => weak[d] \subseteq archived

KeepInv == TypeInv /\ WeakArchived /\ RememberedOrArchived

LEMMA NearReflexive == \A f \in Facts : Near(f, f)
BY SimilarAssumption DEF Near

LEMMA KeepInit == Init => KeepInv
BY TypeInit DEF Init, KeepInv, WeakArchived, RememberedOrArchived

LEMMA KeepStep == KeepInv /\ [Next]_vars => KeepInv'
<1> SUFFICES ASSUME KeepInv, [Next]_vars PROVE WeakArchived' /\ RememberedOrArchived'
    BY TypeStep DEF KeepInv
<1> USE DEF points, clients, nightly
<1>a. TypeOK /\ CurrentKnown /\ WeakArchived /\ RememberedOrArchived
    BY DEF KeepInv, TypeInv
<1>1. ASSUME NEW p \in Procs, NEW f \in Facts, Skip(p, f)
      PROVE  WeakArchived' /\ RememberedOrArchived'
  <2>1. handled' = handled \cup {f} /\ UNCHANGED <<live, archived, nightly>>
    BY <1>1 DEF Skip, Continue
  <2>2. \E g \in live : Near(f, g)
    BY <1>1 DEF Skip, IsNearDuplicate
  <2>3. RememberedOrArchived'
    BY <1>a, <2>1, <2>2 DEF RememberedOrArchived, Near
  <2> QED
    BY <1>a, <2>1, <2>3 DEF WeakArchived
<1>2. ASSUME NEW p \in Procs, Upsert(p)
      PROVE  WeakArchived' /\ RememberedOrArchived'
  <2>1. /\ handled' = handled \cup {cur[p]} /\ live' = live \cup {cur[p]}
        /\ UNCHANGED <<archived, nightly>>
    BY <1>2 DEF Upsert, Continue
  <2>2. Near(cur[p], cur[p])
    BY <1>2, <1>a, NearReflexive DEF CurrentKnown, Upsert
  <2>3. RememberedOrArchived'
    BY <1>a, <2>1, <2>2 DEF RememberedOrArchived, Near
  <2> QED
    BY <1>a, <2>1, <2>3 DEF WeakArchived
<1>3. ASSUME NEW d \in Decayers, Archive(d)
      PROVE  WeakArchived' /\ RememberedOrArchived'
  <2>1. /\ archived' = archived \cup weak[d] /\ dpc' = [dpc EXCEPT ![d] = "delete"]
        /\ UNCHANGED <<live, handled, weak>>
    BY <1>3 DEF Archive
  <2>2. WeakArchived'
    BY <1>a, <2>1 DEF WeakArchived, TypeOK
  <2>3. RememberedOrArchived'
    BY <1>a, <2>1 DEF RememberedOrArchived, Near
  <2> QED
    BY <2>2, <2>3
<1>4. ASSUME NEW d \in Decayers, Delete(d)
      PROVE  WeakArchived' /\ RememberedOrArchived'
  <2>1. /\ live' = live \ weak[d] /\ UNCHANGED <<archived, handled>>
        /\ dpc' = [dpc EXCEPT ![d] = "idle"] /\ weak' = [weak EXCEPT ![d] = {}]
    BY <1>4 DEF Delete, StopDecay
  <2>2. weak[d] \subseteq archived
    BY <1>4, <1>a DEF Delete, WeakArchived
  <2>3. WeakArchived'
    BY <1>a, <2>1 DEF WeakArchived, TypeOK
  <2>4. RememberedOrArchived'
    BY <1>a, <2>1, <2>2 DEF RememberedOrArchived, Near
  <2> QED
    BY <2>3, <2>4
<1>5. ASSUME NEW d \in Decayers, NEW S \in SUBSET Facts, Scroll(d, S)
      PROVE  WeakArchived' /\ RememberedOrArchived'
  <2>1. /\ UNCHANGED <<live, archived, handled>>
        /\ dpc' = [dpc EXCEPT ![d] = "score"]
        /\ \A e \in Decayers : e # d => weak'[e] = weak[e]
    BY <1>5, <1>a DEF Scroll, TypeOK
  <2> QED
    BY <1>a, <2>1 DEF WeakArchived, RememberedOrArchived, Near, TypeOK
<1>6. ASSUME NEW d \in Decayers, FailDecay(d)
      PROVE  WeakArchived' /\ RememberedOrArchived'
  <2>1. /\ UNCHANGED <<live, archived, handled>>
        /\ dpc' = [dpc EXCEPT ![d] = "idle"] /\ weak' = [weak EXCEPT ![d] = {}]
    BY <1>6 DEF FailDecay, StopDecay
  <2> QED
    BY <1>a, <2>1 DEF WeakArchived, RememberedOrArchived, Near, TypeOK
<1>7. ASSUME UNCHANGED <<live, archived, handled, dpc, weak>>
      PROVE  WeakArchived' /\ RememberedOrArchived'
    BY <1>7, <1>a DEF WeakArchived, RememberedOrArchived, Near
<1>8. ASSUME NEW p \in Procs, NEW fs \in SUBSET Facts,
             StartStore(p, fs) \/ Recall(p, fs)
      PROVE  UNCHANGED <<live, archived, handled, dpc, weak>>
    BY <1>8 DEF StartStore, Recall
<1>9. ASSUME NEW p \in Procs, NEW f \in Facts, FindNew(p, f)
      PROVE  UNCHANGED <<live, archived, handled, dpc, weak>>
    BY <1>9 DEF FindNew
<1>10. ASSUME NEW p \in Procs, Touch(p) \/ Abandon(p)
       PROVE  UNCHANGED <<live, archived, handled, dpc, weak>>
    BY <1>10 DEF Touch, Abandon
<1>11. ASSUME NEW d \in Decayers, NEW f \in Facts, WriteScore(d, f)
       PROVE  UNCHANGED <<live, archived, handled, dpc, weak>>
    BY <1>11 DEF WriteScore
<1>12. ASSUME Day \/ UNCHANGED vars
       PROVE  UNCHANGED <<live, archived, handled, dpc, weak>>
    BY <1>12 DEF Day, vars
<1> QED
    BY <1>1, <1>2, <1>3, <1>4, <1>5, <1>6, <1>7, <1>8, <1>9, <1>10, <1>11, <1>12
    DEF Next, RequestStep

\* No interleaving of stores, recalls, decay attempts and failures loses a
\* fact that was handed over: it or a near duplicate is live or archived.
THEOREM MemoryKeepsEveryFact == Spec => []RememberedOrArchived
<1>1. Spec => []KeepInv
    BY KeepInit, KeepStep, PTL DEF Spec
<1> QED
    BY <1>1, PTL DEF KeepInv

\* An entry leaves Qdrant only after its row is in the tombstone table.
THEOREM MemoryArchivesFirst == Spec => ArchivedBeforeDeleted
<1>1. KeepInv /\ [Next]_vars => [live \ live' \subseteq archived]_vars
  <2> SUFFICES ASSUME KeepInv, Next PROVE live \ live' \subseteq archived
    OBVIOUS
  <2> USE DEF points, clients, nightly
  <2>1. ASSUME NEW d \in Decayers, Delete(d) PROVE live \ live' \subseteq archived
    BY <2>1 DEF Delete, KeepInv, WeakArchived
  <2>2. ASSUME NEW p \in Procs, Upsert(p) PROVE live \subseteq live'
    BY <2>2 DEF Upsert
  <2>3. ASSUME NEW p \in Procs, NEW f \in Facts, Skip(p, f) \/ FindNew(p, f)
        PROVE  live \subseteq live'
    BY <2>3 DEF Skip, FindNew
  <2>4. ASSUME NEW p \in Procs, Touch(p) \/ Abandon(p) PROVE live \subseteq live'
    BY <2>4 DEF Touch, Abandon
  <2>5. ASSUME NEW p \in Procs, NEW fs \in SUBSET Facts,
               StartStore(p, fs) \/ Recall(p, fs)
        PROVE  live \subseteq live'
    BY <2>5 DEF StartStore, Recall
  <2>6. ASSUME NEW d \in Decayers, NEW S \in SUBSET Facts, Scroll(d, S)
        PROVE  live \subseteq live'
    BY <2>6 DEF Scroll
  <2>7. ASSUME NEW d \in Decayers, NEW f \in Facts, WriteScore(d, f)
        PROVE  live \subseteq live'
    BY <2>7 DEF WriteScore
  <2>8. ASSUME NEW d \in Decayers, Archive(d) \/ FailDecay(d)
        PROVE  live \subseteq live'
    BY <2>8 DEF Archive, FailDecay
  <2>9. CASE Day
    BY <2>9 DEF Day
  <2> QED
    BY <2>1, <2>2, <2>3, <2>4, <2>5, <2>6, <2>7, <2>8, <2>9 DEF Next, RequestStep
<1> QED
    BY <1>1, KeepInit, KeepStep, PTL DEF Spec, ArchivedBeforeDeleted

-----------------------------------------------------------------------------
(***************************************************************************)
(* Deduplication by a single process.  The strengthening: the fact it is   *)
(* about to upsert has no near duplicate, as only this process adds points.*)
(***************************************************************************)
CurrentNew ==
    \A p \in Procs : pc[p] = "upsert" => \A g \in live : ~Near(cur[p], g)

DedupInv == TypeInv /\ CurrentNew /\ NoNearDuplicates

LEMMA NearSymmetric == \A f, g \in Facts : Near(f, g) => Near(g, f)
BY SimilarAssumption DEF Near

LEMMA DedupStep ==
    ASSUME \A p, q \in Procs : p = q,
           DedupInv, [Next]_vars
    PROVE  DedupInv'
<1> USE DEF points, clients, nightly
<1>a. TypeOK /\ CurrentKnown /\ CurrentNew /\ NoNearDuplicates
    BY DEF DedupInv, TypeInv
<1>b. TypeInv'
    BY TypeStep DEF DedupInv
<1> SUFFICES CurrentNew' /\ NoNearDuplicates'
    BY <1>b DEF DedupInv
<1>1. ASSUME NEW p \in Procs, Upsert(p)
      PROVE  CurrentNew' /\ NoNearDuplicates'
  <2>1. live' = live \cup {cur[p]} /\ pc'[p] # "upsert"
    BY <1>1, <1>a DEF Upsert, Continue, TypeOK
  <2>2. cur[p] \in Facts /\ live \subseteq Facts /\ \A g \in live : ~Near(cur[p], g)
    BY <1>1, <1>a DEF Upsert, CurrentKnown, CurrentNew, TypeOK
  <2>3. \A g \in live : ~Near(g, cur[p])
    BY <2>2, NearSymmetric
  <2>4. NoNearDuplicates'
    BY <1>a, <2>1, <2>2, <2>3 DEF NoNearDuplicates, Near
  <2>5. CurrentNew'
    BY <2>1 DEF CurrentNew
  <2> QED
    BY <2>4, <2>5
<1>2. ASSUME NEW p \in Procs, NEW f \in Facts, FindNew(p, f)
      PROVE  CurrentNew' /\ NoNearDuplicates'
  <2>1. /\ UNCHANGED live /\ cur' = [cur EXCEPT ![p] = f]
        /\ \A g \in live : ~Near(f, g)
    BY <1>2 DEF FindNew, IsNearDuplicate
  <2> QED
    BY <1>a, <2>1 DEF CurrentNew, NoNearDuplicates, Near, TypeOK
<1>3. ASSUME NEW p \in Procs, NEW fs \in SUBSET Facts,
             StartStore(p, fs) \/ Recall(p, fs)
      PROVE  CurrentNew' /\ NoNearDuplicates'
  <2>1. UNCHANGED <<live, cur>> /\ pc'[p] # "upsert"
    BY <1>3, <1>a DEF StartStore, Recall, TypeOK
  <2> QED
    BY <1>a, <2>1 DEF CurrentNew, NoNearDuplicates, Near
<1>4. ASSUME NEW p \in Procs, NEW f \in Facts, Skip(p, f)
      PROVE  CurrentNew' /\ NoNearDuplicates'
  <2>1. UNCHANGED <<live, cur>> /\ pc'[p] # "upsert"
    BY <1>4, <1>a DEF Skip, Continue, TypeOK
  <2> QED
    BY <1>a, <2>1 DEF CurrentNew, NoNearDuplicates, Near
<1>5. ASSUME NEW p \in Procs, Touch(p) \/ Abandon(p)
      PROVE  CurrentNew' /\ NoNearDuplicates'
  <2>1. UNCHANGED live /\ pc'[p] # "upsert"
    BY <1>5, <1>a DEF Touch, Abandon, TypeOK
  <2> QED
    BY <1>a, <2>1 DEF CurrentNew, NoNearDuplicates, Near
<1>6. ASSUME NEW d \in Decayers, Delete(d)
      PROVE  CurrentNew' /\ NoNearDuplicates'
  <2>1. live' = live \ weak[d] /\ UNCHANGED <<pc, cur>>
    BY <1>6 DEF Delete
  <2> QED
    BY <1>a, <2>1 DEF CurrentNew, NoNearDuplicates, Near
<1>7. ASSUME UNCHANGED <<live, pc, cur>>
      PROVE  CurrentNew' /\ NoNearDuplicates'
    BY <1>a, <1>7 DEF CurrentNew, NoNearDuplicates, Near
<1>8. ASSUME NEW d \in Decayers, NEW S \in SUBSET Facts, Scroll(d, S)
      PROVE  UNCHANGED <<live, pc, cur>>
    BY <1>8 DEF Scroll
<1>9. ASSUME NEW d \in Decayers, NEW f \in Facts, WriteScore(d, f)
      PROVE  UNCHANGED <<live, pc, cur>>
    BY <1>9 DEF WriteScore
<1>10. ASSUME NEW d \in Decayers, Archive(d) \/ FailDecay(d)
       PROVE  UNCHANGED <<live, pc, cur>>
    BY <1>10 DEF Archive, FailDecay
<1>11. ASSUME Day \/ UNCHANGED vars
       PROVE  UNCHANGED <<live, pc, cur>>
    BY <1>11 DEF Day, vars
<1> QED
    BY <1>1, <1>2, <1>3, <1>4, <1>5, <1>6, <1>7, <1>8, <1>9, <1>10, <1>11
    DEF Next, RequestStep

\* One process never stores two near duplicates for an agent, whatever the
\* nightly run deletes between its check and its upsert.
THEOREM MemoryDeduplicates ==
    ASSUME \A p, q \in Procs : p = q
    PROVE  Spec => []NoNearDuplicates
<1>1. Init => DedupInv
    BY TypeInit DEF Init, DedupInv, CurrentNew, NoNearDuplicates
<1>2. DedupInv /\ [Next]_vars => DedupInv'
    BY DedupStep
<1>3. Spec => []DedupInv
    BY <1>1, <1>2, PTL DEF Spec
<1> QED
    BY <1>3, PTL DEF DedupInv
=============================================================================
