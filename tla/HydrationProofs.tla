-------------------------- MODULE HydrationProofs --------------------------
(***************************************************************************)
(* Proofs about a hydrate request: the embedding client that turns its     *)
(* query into a vector, for every set of coroutines and texts, every TTL   *)
(* and every cache limit, and ContextAssembly, which recalls and assembles *)
(* the context, for every session, every list of chunks and every budget.  *)
(***************************************************************************)
EXTENDS ContextAssembly, EmbedClient, FiniteSetTheorems, TLAPS

-----------------------------------------------------------------------------
(* The embedding client.                                                   *)

\* The table of requests in flight and the control state of the coroutines
\* agree: a future is pending exactly while its owner has a POST under way.
Owned ==
    /\ \A k \in Keys : inFlight[k] # None =>
          pc[inFlight[k]] = "post" /\ key[inFlight[k]] = k
    /\ \A c \in Callers : pc[c] = "post" =>
          key[c] \in Keys /\ inFlight[key[c]] = c /\ ~ValidEntry(key[c])
    /\ \A c \in Callers : pc[c] = "wait" =>
          key[c] \in Keys /\ inFlight[key[c]] # None

EmbedInv == EmbedTypeOK /\ Owned

\* Storing the embedding of k and pruning makes no other key valid.
LEMMA StoredAge ==
    ASSUME EmbedTypeOK, NEW k \in Keys
    PROVE  /\ Pruned(Stored(k)) \in [Keys -> 0 .. Missing]
           /\ \A j \in Keys : Pruned(Stored(k))[j] <= TTL => j = k \/ ValidEntry(j)
<1> DEFINE a == Stored(k)
<1>1. a \in [Keys -> 0 .. Missing]
    BY TTLAssumption DEF EmbedTypeOK, Stored, Older, ExpiredAge, Missing
<1>2. \A j \in Keys : a[j] <= TTL => j = k \/ ValidEntry(j)
    BY TTLAssumption DEF EmbedTypeOK, Stored, Older, ExpiredAge, ValidEntry
<1> HIDE DEF a
<1>3. Pruned(a) \in [Keys -> 0 .. Missing]
    BY <1>1, TTLAssumption DEF Pruned, Missing
<1>4. \A j \in Keys : Pruned(a)[j] = a[j] \/ Pruned(a)[j] = Missing
    BY <1>1 DEF Pruned
<1>5. ~(Missing <= TTL)
    BY TTLAssumption DEF Missing
<1>6. \A j \in Keys : Pruned(a)[j] <= TTL => j = k \/ ValidEntry(j)
    BY <1>2, <1>4, <1>5
<1>. QED
    BY <1>3, <1>6 DEF a

LEMMA EmbedInvInit == EmbedInit => EmbedInv
BY TTLAssumption, NoneAssumption DEF EmbedInit, EmbedInv, EmbedTypeOK, Owned, Missing

LEMMA ResolveStep ==
    ASSUME EmbedInv, NEW c \in Callers, pc[c] = "post", Resolve(c),
           entryAge' \in [Keys -> 0 .. Missing],
           \A j \in Keys : ValidEntry(j)' => j = key[c] \/ ValidEntry(j)
    PROVE  EmbedInv'
<1> USE NoneAssumption DEF EmbedInv, EmbedTypeOK, Owned, Resolve
<1>1. EmbedTypeOK'
    BY DEF Resolve
<1>2. \A k \in Keys : (inFlight[k] # None)' =>
          (pc[inFlight[k]] = "post" /\ key[inFlight[k]] = k)'
    BY DEF Resolve
<1>3. \A d \in Callers : (pc[d] = "post")' =>
          (key[d] \in Keys /\ inFlight[key[d]] = d /\ ~ValidEntry(key[d]))'
    BY DEF Resolve
<1>4. \A d \in Callers : (pc[d] = "wait")' =>
          (key[d] \in Keys /\ inFlight[key[d]] # None)'
    BY DEF Resolve
<1>. QED
    BY <1>1, <1>2, <1>3, <1>4

LEMMA EmbedInvStep == EmbedInv /\ [EmbedNext]_embedVars => EmbedInv'
<1> SUFFICES ASSUME EmbedInv, [EmbedNext]_embedVars PROVE EmbedInv'
    OBVIOUS
<1>1. ASSUME NEW c \in Callers, NEW k \in Keys, Call(c, k)
      PROVE  EmbedInv'
    BY <1>1, NoneAssumption DEF EmbedInv, EmbedTypeOK, Owned, Call, ValidEntry
<1>2. ASSUME NEW c \in Callers, PostSucceeds(c)
      PROVE  EmbedInv'
  <2>1. key[c] \in Keys
      BY <1>2 DEF EmbedInv, Owned, PostSucceeds
  <2>. QED
      BY <1>2, <2>1, StoredAge, ResolveStep DEF EmbedInv, PostSucceeds, ValidEntry
<1>3. ASSUME NEW c \in Callers, PostFails(c)
      PROVE  EmbedInv'
    BY <1>3, ResolveStep DEF EmbedInv, EmbedTypeOK, PostFails, ValidEntry
<1>4. ASSUME Tick
      PROVE  EmbedInv'
  <2>1. entryAge' \in [Keys -> 0 .. Missing]
      BY <1>4, TTLAssumption DEF EmbedInv, EmbedTypeOK, Tick, Older, ExpiredAge, Missing
  <2>2. \A j \in Keys : ValidEntry(j)' => ValidEntry(j)
      BY <1>4, TTLAssumption DEF EmbedInv, EmbedTypeOK, Tick, Older, ExpiredAge, Missing, ValidEntry
  <2>. QED
      BY <1>4, <2>1, <2>2 DEF EmbedInv, EmbedTypeOK, Owned, Tick
<1>5. CASE UNCHANGED embedVars
    BY <1>5 DEF EmbedInv, EmbedTypeOK, Owned, ValidEntry, embedVars
<1>. QED
    BY <1>1, <1>2, <1>3, <1>4, <1>5 DEF EmbedNext

LEMMA EmbedInvHolds == EmbedSpec => []EmbedInv
    BY EmbedInvInit, EmbedInvStep, PTL DEF EmbedSpec

\* Every reachable state is well typed.
THEOREM EmbedTypeCorrect == EmbedSpec => []EmbedTypeOK
<1>1. EmbedInv => EmbedTypeOK
    BY DEF EmbedInv
<1>. QED
    BY <1>1, EmbedInvHolds, PTL

\* Concurrent callers of one key share one POST, and no POST is sent for a key
\* that is validly cached, however the calls interleave and whichever fail.
THEOREM EmbedSingleFlight == EmbedSpec => []SingleFlight
<1>1. EmbedInv => SingleFlight
    BY DEF EmbedInv, EmbedTypeOK, Owned, SingleFlight
<1>. QED
    BY <1>1, EmbedInvHolds, PTL

\* Whoever awaits a future can count on a POST that will resolve it.
THEOREM EmbedNoStrandedWaiter == EmbedSpec => []NoStrandedWaiter
<1>1. EmbedInv => NoStrandedWaiter
    BY NoneAssumption DEF EmbedInv, EmbedTypeOK, Owned, NoStrandedWaiter
<1>. QED
    BY <1>1, EmbedInvHolds, PTL
-----------------------------------------------------------------------------
\* The limit of the cache.  Pruning ranks the valid entries by entryAge, so that it
\* keeps few enough only because no two of them have the same entryAge.
Distinct(a) == \A j, k \in Keys : a[j] <= TTL /\ a[j] = a[k] => j = k

CacheInv == IsFiniteSet(Cached) /\ Cardinality(Cached) <= Limit /\ Distinct(entryAge)

Live(a) == {k \in Keys : a[k] <= TTL}
Younger(a, k) == {j \in Live(a) : a[j] < a[k]}

\* Of two valid entries the older one has more that are younger.
LEMMA RanksDiffer ==
    ASSUME NEW a \in [Keys -> 0 .. Missing], IsFiniteSet(Live(a)),
           NEW x \in Live(a), NEW y \in Live(a), a[x] < a[y]
    PROVE  Cardinality(Younger(a, x)) # Cardinality(Younger(a, y))
<1>1. IsFiniteSet(Younger(a, y))
    BY FS_Subset DEF Younger
<1>2. a[x] \in Int /\ a[y] \in Int /\ \A j \in Live(a) : a[j] \in Int
    BY TTLAssumption DEF Missing, Live
<1>3. Younger(a, x) \subseteq Younger(a, y)
    BY <1>2 DEF Younger
<1>4. x \in Younger(a, y) /\ x \notin Younger(a, x)
    BY <1>2 DEF Younger
<1> QED
    BY <1>1, <1>3, <1>4, FS_Subset

LEMMA PrunedBounded ==
    ASSUME NEW a \in [Keys -> 0 .. Missing], IsFiniteSet(Live(a)), Distinct(a)
    PROVE  LET stays == {k \in Keys : Pruned(a)[k] # Missing}
           IN  IsFiniteSet(stays) /\ Cardinality(stays) <= Limit
<1> DEFINE stays == {k \in Live(a) : Cardinality(Younger(a, k)) < Limit}
           rank == [k \in stays |-> Cardinality(Younger(a, k)) + 1]
<1>1. {k \in Keys : Pruned(a)[k] # Missing} = stays
  <2>1. ~ (Missing <= TTL)
      BY TTLAssumption DEF Missing
  <2> QED
      BY <2>1 DEF Pruned, Live, Younger
<1>2. IsFiniteSet(stays)
    BY FS_Subset
<1>3. \A k \in stays : Cardinality(Younger(a, k)) \in Nat
    BY FS_Subset, FS_CardinalityType DEF Younger
<1>4. rank \in [stays -> 1 .. Limit]
  <2>1. \A k \in stays : Cardinality(Younger(a, k)) + 1 \in 1 .. Limit
      BY <1>3, LimitAssumption
  <2> QED
      BY <2>1
<1>5. \A x, y \in stays : rank[x] = rank[y] => x = y
  <2> SUFFICES ASSUME NEW x \in stays, NEW y \in stays, rank[x] = rank[y], x # y
               PROVE  FALSE
      OBVIOUS
  <2>1. Cardinality(Younger(a, x)) = Cardinality(Younger(a, y))
      BY <1>3
  <2>2. a[x] # a[y]
      BY DEF Distinct, Live
  <2>3. a[x] < a[y] \/ a[y] < a[x]
      BY <2>2, TTLAssumption DEF Live, Missing
  <2>4. CASE a[x] < a[y]
      BY <2>1, <2>4, RanksDiffer
  <2>5. CASE a[y] < a[x]
      BY <2>1, <2>5, RanksDiffer
  <2> QED
      BY <2>3, <2>4, <2>5
<1>6. IsFiniteSet(1 .. Limit) /\ Cardinality(1 .. Limit) = Limit
    BY FS_Interval, LimitAssumption
<1>7. Cardinality(stays) <= Limit
  <2>1. Cardinality(stays) \in Nat
      BY <1>2, FS_CardinalityType
  <2> HIDE DEF stays, rank
  <2>2. ASSUME Cardinality(1 .. Limit) < Cardinality(stays) PROVE FALSE
    <3>1. \E x, y \in stays : x # y /\ rank[x] = rank[y]
        BY <1>2, <1>4, <1>6, <2>2, FS_PigeonHole
    <3> QED
        BY <3>1, <1>5
  <2> QED
      BY <2>1, <2>2, <1>6, LimitAssumption
<1> QED
    BY <1>1, <1>2, <1>7

LEMMA InitCache == EmbedInit => CacheInv
<1> SUFFICES ASSUME EmbedInit PROVE CacheInv
    OBVIOUS
<1>1. Cached = {}
    BY DEF EmbedInit, Cached
<1>2. Distinct(entryAge)
    BY TTLAssumption DEF EmbedInit, Distinct, Missing
<1> QED
    BY <1>1, <1>2, FS_EmptySet, LimitAssumption DEF CacheInv

LEMMA StoreCache ==
    ASSUME EmbedTypeOK, CacheInv, NEW k \in Keys, entryAge' = Pruned(Stored(k))
    PROVE  CacheInv'
<1> DEFINE a == Stored(k)
<1>1. a \in [Keys -> 0 .. Missing]
    BY TTLAssumption DEF EmbedTypeOK, Stored, Older, ExpiredAge, Missing
<1>2. Distinct(a)
    BY TTLAssumption DEF CacheInv, Distinct, EmbedTypeOK, Stored, Older, ExpiredAge, Missing
<1>3. Live(a) \subseteq Cached \cup {k}
    BY TTLAssumption DEF Live, Cached, EmbedTypeOK, Stored, Older, ExpiredAge, Missing
<1>4. IsFiniteSet(Live(a))
    BY <1>3, FS_AddElement, FS_Subset DEF CacheInv
<1> HIDE DEF a
<1>5. IsFiniteSet(Cached') /\ Cardinality(Cached') <= Limit
    BY <1>1, <1>2, <1>4, PrunedBounded DEF Cached, a, Missing
<1>6. \A j \in Keys : Pruned(a)[j] = a[j] \/ Pruned(a)[j] = Missing
    BY <1>1 DEF Pruned
<1>7. Distinct(entryAge)'
    BY <1>2, <1>6, TTLAssumption DEF Distinct, a, Missing
<1> QED
    BY <1>5, <1>7 DEF CacheInv

LEMMA StepCache == EmbedInv /\ CacheInv /\ [EmbedNext]_embedVars => CacheInv'
<1> SUFFICES ASSUME EmbedInv, CacheInv, [EmbedNext]_embedVars PROVE CacheInv'
    OBVIOUS
<1>1. ASSUME NEW c \in Callers, PostSucceeds(c) PROVE CacheInv'
    BY <1>1, StoreCache DEF EmbedInv, Owned, PostSucceeds
<1>2. CASE Tick
  <2>1. Cached' = Cached
      BY <1>2, TTLAssumption DEF Tick, Cached, EmbedInv, EmbedTypeOK, Older, ExpiredAge, Missing
  <2>2. Distinct(entryAge)'
      BY <1>2, TTLAssumption DEF Tick, CacheInv, Distinct, EmbedInv, EmbedTypeOK, Older, ExpiredAge, Missing
  <2> QED
      BY <2>1, <2>2 DEF CacheInv
<1>3. CASE UNCHANGED entryAge
    BY <1>3 DEF CacheInv, Cached, Distinct
<1> QED
    BY <1>1, <1>2, <1>3 DEF EmbedNext, Call, PostFails, embedVars

\* However many texts are embedded, the cache holds no more entries than its
\* limit, those that have expired and were not pruned yet included.
THEOREM EmbedCacheBounded == EmbedSpec => []CacheBounded
<1>1. CacheInv => CacheBounded
    BY DEF CacheInv, CacheBounded
<1> QED
    BY <1>1, EmbedInvHolds, InitCache, StepCache, PTL DEF EmbedSpec
-----------------------------------------------------------------------------
(* The request.                                                            *)

\* Every vector layer that failed so far is named.
Named == \A l \in lost \ {"layer1"} : Label(l) \in failed

\* Until the recalls are over nothing is included; then only what was found.
NothingOfLost ==
    /\ phase \in {"embed", "recall"} => kept = {} /\ included = {}
    /\ \A c \in included : LayerOf[c] \notin lost
    /\ "layer1" \in lost => kept = {} /\ (phase = "turns" => pos = 0)

ReportInv == Named /\ NothingOfLost

LEMMA ReportInit == Init => ReportInv
BY DEF Init, ReportInv, Named, NothingOfLost

LEMMA ReportStep == ReportInv /\ [Next]_vars => ReportInv'
<1> SUFFICES ASSUME ReportInv, [Next]_vars PROVE ReportInv'
    OBVIOUS
<1> USE DEF ReportInv, Named, NothingOfLost, Label, input
<1>1. CASE Embedded
    BY <1>1 DEF Embedded
<1>2. CASE EmbedFails
    BY <1>2 DEF EmbedFails
<1>3. ASSUME NEW l \in Layers, Recalled(l) PROVE ReportInv'
    BY <1>3 DEF Recalled
<1>4. ASSUME NEW l \in Layers, RecallFails(l) PROVE ReportInv'
    BY <1>4 DEF RecallFails
<1>5. CASE Assemble
  <2>1. "layer1" \in lost => pos' = 0
    BY <1>5, FS_EmptySet DEF Assemble, Session
  <2> QED
    BY <1>5, <2>1 DEF Assemble
<1>6. CASE TakeTurn
  <2>1. "layer1" \notin lost
    BY <1>6 DEF TakeTurn
  <2> QED
    BY <1>6, <2>1 DEF TakeTurn
<1>7. CASE EndTurns
    BY <1>7 DEF EndTurns
<1>8. CASE Weigh
    BY <1>8 DEF Weigh
<1>9. CASE SkipLost \/ WeightsRaise \/ Rank
    BY <1>9 DEF SkipLost, WeightsRaise, Rank
<1>10. ASSUME NEW c \in Chunks, TakeChunk(c) PROVE ReportInv'
    BY <1>10 DEF TakeChunk, IsNext, Found
<1>11. CASE Finish
    BY <1>11 DEF Finish
<1>12. CASE Beside
    BY <1>12 DEF Beside, request
<1>13. CASE UNCHANGED vars
    BY <1>13 DEF vars, request
<1> QED
    BY <1>1, <1>2, <1>3, <1>4, <1>5, <1>6, <1>7, <1>8, <1>9, <1>10, <1>11, <1>12, <1>13 DEF Next

\* Every vector layer that failed is named in failed_layers, and nothing of a
\* failed layer is in the prompt.
THEOREM HydrationReportsFailures == Spec => []FailuresReported
<1>1. ReportInv => FailuresReported
    BY DEF ReportInv, Named, NothingOfLost, FailuresReported
<1> QED
    BY <1>1, ReportInit, ReportStep, PTL DEF Spec

-----------------------------------------------------------------------------
\* A cache that disagrees with the configuration is older than the change, or
\* so old that it is not served.
FreshInv ==
    /\ age \in 0 .. Poll /\ stable \in 0 .. Poll
    /\ cache = Normalised(config) \/ age = Poll \/ stable <= age

LEMMA FreshInit == Init => FreshInv
BY PollAssumption DEF Init, CacheInit, FreshInv

LEMMA FreshStep == FreshInv /\ [Next]_vars => FreshInv'
<1> SUFFICES ASSUME FreshInv, [Next]_vars PROVE FreshInv'
    OBVIOUS
<1> USE PollAssumption DEF FreshInv
<1>1. ASSUME UNCHANGED cacheVars PROVE FreshInv'
    BY <1>1 DEF cacheVars, Normalised
<1>2. ASSUME Loaded PROVE FreshInv'
    BY <1>2 DEF Loaded, Normalised
<1>3. ASSUME Elapse PROVE FreshInv'
  <2>1. age' \in 0 .. Poll /\ stable' \in 0 .. Poll
    BY <1>3 DEF Elapse, Grow
  <2>2. age' = Poll \/ (age' = age + 1 /\ age + 1 \in 0 .. Poll)
    BY <1>3 DEF Elapse, Grow
  <2>3. stable <= age => stable' <= age'
    BY <1>3 DEF Elapse, Grow
  <2>4. cache' = cache /\ Normalised(config)' = Normalised(config)
    BY <1>3 DEF Elapse, Normalised
  <2> HIDE DEF FreshInv
  <2>5. cache' = Normalised(config)' \/ age' = Poll \/ stable' <= age'
    BY <2>2, <2>3, <2>4 DEF FreshInv
  <2> QED
    BY <2>1, <2>5 DEF FreshInv
<1>4. ASSUME NEW p \in Configs, Reconfigure(p) PROVE FreshInv'
    BY <1>4 DEF Reconfigure
<1>5. CASE Weigh
    BY <1>1, <1>2, <1>5 DEF Weigh, Served
<1>6. CASE WeightsRaise
    BY <1>1, <1>6 DEF WeightsRaise, LoadRaises
<1>7. CASE Beside
    BY <1>2, <1>3, <1>4, <1>7 DEF Beside
<1>8. CASE Embedded \/ EmbedFails \/ (\E l \in Layers : Recalled(l) \/ RecallFails(l))
    BY <1>1, <1>8 DEF Embedded, EmbedFails, Recalled, RecallFails, cacheVars
<1>9. CASE Assemble \/ TakeTurn \/ EndTurns \/ SkipLost \/ Rank
    BY <1>1, <1>9 DEF Assemble, TakeTurn, EndTurns, SkipLost, Rank, cacheVars
<1>10. CASE (\E c \in Chunks : TakeChunk(c)) \/ Finish
    BY <1>1, <1>10 DEF TakeChunk, Finish, cacheVars
<1>11. CASE UNCHANGED vars
    BY <1>1, <1>11 DEF vars
<1> QED
    BY <1>5, <1>6, <1>7, <1>8, <1>9, <1>10, <1>11 DEF Next

\* Only Weigh looks a weight up.
LEMMA OnlyWeighWeighs ==
    ASSUME [Next]_vars, weight' # weight
    PROVE  Weigh
BY DEF Next, vars, request, Embedded, EmbedFails, Recalled, RecallFails, Assemble,
       TakeTurn, EndTurns, SkipLost, WeightsRaise, Rank, TakeChunk, Finish, Beside

\* weight is a function of the chunks.
WeightInv == weight = [c \in Chunks |-> weight[c]]

LEMMA WeightInit == Init => WeightInv
BY DEF Init, WeightInv

LEMMA WeightStep == WeightInv /\ [Next]_vars => WeightInv'
<1> SUFFICES ASSUME WeightInv, [Next]_vars, weight' # weight PROVE WeightInv'
    BY DEF WeightInv
<1>1. Weigh
    BY OnlyWeighWeighs
<1> QED
    BY <1>1 DEF Weigh, WeightInv

\* A configuration that has stood for a poll interval is the one a chunk is
\* weighed with.
THEOREM WeightsFollowConfiguration == Spec => ConfigTakesEffect
<1> DEFINE Fresh(c) ==
        weight'[c] # weight[c] /\ stable = Poll => weight'[c] = Configured(c)
<1>1. FreshInv /\ WeightInv /\ [Next]_vars => [\A c \in Chunks : Fresh(c)]_vars
  <2> SUFFICES ASSUME FreshInv, WeightInv, [Next]_vars, NEW c \in Chunks,
                      weight'[c] # weight[c], stable = Poll
               PROVE  weight'[c] = Configured(c)
    OBVIOUS
  <2>1. Weigh
    BY OnlyWeighWeighs
  <2>2. c = pos
    BY <2>1 DEF Weigh, WeightInv
  <2>3. CASE domain = "none"
    BY <2>1, <2>2, <2>3 DEF Weigh, GetWeight, WeightInv, Configured
  <2>4. CASE domain # "none" /\ Served
    BY <2>1, <2>2, <2>4, PollAssumption DEF Weigh, GetWeight, WeightInv, Configured, Served,
       FreshInv, Expired, cacheVars
  <2>5. CASE domain # "none" /\ Loaded
    BY <2>1, <2>2, <2>5 DEF Weigh, GetWeight, WeightInv, Configured, Loaded
  <2> QED
    BY <2>1, <2>3, <2>4, <2>5 DEF Weigh
<1> QED
    BY <1>1, FreshInit, FreshStep, WeightInit, WeightStep, PTL DEF Spec, ConfigTakesEffect

-----------------------------------------------------------------------------
\* A set of naturals that has a member has a least one.
LEMMA LeastNatural ==
    ASSUME NEW T \in SUBSET Nat, T # {}
    PROVE  \E n \in T : \A m \in T : n <= m
<1> DEFINE R == OpToRel(<, Nat)
<1>1. IsWellFoundedOn(R, Nat)
    BY NatLessThanWellFounded
<1>2. PICK n \in T : \A m \in T : <<m, n>> \notin R
  <2> HIDE DEF R
  <2> QED
    BY <1>1, WFMin
<1>3. \A m \in T : m < n => <<m, n>> \in R
    BY DEF OpToRel
<1>4. \A m \in T : ~ (m < n)
    BY <1>2, <1>3
<1> HIDE DEF R
<1>5. \A m \in T : n <= m
    BY <1>4
<1> QED
    BY <1>5

\* Induction on the naturals, for a set of them.
LEMMA AllNaturals ==
    ASSUME NEW P, 0 \in P, \A n \in Nat : n \in P => n + 1 \in P
    PROVE  Nat \subseteq P
<1> SUFFICES ASSUME Nat \ P # {} PROVE FALSE
    OBVIOUS
<1> PICK n \in Nat \ P : \A m \in Nat \ P : n <= m
    BY LeastNatural
<1>1. n # 0 /\ n - 1 \in P
    OBVIOUS
<1> QED
    BY <1>1

Element(s) == CHOOSE x \in s : TRUE

\* g sums f over the subsets of S.
Sums(g, f, S) ==
    g = [s \in SUBSET S |-> IF s = {} THEN 0 ELSE f[Element(s)] + g[s \ {Element(s)}]]

\* What MapThenSumSet computes for a set is the value of such a g, if there is one.
LEMMA SumUnfolds ==
    ASSUME NEW f, NEW S, NEW g, Sums(g, f, S)
    PROVE  \E h : Sums(h, f, S) /\ Total(f, S) = h[S]
<1> DEFINE h == CHOOSE k : Sums(k, f, S)
<1>1. Sums(h, f, S)
    OBVIOUS
<1>2. Total(f, S) = h[S]
    BY DEF Total, MapThenSumSet, MapThenFoldSet, Sums, Element
<1> QED
    BY <1>1, <1>2

\* One round of the sum.
Round(g, f, s) == IF s = {} THEN 0 ELSE f[Element(s)] + g[s \ {Element(s)}]

LEMMA ElementIn ==
    ASSUME NEW s, s # {}
    PROVE  Element(s) \in s
BY DEF Element

LEMMA SmallerSubset ==
    ASSUME NEW S, IsFiniteSet(S), NEW s \in SUBSET S, s # {}
    PROVE  /\ s \ {Element(s)} \in SUBSET S
           /\ Cardinality(s) \in Nat
           /\ Cardinality(s \ {Element(s)}) = Cardinality(s) - 1
BY FS_Subset, FS_RemoveElement, FS_CardinalityType, ElementIn

LEMMA SumExists ==
    ASSUME NEW f, NEW S, IsFiniteSet(S)
    PROVE  \E g : Sums(g, f, S)
<1> DEFINE Upto(g, n) ==
        \A s \in SUBSET S : Cardinality(s) <= n => g[s] = Round(g, f, s)
           P == {n \in Nat : \E g : Upto(g, n)}
<1>1. 0 \in P
  <2>1. \A s \in SUBSET S : Cardinality(s) <= 0 => s = {}
    BY FS_Subset, FS_CardinalityType, FS_EmptySet
  <2>2. Upto([s \in SUBSET S |-> 0], 0)
    BY <2>1 DEF Round
  <2> QED
    BY <2>2
<1>2. ASSUME NEW n \in P PROVE n + 1 \in P
  <2> PICK g : Upto(g, n)
    OBVIOUS
  <2> DEFINE h == [s \in SUBSET S |-> IF Cardinality(s) <= n THEN g[s] ELSE Round(g, f, s)]
  <2>1. ASSUME NEW s \in SUBSET S, Cardinality(s) <= n + 1
        PROVE  h[s] = Round(h, f, s)
    <3>1. h[s] = Round(g, f, s)
      OBVIOUS
    <3>2. CASE s = {}
      BY <3>1, <3>2 DEF Round
    <3>3. CASE s # {}
      <4>1. h[s \ {Element(s)}] = g[s \ {Element(s)}]
        BY <2>1, <3>3, SmallerSubset
      <4> QED
        BY <3>1, <3>3, <4>1 DEF Round
    <3> QED
      BY <3>2, <3>3
  <2>2. Upto(h, n + 1)
    BY <2>1
  <2> HIDE DEF h
  <2> QED
    BY <2>2
<1>3. Cardinality(S) \in P
  <2> HIDE DEF P
  <2>1. Nat \subseteq P
    BY <1>1, <1>2, AllNaturals
  <2> QED
    BY <2>1, FS_CardinalityType
<1>4. PICK g : Upto(g, Cardinality(S))
    BY <1>3
<1>5. \A s \in SUBSET S : g[s] = Round(g, f, s)
    BY <1>4, FS_Subset
<1> DEFINE h == [s \in SUBSET S |-> g[s]]
<1>6. \A s \in SUBSET S : h[s] = Round(h, f, s)
    BY <1>5, SmallerSubset DEF Round
<1>7. h = [s \in SUBSET S |-> Round(h, f, s)]
    BY <1>6
<1>8. Sums(h, f, S)
    BY <1>7 DEF Sums, Round
<1> QED
    BY <1>8

\* The order in which the elements are taken makes no difference.
LEMMA AnyOrder ==
    ASSUME NEW S, IsFiniteSet(S), NEW f, \A x \in S : f[x] \in Nat, NEW g, Sums(g, f, S)
    PROVE  \A s \in SUBSET S : g[s] \in Nat /\ \A x \in s : g[s] = f[x] + g[s \ {x}]
<1> DEFINE Good(s) == g[s] \in Nat /\ \A x \in s : g[s] = f[x] + g[s \ {x}]
           P == {n \in Nat : \A s \in SUBSET S : Cardinality(s) <= n => Good(s)}
<1>1. \A s \in SUBSET S : g[s] = Round(g, f, s)
    BY DEF Sums, Round
<1>2. 0 \in P
  <2>1. \A s \in SUBSET S : Cardinality(s) <= 0 => s = {}
    BY FS_Subset, FS_CardinalityType, FS_EmptySet
  <2>2. g[{}] = 0
    BY <1>1 DEF Round
  <2> SUFFICES ASSUME NEW s \in SUBSET S, s = {} PROVE Good(s)
    BY <2>1
  <2> QED
    BY <2>2
<1>3. ASSUME NEW n \in P PROVE n + 1 \in P
  <2> SUFFICES ASSUME NEW s \in SUBSET S, Cardinality(s) <= n + 1 PROVE Good(s)
    OBVIOUS
  <2> HIDE DEF Good
  <2>1. CASE s = {}
    BY <1>1, <2>1 DEF Round, Good
  <2>2. CASE s # {}
    <3> DEFINE y == Element(s)
               r == s \ {y}
    <3>1. y \in s /\ y \in S /\ r \in SUBSET S /\ Cardinality(r) <= n
      BY <2>2, ElementIn, SmallerSubset
    <3> HIDE DEF y
    <3>2. g[s] = f[y] + g[r]
      BY <1>1, <2>2 DEF Round, y
    <3>3. Good(r)
      BY <3>1
    <3>4. ASSUME NEW x \in s, x # y PROVE g[s] = f[x] + g[s \ {x}]
      <4> DEFINE q == r \ {x}
                 u == s \ {x}
      <4>1. g[r] = f[x] + g[q]
        BY <3>3, <3>4 DEF Good
      <4>2. q \in SUBSET S /\ Cardinality(q) <= n /\ u \in SUBSET S /\ Cardinality(u) <= n
        <5>1. IsFiniteSet(s) /\ IsFiniteSet(r) /\ x \in r
          BY <3>1, <3>4, FS_Subset
        <5>2. Cardinality(q) = Cardinality(r) - 1 /\ Cardinality(u) = Cardinality(s) - 1
          BY <3>4, <5>1, FS_RemoveElement
        <5> QED
          BY <3>1, <5>1, <5>2, FS_CardinalityType
      <4>3. Good(q) /\ Good(u) /\ y \in u /\ u \ {y} = q
        BY <3>1, <3>4, <4>2
      <4>4. g[u] = f[y] + g[q] /\ g[q] \in Nat /\ g[r] \in Nat
        BY <3>3, <4>3 DEF Good
      <4>5. f[x] \in Nat /\ f[y] \in Nat
        BY <3>1, <3>4
      <4> HIDE DEF r, q, u
      <4>6. g[s] = f[x] + g[u]
        BY <3>2, <4>1, <4>4, <4>5
      <4> QED
        BY <4>6 DEF u
    <3>5. g[s] \in Nat
      <4>1. g[r] \in Nat /\ f[y] \in Nat
        BY <3>1, <3>3 DEF Good
      <4> QED
        BY <3>2, <4>1
    <3> QED
      BY <3>2, <3>4, <3>5 DEF Good
  <2> QED
    BY <2>1, <2>2
<1>4. Nat \subseteq P
  <2> HIDE DEF P
  <2> QED
    BY <1>2, <1>3, AllNaturals
<1> QED
    BY <1>4, FS_Subset, FS_CardinalityType

\* Sums over two sets agree on what both hold.
LEMMA SumsAgree ==
    ASSUME NEW S, IsFiniteSet(S), NEW T \in SUBSET S, NEW f,
           NEW g, Sums(g, f, S), NEW h, Sums(h, f, T)
    PROVE  g[T] = h[T]
<1> DEFINE P == {n \in Nat : \A s \in SUBSET T : Cardinality(s) <= n => g[s] = h[s]}
<1>1. /\ \A s \in SUBSET S : g[s] = Round(g, f, s)
      /\ \A s \in SUBSET T : h[s] = Round(h, f, s)
    BY DEF Sums, Round
<1>2. IsFiniteSet(T)
    BY FS_Subset
<1>3. 0 \in P
  <2>1. \A s \in SUBSET T : Cardinality(s) <= 0 => s = {}
    BY <1>2, FS_Subset, FS_CardinalityType, FS_EmptySet
  <2> QED
    BY <1>1, <2>1 DEF Round
<1>4. ASSUME NEW n \in P PROVE n + 1 \in P
  <2> SUFFICES ASSUME NEW s \in SUBSET T, Cardinality(s) <= n + 1 PROVE g[s] = h[s]
    OBVIOUS
  <2>1. CASE s = {}
    BY <1>1, <2>1 DEF Round
  <2>2. CASE s # {}
    <3>1. g[s \ {Element(s)}] = h[s \ {Element(s)}]
      BY <1>2, <1>4, <2>2, SmallerSubset
    <3> QED
      BY <1>1, <2>2, <3>1 DEF Round
  <2> QED
    BY <2>1, <2>2
<1>5. Nat \subseteq P
  <2> HIDE DEF P
  <2> QED
    BY <1>3, <1>4, AllNaturals
<1> QED
    BY <1>2, <1>5, FS_CardinalityType

\* The sum over no element.
LEMMA SumEmpty ==
    ASSUME NEW f
    PROVE  Total(f, {}) = 0
<1>1. PICK g : Sums(g, f, {}) /\ Total(f, {}) = g[{}]
    BY SumExists, SumUnfolds, FS_EmptySet
<1> QED
    BY <1>1 DEF Sums

LEMMA SumNatural ==
    ASSUME NEW S, IsFiniteSet(S), NEW f, \A x \in S : f[x] \in Nat
    PROVE  Total(f, S) \in Nat
<1>1. PICK g : Sums(g, f, S) /\ Total(f, S) = g[S]
    BY SumExists, SumUnfolds
<1> QED
    BY <1>1, AnyOrder

\* One element more adds its value.
LEMMA SumAdds ==
    ASSUME NEW S, IsFiniteSet(S), NEW x, x \notin S,
           NEW f, \A y \in S \cup {x} : f[y] \in Nat
    PROVE  Total(f, S \cup {x}) = Total(f, S) + f[x]
<1> DEFINE T == S \cup {x}
<1>1. IsFiniteSet(T) /\ S \in SUBSET T /\ T \ {x} = S
    BY FS_AddElement
<1> HIDE DEF T
<1>2. PICK g : Sums(g, f, T) /\ Total(f, T) = g[T]
    BY <1>1, SumExists, SumUnfolds
<1>3. PICK h : Sums(h, f, S) /\ Total(f, S) = h[S]
    BY SumExists, SumUnfolds
<1>4. g[S] = h[S]
    BY <1>1, <1>2, <1>3, SumsAgree
<1>5. /\ x \in T /\ \A y \in T : f[y] \in Nat
    BY DEF T
<1>6. g[T] = f[x] + g[T \ {x}] /\ g[S] \in Nat
    BY <1>1, <1>2, <1>5, AnyOrder
<1>7. f[x] \in Nat
    BY <1>5
<1>8. Total(f, T) = Total(f, S) + f[x]
  <2>1. T \ {x} = S
    BY <1>1
  <2>2. g[T] = f[x] + g[S] /\ g[S] \in Nat
    BY <1>6, <2>1, Zenon
  <2>3. g[T] = g[S] + f[x]
    BY <1>7, <2>2
  <2> QED
    BY <1>2, <1>3, <1>4, <2>3
<1> QED
    BY <1>8 DEF T
-----------------------------------------------------------------------------
\* A request stays the same while it is answered.
InputOK ==
    /\ budget \in Nat
    /\ \E n \in 0 .. MaxTurns : turns \in [1 .. n -> Nat]
    /\ tokens \in [Chunks -> Nat]

LEMMA InputInit == Init => InputOK
<1> SUFFICES ASSUME Init PROVE InputOK
    OBVIOUS
<1>1. Sizes \subseteq Nat /\ Budgets \subseteq Nat
    BY SizesAssumption
<1>2. PICK n \in 0 .. MaxTurns : turns \in [1 .. n -> Sizes]
    BY DEF Init
<1>3. turns \in [1 .. n -> Nat]
    BY <1>1, <1>2
<1> QED
    BY <1>1, <1>2, <1>3 DEF Init, InputOK

LEMMA InputStays == [Next]_vars => UNCHANGED input
BY DEF Next, vars, request, Embedded, EmbedFails, Recalled, RecallFails, Assemble, TakeTurn,
       EndTurns, Weigh, SkipLost, WeightsRaise, Rank, TakeChunk, Finish, Beside

LEMMA InputStep == InputOK /\ [Next]_vars => InputOK'
BY InputStays DEF InputOK, input

\* What turns and chunks count.
LEMMA TurnsAddUp ==
    ASSUME InputOK, NEW S \in SUBSET DOMAIN turns
    PROVE  /\ TurnTokens(S) \in Nat /\ TurnTokens({}) = 0
           /\ \A i \in DOMAIN turns \ S :
                turns[i] \in Nat /\ TurnTokens(S \cup {i}) = TurnTokens(S) + turns[i]
<1> PICK n \in 0 .. MaxTurns : turns \in [1 .. n -> Nat]
    BY DEF InputOK
<1>0. n \in Int /\ 1 \in Int
    BY NAssumption
<1>1. IsFiniteSet(S)
    BY <1>0, FS_Interval, FS_Subset
<1>2. \A i \in DOMAIN turns : turns[i] \in Nat
    OBVIOUS
<1> QED
    BY <1>1, <1>2, SumEmpty, SumNatural, SumAdds DEF TurnTokens

LEMMA ChunksAddUp ==
    ASSUME InputOK, NEW S \in SUBSET Chunks
    PROVE  /\ ChunkTokens(S) \in Nat /\ ChunkTokens({}) = 0
           /\ \A c \in Chunks \ S :
                tokens[c] \in Nat /\ ChunkTokens(S \cup {c}) = ChunkTokens(S) + tokens[c]
<1>0. N \in Int /\ 1 \in Int
    BY NAssumption
<1>1. IsFiniteSet(S)
    BY <1>0, FS_Interval, FS_Subset DEF Chunks
<1>2. \A c \in Chunks : tokens[c] \in Nat
    BY DEF InputOK
<1> QED
    BY <1>1, <1>2, SumEmpty, SumNatural, SumAdds DEF ChunkTokens

LEMMA RoomIsNatural ==
    ASSUME InputOK
    PROVE  Room \in Nat /\ Room \div 2 \in Nat /\ 2 * (Room \div 2) <= Room
BY DEF InputOK, Room, Preamble

\* What the loop over the turns has kept is what it has passed.
TurnsInv ==
    /\ kept \subseteq DOMAIN turns
    /\ phase \in {"embed", "recall"} => kept = {}
    /\ phase = "turns" =>
            /\ pos \in {0} \cup DOMAIN turns
            /\ \A i \in kept : i > pos
    /\ 2 * TurnTokens(kept) <= Room

\* remaining is what turns and chunks have left of the room.
RemainingInv ==
    /\ included \subseteq tried /\ tried \subseteq Found
    /\ phase \notin {"chunks", "done"} => tried = {}
    /\ phase = "turns" => remaining = Room
    /\ phase = "weigh" => remaining = Room - TurnTokens(kept)
    /\ phase \in {"chunks", "done"} =>
            remaining = Room - TurnTokens(kept) - ChunkTokens(included)
    /\ phase = "done" => tried = Found
    /\ remaining \in Nat

LEMMA AssemblyInit == Init => TurnsInv /\ RemainingInv
<1> SUFFICES ASSUME Init PROVE TurnsInv /\ RemainingInv
    OBVIOUS
<1>1. TurnTokens({}) = 0 /\ Room \in Nat
    BY InputInit, TurnsAddUp, RoomIsNatural
<1> QED
    BY <1>1 DEF Init, TurnsInv, RemainingInv

LEMMA SessionSize ==
    ASSUME InputOK
    PROVE  Cardinality(Session) \in {0} \cup DOMAIN turns
<1> PICK n \in 0 .. MaxTurns : turns \in [1 .. n -> Nat]
    BY DEF InputOK
<1>1. n \in Int /\ 1 \in Int /\ n \in Nat /\ DOMAIN turns = 1 .. n
    BY NAssumption
<1>2. Cardinality(1 .. n) = n
    BY <1>1, FS_Interval
<1>3. Cardinality(Session) \in {0, n}
    BY <1>1, <1>2, FS_EmptySet DEF Session
<1> QED
    BY <1>1, <1>3

LEMMA TurnsStep ==
    ASSUME InputOK, TurnsInv, [Next]_vars
    PROVE  TurnsInv'
<1> USE DEF TurnsInv
<1>1. turns' = turns /\ Room' = Room
    BY InputStays DEF input, Room
<1>2. ASSUME kept' = kept, phase' # "turns" \/ (phase' = phase /\ pos' = pos),
             phase' \in {"embed", "recall"} => phase \in {"embed", "recall"}
      PROVE  TurnsInv'
    BY <1>1, <1>2 DEF TurnTokens
<1>3. CASE Assemble
  <2>1. pos' \in {0} \cup DOMAIN turns /\ kept' = {}
    BY <1>3, SessionSize DEF Assemble
  <2> QED
    BY <1>1, <1>3, <2>1 DEF Assemble, TurnTokens
<1>4. CASE TakeTurn
  <2>1. PICK n \in 0 .. MaxTurns : turns \in [1 .. n -> Nat]
    BY DEF InputOK
  <2>2. pos \in 1 .. n /\ n \in Nat /\ pos \notin kept /\ phase = "turns" /\ phase' = phase /\ pos' = pos - 1
    BY <1>4, <2>1, NAssumption DEF TakeTurn
  <2>3. pos' \in {0} \cup DOMAIN turns
    BY <2>1, <2>2
  <2>4. CASE FitsTurn(pos)
    <3>1. kept' = kept \cup {pos}
      BY <1>4, <2>4 DEF TakeTurn
    <3>2. TurnTokens(kept)' = TurnTokens(kept) + turns[pos] /\ TurnTokens(kept) \in Nat /\ turns[pos] \in Nat
      BY <1>1, <2>1, <2>2, <3>1, TurnsAddUp DEF TurnTokens
    <3>3. (2 * TurnTokens(kept) <= Room)'
      BY <1>1, <2>4, <3>2, RoomIsNatural DEF FitsTurn
    <3>4. \A i \in kept' : i > pos'
      BY <2>1, <2>2, <3>1
    <3> QED
      BY <1>1, <2>1, <2>2, <2>3, <3>1, <3>3, <3>4
  <2>5. CASE ~FitsTurn(pos)
    <3>1. kept' = kept
      BY <1>4, <2>5 DEF TakeTurn
    <3>2. \A i \in kept' : i > pos'
      BY <2>1, <2>2, <3>1
    <3> QED
      BY <1>1, <2>2, <2>3, <3>1, <3>2 DEF TurnTokens
  <2> QED
    BY <2>4, <2>5
<1>5. CASE \/ Embedded \/ EmbedFails \/ \E l \in Layers : Recalled(l) \/ RecallFails(l)
    BY <1>2, <1>5 DEF Embedded, EmbedFails, Recalled, RecallFails
<1>6. CASE EndTurns \/ Weigh \/ SkipLost \/ WeightsRaise \/ Rank \/ Finish
    BY <1>2, <1>6 DEF EndTurns, Weigh, SkipLost, WeightsRaise, Rank, Finish
<1>7. ASSUME NEW c \in Chunks, TakeChunk(c) PROVE TurnsInv'
    BY <1>2, <1>7 DEF TakeChunk
<1>8. CASE Beside \/ UNCHANGED vars
    BY <1>2, <1>8 DEF Beside, vars, request
<1> QED
    BY <1>3, <1>4, <1>5, <1>6, <1>7, <1>8 DEF Next

LEMMA RemainingStep ==
    ASSUME InputOK, TurnsInv, RemainingInv, [Next]_vars
    PROVE  RemainingInv'
<1> USE DEF RemainingInv
<1>1. turns' = turns /\ tokens' = tokens /\ Room' = Room
    BY InputStays DEF input, Room
<1>2. TurnTokens(kept) \in Nat /\ 2 * TurnTokens(kept) <= Room /\ Room \in Nat /\ ChunkTokens({}) = 0
    BY TurnsAddUp, ChunksAddUp, RoomIsNatural DEF TurnsInv
<1>3. CASE \/ Embedded \/ EmbedFails \/ \E l \in Layers : Recalled(l) \/ RecallFails(l)
    BY <1>3 DEF Embedded, EmbedFails, Recalled, RecallFails
<1>4. CASE Assemble
    BY <1>1, <1>2, <1>4 DEF Assemble
<1>5. CASE TakeTurn
    BY <1>1, <1>5 DEF TakeTurn
<1>6. CASE EndTurns
    BY <1>1, <1>2, <1>6 DEF EndTurns, TurnTokens
<1>7. CASE Weigh \/ SkipLost \/ WeightsRaise \/ Beside \/ UNCHANGED vars
  <2>1. UNCHANGED <<kept, included, tried, remaining, lost>> /\ phase' \in {phase, "error"}
    BY <1>7 DEF Weigh, SkipLost, WeightsRaise, Beside, vars, request
  <2>2. Found' = Found
    BY <2>1 DEF Found
  <2>3. phase' = phase \/ (phase = "weigh" /\ phase' = "error")
    BY <1>7 DEF Weigh, SkipLost, WeightsRaise, Beside, vars, request
  <2> QED
    BY <1>1, <2>1, <2>2, <2>3 DEF TurnTokens, ChunkTokens
<1>8. CASE Rank
  <2>1. UNCHANGED <<kept, included, tried, remaining, lost>> /\ phase = "weigh" /\ phase' = "chunks" /\ included = {}
    BY <1>8 DEF Rank
  <2> QED
    BY <1>1, <1>2, <2>1 DEF TurnTokens, ChunkTokens, Found
<1>9. ASSUME NEW c \in Chunks, TakeChunk(c) PROVE RemainingInv'
  <2>1. /\ c \in Found \ tried /\ phase = "chunks" /\ phase' = phase /\ kept' = kept
        /\ tried' = tried \cup {c} /\ Found' = Found /\ Found \subseteq Chunks
    BY <1>9 DEF TakeChunk, IsNext, Found
  <2>2. included \in SUBSET Chunks /\ c \in Chunks \ included
    BY <2>1
  <2>3. ChunkTokens(included) \in Nat /\ tokens[c] \in Nat
        /\ ChunkTokens(included \cup {c}) = ChunkTokens(included) + tokens[c]
    BY <2>2, ChunksAddUp
  <2>4. CASE Fits(c)
    <3>1. included' = included \cup {c} /\ remaining' = remaining - tokens[c] /\ remaining >= tokens[c]
      BY <1>9, <2>4 DEF TakeChunk, Fits
    <3>2. ChunkTokens(included)' = ChunkTokens(included) + tokens[c] /\ TurnTokens(kept)' = TurnTokens(kept)
      BY <1>1, <2>1, <2>3, <3>1 DEF ChunkTokens, TurnTokens
    <3>3. remaining' = Room' - TurnTokens(kept)' - ChunkTokens(included)' /\ remaining' \in Nat
      BY <1>1, <1>2, <2>1, <2>3, <3>1, <3>2
    <3> QED
      BY <2>1, <3>1, <3>3
  <2>5. CASE ~Fits(c)
    <3>1. included' = included /\ remaining' = remaining
      BY <1>9, <2>5 DEF TakeChunk
    <3> QED
      BY <1>1, <2>1, <3>1 DEF ChunkTokens, TurnTokens
  <2> QED
    BY <2>4, <2>5
<1>10. CASE Finish
    BY <1>1, <1>10 DEF Finish, TurnTokens, ChunkTokens, Found
<1> QED
    BY <1>3, <1>4, <1>5, <1>6, <1>7, <1>8, <1>9, <1>10 DEF Next

\* The turns take at most half of the room and turns and chunks together at
\* most the room, as _count_tokens counts them one by one.
THEOREM HydrationRespectsBudget == Spec => []BudgetRespected
<1>1. InputOK /\ TurnsInv /\ RemainingInv => BudgetRespected
  <2> SUFFICES ASSUME InputOK, TurnsInv, RemainingInv PROVE BudgetRespected
    OBVIOUS
  <2>1. TurnTokens(kept) \in Nat /\ Room \in Nat /\ 2 * TurnTokens(kept) <= Room
    BY TurnsAddUp, RoomIsNatural DEF TurnsInv
  <2>2. included \in SUBSET Chunks
    BY DEF RemainingInv, Found
  <2>3. ChunkTokens(included) \in Nat /\ ChunkTokens({}) = 0
    BY <2>2, ChunksAddUp
  <2>4. CASE phase \in {"chunks", "done"}
    BY <2>1, <2>3, <2>4 DEF RemainingInv, BudgetRespected
  <2>5. CASE phase \notin {"chunks", "done"}
    <3>1. included = {}
      BY <2>5 DEF RemainingInv
    <3> QED
      BY <2>1, <2>3, <3>1 DEF BudgetRespected
  <2> QED
    BY <2>4, <2>5
<1> QED
    BY <1>1, InputInit, InputStep, AssemblyInit, TurnsStep, RemainingStep, PTL DEF Spec

-----------------------------------------------------------------------------
\* The chunks are taken in the order of their ranks, and one that was left out
\* had no room beside the turns and the chunks that rank above it.
Above(c) == {d \in included : Before(d, c)}

RankInv ==
    /\ weight \in [Chunks -> Nat]
    /\ \A d \in tried, c \in Found \ tried : Before(d, c)
    /\ \A c \in tried \ included : TurnTokens(kept) + ChunkTokens(Above(c)) + tokens[c] > Room

LEMMA BeforeOrders ==
    ASSUME weight \in [Chunks -> Nat], NEW c \in Chunks, NEW d \in Chunks, Before(c, d)
    PROVE  ~Before(d, c)
<1>1. Score[c] * weight[c] \in Int /\ Score[d] * weight[d] \in Int
  <2>1. Score[c] \in Int /\ Score[d] \in Int /\ weight[c] \in Int /\ weight[d] \in Int
    BY ScoreAssumption
  <2> QED
    BY <2>1
<1>2. c \in Int /\ d \in Int
    BY NAssumption DEF Chunks
<1> QED
    BY <1>1, <1>2 DEF Before

CacheOK == cache \in [Sources -> Nat] /\ config \in Configs

LEMMA CacheStep ==
    ASSUME CacheOK, [Next]_vars
    PROVE  CacheOK'
<1> USE DefaultAssumption, ConfigsAssumption DEF CacheOK
<1>1. ASSUME UNCHANGED cacheVars PROVE CacheOK'
    BY <1>1 DEF cacheVars
<1>2. ASSUME Loaded PROVE CacheOK'
    BY <1>2 DEF Loaded, Normalised, Sources
<1>3. CASE Beside
    BY <1>2, <1>3 DEF Beside, Elapse, Reconfigure
<1>4. CASE Weigh
    BY <1>1, <1>2, <1>4 DEF Weigh, Served
<1>5. CASE \/ Embedded \/ EmbedFails \/ \E l \in Layers : Recalled(l) \/ RecallFails(l)
    BY <1>1, <1>5 DEF Embedded, EmbedFails, Recalled, RecallFails, cacheVars
<1>6. CASE Assemble \/ TakeTurn \/ EndTurns \/ SkipLost \/ WeightsRaise \/ Rank \/ Finish
    BY <1>1, <1>6 DEF Assemble, TakeTurn, EndTurns, SkipLost, WeightsRaise, LoadRaises, Rank, Finish, cacheVars
<1>7. CASE (\E c \in Chunks : TakeChunk(c)) \/ UNCHANGED vars
    BY <1>1, <1>7 DEF TakeChunk, vars, cacheVars
<1> QED
    BY <1>3, <1>4, <1>5, <1>6, <1>7 DEF Next

LEMMA RankInit == Init => RankInv /\ CacheOK
BY DefaultAssumption DEF Init, CacheInit, RankInv, CacheOK, Sources

LEMMA RankStep ==
    ASSUME InputOK, CacheOK, CacheOK', TurnsInv, RemainingInv, RankInv, [Next]_vars
    PROVE  RankInv'
<1>1. turns' = turns /\ tokens' = tokens /\ Room' = Room
    BY InputStays DEF input, Room
<1>2. CASE tried = {} /\ UNCHANGED <<weight, tried>>
    BY <1>2 DEF RankInv
<1>3. CASE Weigh
  <2>1. weight' \in [Chunks -> Nat] /\ tried' = {}
    BY <1>3, ScoreAssumption DEF Weigh, GetWeight, RankInv, RemainingInv, CacheOK, Found
  <2> QED
    BY <2>1 DEF RankInv
<1>4. CASE Finish \/ UNCHANGED vars
    BY <1>1, <1>4 DEF Finish, vars, request, RankInv, Above, Before, Found, TurnTokens, ChunkTokens
<1>5. ASSUME NEW c \in Chunks, TakeChunk(c) PROVE RankInv'
  <2>1. /\ c \in Found \ tried /\ \A d \in (Found \ tried) \ {c} : Before(c, d)
        /\ tried' = tried \cup {c} /\ Found' = Found /\ weight' = weight /\ kept' = kept
        /\ \A a, b : Before(a, b)' <=> Before(a, b)
    BY <1>5 DEF TakeChunk, IsNext, Found, Before
  <2>2. \A d \in tried', e \in (Found \ tried)' : Before(d, e)'
    BY <2>1 DEF RankInv
  <2>3. ASSUME NEW e \in tried' \ included'
        PROVE  (TurnTokens(kept) + ChunkTokens(Above(e)) + tokens[e] > Room)'
    <3>1. CASE e = c
      <4>1. included' = included /\ remaining < tokens[c] /\ remaining = Room - TurnTokens(kept) - ChunkTokens(included)
        BY <1>5, <2>3, <3>1 DEF TakeChunk, Fits, RemainingInv, InputOK
      <4>2. Above(c)' = included
        BY <2>1, <4>1 DEF Above, RankInv, RemainingInv
      <4>3. TurnTokens(kept) \in Nat /\ ChunkTokens(included) \in Nat /\ tokens[c] \in Nat /\ Room \in Nat
        BY TurnsAddUp, ChunksAddUp, RoomIsNatural DEF TurnsInv, RemainingInv, Found, InputOK
      <4>4. TurnTokens(kept) + ChunkTokens(included) + tokens[c] > Room
        BY <4>1, <4>3
      <4>5. ChunkTokens(Above(c))' = ChunkTokens(included) /\ TurnTokens(kept)' = TurnTokens(kept)
        BY <1>1, <2>1, <4>2 DEF ChunkTokens, TurnTokens
      <4> QED
        BY <1>1, <3>1, <4>4, <4>5
    <3>2. CASE e # c
      <4>1. e \in tried \ included /\ e \in Chunks
        BY <2>1, <2>3, <3>2, <1>5 DEF TakeChunk, RemainingInv, Found
      <4>2. ~Before(c, e)
        BY <2>1, <4>1, BeforeOrders DEF RankInv
      <4>3. Above(e)' = Above(e)
        BY <1>5, <2>1, <4>2 DEF Above, TakeChunk
      <4>4. ChunkTokens(Above(e))' = ChunkTokens(Above(e)) /\ TurnTokens(kept)' = TurnTokens(kept)
        BY <1>1, <2>1, <4>3 DEF ChunkTokens, TurnTokens
      <4> QED
        BY <1>1, <4>1, <4>4 DEF RankInv
    <3> QED
      BY <3>1, <3>2
  <2> QED
    BY <2>1, <2>2, <2>3 DEF RankInv
<1>6. CASE \/ Embedded \/ EmbedFails \/ \E l \in Layers : Recalled(l) \/ RecallFails(l)
    BY <1>2, <1>6 DEF Embedded, EmbedFails, Recalled, RecallFails, RemainingInv
<1>7. CASE Assemble \/ TakeTurn \/ EndTurns \/ SkipLost \/ WeightsRaise \/ Rank
    BY <1>2, <1>7 DEF Assemble, TakeTurn, EndTurns, SkipLost, WeightsRaise, Rank, RemainingInv
<1>8. CASE Beside
    BY <1>2, <1>8 DEF Beside, request, RemainingInv
<1> QED
    BY <1>3, <1>4, <1>5, <1>6, <1>7, <1>8 DEF Next

\* A chunk that was found is left out only if the turns and the chunks that
\* rank above it, by score and the weights in use, leave no room for it.
THEOREM HydrationDropsOnlyForRoom == Spec => []DroppedOnlyForRoom
<1>1. RemainingInv /\ RankInv => DroppedOnlyForRoom
    BY DEF RemainingInv, RankInv, DroppedOnlyForRoom, Above
<1>2. CacheOK /\ [Next]_vars => CacheOK'
    BY CacheStep
<1>3. InputOK /\ CacheOK /\ CacheOK' /\ TurnsInv /\ RemainingInv /\ RankInv /\ [Next]_vars => RankInv'
    BY RankStep
<1> QED
    BY <1>1, <1>2, <1>3, InputInit, InputStep, AssemblyInit, TurnsStep, RemainingStep, RankInit,
       PTL DEF Spec

-----------------------------------------------------------------------------
\* Where the loops are, and what the recalls have ended with.
PlaceOK ==
    /\ phase \in {"embed", "recall", "turns", "weigh", "chunks", "done", "error"}
    /\ pending \subseteq Layers /\ lost \subseteq Layers
    /\ failed \subseteq {Label(l) : l \in Layers}
    /\ pos \in 0 .. (IF N >= MaxTurns THEN N + 1 ELSE MaxTurns)

LEMMA PlaceInit == Init => PlaceOK
BY NAssumption DEF Init, PlaceOK

LEMMA PlaceStep ==
    ASSUME InputOK, TurnsInv, PlaceOK, [Next]_vars
    PROVE  PlaceOK'
<1> USE NAssumption DEF PlaceOK
<1>1. CASE \/ Embedded \/ EmbedFails \/ \E l \in Layers : Recalled(l) \/ RecallFails(l)
    BY <1>1 DEF Embedded, EmbedFails, Recalled, RecallFails
<1>2. CASE Assemble
  <2>1. PICK n \in 0 .. MaxTurns : turns \in [1 .. n -> Nat]
    BY DEF InputOK
  <2>2. pos' \in {0} \cup 1 .. n
    BY <1>2, <2>1, SessionSize DEF Assemble
  <2> QED
    BY <1>2, <2>2 DEF Assemble
<1>3. CASE TakeTurn
    BY <1>3 DEF TakeTurn
<1>4. CASE EndTurns
    BY <1>4 DEF EndTurns
<1>5. CASE Weigh \/ SkipLost
    BY <1>5 DEF Weigh, SkipLost, Found, Chunks
<1>6. CASE WeightsRaise \/ Rank \/ Finish
    BY <1>6 DEF WeightsRaise, Rank, Finish
<1>7. ASSUME NEW c \in Chunks, TakeChunk(c) PROVE PlaceOK'
    BY <1>7 DEF TakeChunk
<1>8. CASE Beside \/ UNCHANGED vars
    BY <1>8 DEF Beside, vars, request
<1> QED
    BY <1>1, <1>2, <1>3, <1>4, <1>5, <1>6, <1>7, <1>8 DEF Next

\* Every variable has its type; tokens never run out below zero.
THEOREM HydrationTypeCorrect == Spec => []TypeOK
<1>1. /\ FreshInv /\ CacheOK /\ PlaceOK /\ TurnsInv /\ RemainingInv /\ RankInv
      => TypeOK
    BY DEF FreshInv, CacheOK, PlaceOK, TurnsInv, RemainingInv, RankInv, TypeOK, CacheTypeOK, Found
<1>2. CacheOK /\ [Next]_vars => CacheOK'
    BY CacheStep
<1>3. InputOK /\ CacheOK /\ CacheOK' /\ TurnsInv /\ RemainingInv /\ RankInv /\ [Next]_vars => RankInv'
    BY RankStep
<1>4. InputOK /\ TurnsInv /\ PlaceOK /\ [Next]_vars => PlaceOK'
    BY PlaceStep
<1> QED
    BY <1>1, <1>2, <1>3, <1>4, InputInit, InputStep, AssemblyInit, TurnsStep, RemainingStep, RankInit,
       FreshInit, FreshStep, PlaceInit, PTL DEF Spec
=============================================================================
