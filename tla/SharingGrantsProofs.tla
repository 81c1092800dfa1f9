------------------------ MODULE SharingGrantsProofs ------------------------
(***************************************************************************)
(* Proofs about SharingGrants, for all connectors, workspaces and          *)
(* processes, every lifetime of the entry and every bound on the delay.    *)
(***************************************************************************)
EXTENDS SharingGrants, TLAPS

LEMMA TimeFacts ==
    TTL \in Nat /\ TTL > 0 /\ MaxDelay \in Nat /\ Bound \in Nat /\ Horizon \in Nat
    /\ Bound = TTL + MaxDelay /\ Horizon = Bound + 1
BY TimeAssumption DEF Bound, Horizon

LEMMA LaterStep ==
    ASSUME NEW t \in 0 .. Horizon
    PROVE  Later(t) \in 0 .. Horizon /\ Later(t) <= t + 1
BY TimeFacts DEF Later

LEMMA TypeInit == Init => TypeOK
BY TimeFacts, StampedAssumption, NoneAssumption DEF Init, TypeOK

LEMMA TypeRegistry ==
    ASSUME TypeOK, NEW c \in Connectors,
           \/ \E w \in Workspaces : CreateGrant(c, w) \/ DeleteGrant(c, w)
           \/ DeleteConnector(c)
           \/ \E s \in Asked : PatchConnector(c, s)
    PROVE  TypeOK'
<1>t. 0 \in 0 .. Horizon
    BY TimeFacts
<1>1. ASSUME NEW w \in Workspaces, CreateGrant(c, w) PROVE TypeOK'
  <2>1. <<c, w>> \in Pairs
    BY DEF Pairs
  <2>2. active' \in SUBSET Pairs /\ revoked' \in SUBSET Pairs /\ active' \cap revoked' = {}
    BY <1>1, <2>1 DEF CreateGrant, TypeOK
  <2>3. since' \in [Pairs -> 0 .. Horizon]
    BY <1>1, <2>1, <1>t DEF CreateGrant, TypeOK
  <2> QED
    BY <1>1, <2>2, <2>3 DEF CreateGrant, TypeOK, redis, recall
<1>2. ASSUME NEW w \in Workspaces, DeleteGrant(c, w) PROVE TypeOK'
  <2>1. <<c, w>> \in Pairs
    BY DEF Pairs
  <2>2. active' \in SUBSET Pairs /\ revoked' \in SUBSET Pairs /\ active' \cap revoked' = {}
    BY <1>2, <2>1 DEF DeleteGrant, TypeOK
  <2>3. since' \in [Pairs -> 0 .. Horizon]
    BY <1>2, <2>1, <1>t DEF DeleteGrant, TypeOK
  <2> QED
    BY <1>2, <2>2, <2>3 DEF DeleteGrant, TypeOK, redis, recall
<1>3. CASE DeleteConnector(c)
  <2>1. active' \in SUBSET Pairs /\ revoked' \in SUBSET Pairs /\ active' \cap revoked' = {}
    BY <1>3 DEF DeleteConnector, TypeOK
  <2>2. since' \in [Pairs -> 0 .. Horizon]
    BY <1>3, <1>t DEF DeleteConnector, TypeOK
  <2>3. deleted' \in SUBSET Connectors
    BY <1>3 DEF DeleteConnector, TypeOK
  <2> QED
    BY <1>3, <2>1, <2>2, <2>3 DEF DeleteConnector, TypeOK, redis, recall
<1>4. ASSUME NEW s \in Asked, PatchConnector(c, s) PROVE TypeOK'
  <2>1. wanted' \in [Connectors -> Scopes] /\ settled' \in [Connectors -> 0 .. Horizon]
    BY <1>4, <1>t, AskedAssumption DEF PatchConnector, TypeOK
  <2> QED
    BY <1>4, <2>1 DEF PatchConnector, TypeOK, registry, redis, recall
<1> QED
    BY <1>1, <1>2, <1>3, <1>4

LEMMA TypeRecall ==
    ASSUME TypeOK, NEW p \in Procs,
           \/ \E w \in Workspaces : Hit(p, w) \/ Select(p, w)
           \/ Setex(p) \/ Answer(p) \/ Fail(p)
    PROVE  TypeOK'
<1>t. 0 \in 0 .. MaxDelay /\ TTL \in 0 .. TTL
    BY TimeFacts
<1>1. ASSUME NEW w \in Workspaces, NEW next \in {"selected", "filtering"},
             NEW S \in SUBSET Connectors, Begin(p, w, next, S), UNCHANGED redis
      PROVE  TypeOK'
  <2>1. /\ pc' \in [Procs -> {"idle", "selected", "filtering"}]
        /\ ws' \in [Procs -> Workspaces \cup {None}]
        /\ loaded' \in [Procs -> SUBSET Connectors]
        /\ age' \in [Procs -> 0 .. MaxDelay]
    BY <1>1, <1>t DEF Begin, TypeOK
  <2>2. ASSUME NEW q \in Procs
        PROVE  (ws'[q] = None <=> pc'[q] = "idle") /\ (pc'[q] = "idle" => loaded'[q] = {})
    BY <1>1, NoneAssumption DEF Begin, TypeOK
  <2> QED
    BY <1>1, <2>1, <2>2 DEF Begin, TypeOK, registry, redis, history
<1>2. ASSUME NEW w \in Workspaces, Hit(p, w) PROVE TypeOK'
  <2>1. cache[w] \in SUBSET Connectors
    BY DEF TypeOK
  <2> QED
    BY <1>1, <1>2, <2>1 DEF Hit
<1>3. ASSUME NEW w \in Workspaces, Select(p, w) PROVE TypeOK'
  <2>1. Selected(w) \in SUBSET Connectors
    BY DEF Selected
  <2> QED
    BY <1>1, <1>3, <2>1 DEF Select
<1>4. CASE Setex(p)
  <2>1. ws[p] \in Workspaces /\ loaded[p] \in SUBSET Connectors
    BY <1>4 DEF Setex, TypeOK
  <2>2. cache' \in [Workspaces -> SUBSET Connectors] /\ ttl' \in [Workspaces -> 0 .. TTL]
    BY <1>4, <2>1, <1>t DEF Setex, TypeOK
  <2>3. pc' \in [Procs -> {"idle", "selected", "filtering"}]
    BY <1>4 DEF Setex, TypeOK
  <2>4. ASSUME NEW q \in Procs
        PROVE  (ws'[q] = None <=> pc'[q] = "idle") /\ (pc'[q] = "idle" => loaded'[q] = {})
    BY <1>4 DEF Setex, TypeOK
  <2> QED
    BY <1>4, <2>2, <2>3, <2>4 DEF Setex, TypeOK, registry, history
<1>5. CASE Reset(p)
  <2>1. /\ pc' \in [Procs -> {"idle", "selected", "filtering"}]
        /\ ws' \in [Procs -> Workspaces \cup {None}]
        /\ loaded' \in [Procs -> SUBSET Connectors]
        /\ age' \in [Procs -> 0 .. MaxDelay]
    BY <1>5, <1>t DEF Reset, TypeOK
  <2>2. ASSUME NEW q \in Procs
        PROVE  (ws'[q] = None <=> pc'[q] = "idle") /\ (pc'[q] = "idle" => loaded'[q] = {})
    BY <1>5 DEF Reset, TypeOK
  <2> QED
    BY <1>5, <2>1, <2>2 DEF Reset, TypeOK, registry, redis, history
<1> QED
    BY <1>2, <1>3, <1>4, <1>5 DEF Answer, Fail

LEMMA TypeTick == TypeOK /\ Tick => TypeOK'
<1> SUFFICES ASSUME TypeOK, Tick PROVE TypeOK'
    OBVIOUS
<1>1. ttl' \in [Workspaces -> 0 .. TTL]
  <2>1. \A w \in Workspaces : ttl[w] \in 0 .. TTL
    BY DEF TypeOK
  <2> QED
    BY <2>1, TimeFacts DEF Tick
<1>2. cache' \in [Workspaces -> SUBSET Connectors]
    BY DEF Tick, TypeOK
<1>3. age' \in [Procs -> 0 .. MaxDelay]
  <2>1. \A p \in Procs : age[p] \in 0 .. MaxDelay
    BY DEF TypeOK
  <2> QED
    BY <2>1, TimeFacts DEF Tick
<1>4. since' \in [Pairs -> 0 .. Horizon]
  <2>1. \A g \in Pairs : since[g] \in 0 .. Horizon
    BY DEF TypeOK
  <2> QED
    BY <2>1, LaterStep DEF Tick
<1>5. settled' \in [Connectors -> 0 .. Horizon]
  <2>1. \A c \in Connectors : settled[c] \in 0 .. Horizon
    BY DEF TypeOK
  <2> QED
    BY <2>1, LaterStep DEF Tick
<1> QED
    BY <1>1, <1>2, <1>3, <1>4, <1>5 DEF Tick, TypeOK, registry

LEMMA TypeStep == TypeOK /\ [Next]_vars => TypeOK'
<1> SUFFICES ASSUME TypeOK, [Next]_vars PROVE TypeOK'
    OBVIOUS
<1>1. CASE UNCHANGED vars
    BY <1>1 DEF vars, registry, redis, recall, history, TypeOK
<1> QED
    BY <1>1, TypeTick, TypeRegistry, TypeRecall DEF Next

\* Type correctness of the grants, the cache and the recalls under way.
THEOREM GrantsTypeCorrect == Spec => []TypeOK
BY TypeInit, TypeStep, PTL DEF Spec

-----------------------------------------------------------------------------
(***************************************************************************)
(* What the cache and the recalls hold can be wrong about a pair only if   *)
(* the pair changed recently: less than its age ago in a recall, and less  *)
(* than Bound minus what is left of its life ago in the cache.             *)
(***************************************************************************)
Agreement == CacheAgrees /\ SelectionAgrees /\ FilterAgrees

LEMMA AgreementInit == Init => Agreement
BY TimeFacts DEF Init, Agreement, CacheAgrees, SelectionAgrees, FilterAgrees

LEMMA RegistryKeeps ==
    ASSUME NEW d \in Connectors,
           \/ \E w \in Workspaces : CreateGrant(d, w) \/ DeleteGrant(d, w)
           \/ DeleteConnector(d)
           \/ \E s \in Asked : PatchConnector(d, s)
    PROVE  UNCHANGED <<redis, recall>>
BY DEF CreateGrant, DeleteGrant, DeleteConnector, PatchConnector

\* The registry changes a pair and sets its clock to zero, or does neither.
LEMMA RegistryChange ==
    ASSUME TypeOK, NEW d \in Connectors,
           \/ \E w \in Workspaces : CreateGrant(d, w) \/ DeleteGrant(d, w)
           \/ DeleteConnector(d)
           \/ \E s \in Asked : PatchConnector(d, s),
           NEW c \in Connectors, NEW v \in Workspaces
    PROVE  \/ since'[<<c, v>>] = 0
           \/ /\ since'[<<c, v>>] = since[<<c, v>>]
              /\ <<c, v>> \in Recorded' <=> <<c, v>> \in Recorded
<1>g. <<c, v>> \in Pairs /\ since \in [Pairs -> 0 .. Horizon]
    BY DEF Pairs, TypeOK
<1>1. ASSUME NEW w \in Workspaces, CreateGrant(d, w) \/ DeleteGrant(d, w)
      PROVE  \/ since'[<<c, v>>] = 0
             \/ /\ since'[<<c, v>>] = since[<<c, v>>]
                /\ <<c, v>> \in Recorded' <=> <<c, v>> \in Recorded
  <2>1. CASE <<d, w>> = <<c, v>>
    BY <1>1, <2>1, <1>g DEF CreateGrant, DeleteGrant, Recorded
  <2>2. CASE <<d, w>> # <<c, v>>
    BY <1>1, <2>2, <1>g DEF CreateGrant, DeleteGrant, Recorded
  <2> QED
    BY <2>1, <2>2
<1>2. CASE DeleteConnector(d)
    BY <1>2, <1>g DEF DeleteConnector, Recorded
<1>3. ASSUME NEW s \in Asked, PatchConnector(d, s)
      PROVE  \/ since'[<<c, v>>] = 0
             \/ /\ since'[<<c, v>>] = since[<<c, v>>]
                /\ <<c, v>> \in Recorded' <=> <<c, v>> \in Recorded
    BY <1>3 DEF PatchConnector, registry, Recorded
<1> QED
    BY <1>1, <1>2, <1>3

LEMMA AgreementRegistry ==
    ASSUME TypeOK, Agreement, NEW d \in Connectors,
           \/ \E w \in Workspaces : CreateGrant(d, w) \/ DeleteGrant(d, w)
           \/ DeleteConnector(d)
           \/ \E s \in Asked : PatchConnector(d, s)
    PROVE  Agreement'
<1>1. ASSUME NEW c \in Connectors, NEW w \in Workspaces,
             ttl'[w] > 0, Disagrees(c, w, cache[w])'
      PROVE  since'[<<c, w>>] + ttl'[w] <= Bound
  <2>1. UNCHANGED <<ttl, cache>> /\ ttl[w] \in 0 .. TTL
    BY RegistryKeeps DEF redis, TypeOK
  <2>2. CASE since'[<<c, w>>] = 0
    BY <2>1, <2>2, TimeFacts
  <2>3. CASE /\ since'[<<c, w>>] = since[<<c, w>>]
             /\ <<c, w>> \in Recorded' <=> <<c, w>> \in Recorded
    BY <1>1, <2>1, <2>3 DEF Agreement, CacheAgrees, Disagrees
  <2> QED
    BY <2>2, <2>3, RegistryChange
<1>2. ASSUME NEW p \in Procs, NEW c \in Connectors,
             pc'[p] = "selected", Disagrees(c, ws[p], loaded[p])'
      PROVE  since'[<<c, ws'[p]>>] <= age'[p]
  <2>1. UNCHANGED <<pc, ws, loaded, age>>
    BY RegistryKeeps DEF recall
  <2>2. ws[p] \in Workspaces /\ age[p] \in 0 .. MaxDelay
    BY <1>2, <2>1 DEF TypeOK
  <2>3. CASE since'[<<c, ws[p]>>] = 0
    BY <2>1, <2>2, <2>3, TimeFacts
  <2>4. CASE /\ since'[<<c, ws[p]>>] = since[<<c, ws[p]>>]
             /\ <<c, ws[p]>> \in Recorded' <=> <<c, ws[p]>> \in Recorded
    BY <1>2, <2>1, <2>4 DEF Agreement, SelectionAgrees, Disagrees
  <2> QED
    BY <2>2, <2>3, <2>4, RegistryChange
<1>3. ASSUME NEW p \in Procs, NEW c \in Connectors,
             pc'[p] = "filtering", Disagrees(c, ws[p], loaded[p])'
      PROVE  since'[<<c, ws'[p]>>] < Bound
  <2>1. UNCHANGED <<pc, ws, loaded, age>>
    BY RegistryKeeps DEF recall
  <2>2. ws[p] \in Workspaces
    BY <1>3, <2>1 DEF TypeOK
  <2>3. CASE since'[<<c, ws[p]>>] = 0
    BY <2>1, <2>3, TimeFacts
  <2>4. CASE /\ since'[<<c, ws[p]>>] = since[<<c, ws[p]>>]
             /\ <<c, ws[p]>> \in Recorded' <=> <<c, ws[p]>> \in Recorded
    BY <1>3, <2>1, <2>4 DEF Agreement, FilterAgrees, Disagrees
  <2> QED
    BY <2>2, <2>3, <2>4, RegistryChange
<1> QED
    BY <1>1, <1>2, <1>3 DEF Agreement, CacheAgrees, SelectionAgrees, FilterAgrees

LEMMA AgreementRecall ==
    ASSUME TypeOK, Agreement, NEW p \in Procs,
           \/ \E w \in Workspaces : Hit(p, w) \/ Select(p, w)
           \/ Setex(p) \/ Answer(p) \/ Fail(p)
    PROVE  Agreement'
<1>1. ASSUME NEW w \in Workspaces, Hit(p, w) PROVE Agreement'
  <2>1. UNCHANGED <<cache, ttl, Recorded, since>>
    BY <1>1 DEF Hit, Begin, redis, registry, history, Recorded
  <2>2. \A q \in Procs \ {p} : pc'[q] = pc[q] /\ ws'[q] = ws[q]
                               /\ loaded'[q] = loaded[q] /\ age'[q] = age[q]
    BY <1>1 DEF Hit, Begin, TypeOK
  <2>3. pc'[p] = "filtering" /\ ws'[p] = w /\ loaded'[p] = cache[w] /\ ttl[w] > 0
    BY <1>1 DEF Hit, Begin, TypeOK
  <2>4. ASSUME NEW c \in Connectors, Disagrees(c, w, cache[w])
        PROVE  since[<<c, w>>] < Bound
    <3>1. since[<<c, w>>] + ttl[w] <= Bound
      BY <2>3, <2>4 DEF Agreement, CacheAgrees
    <3>2. since[<<c, w>>] \in Nat /\ ttl[w] \in Nat
      BY TimeFacts DEF TypeOK, Pairs
    <3> QED
      BY <2>3, <3>1, <3>2, TimeFacts
  <2>5. CacheAgrees'
    BY <2>1 DEF Agreement, CacheAgrees, Disagrees
  <2>6. SelectionAgrees'
    BY <2>1, <2>2, <2>3 DEF Agreement, SelectionAgrees, Disagrees
  <2>7. FilterAgrees'
    BY <2>1, <2>2, <2>3, <2>4 DEF Agreement, FilterAgrees, Disagrees
  <2> QED
    BY <2>5, <2>6, <2>7 DEF Agreement
<1>2. ASSUME NEW w \in Workspaces, Select(p, w) PROVE Agreement'
  <2>1. UNCHANGED <<cache, ttl, Recorded, since>>
    BY <1>2 DEF Select, Begin, redis, registry, history, Recorded
  <2>2. \A q \in Procs \ {p} : pc'[q] = pc[q] /\ ws'[q] = ws[q]
                               /\ loaded'[q] = loaded[q] /\ age'[q] = age[q]
    BY <1>2 DEF Select, Begin, TypeOK
  <2>3. pc'[p] = "selected" /\ ws'[p] = w /\ loaded'[p] = Selected(w)
    BY <1>2 DEF Select, Begin, TypeOK
  <2>4. \A c \in Connectors : ~Disagrees(c, w, Selected(w))
    BY DEF Disagrees, Selected
  <2>5. CacheAgrees'
    BY <2>1 DEF Agreement, CacheAgrees, Disagrees
  <2>6. SelectionAgrees'
    BY <2>1, <2>2, <2>3, <2>4 DEF Agreement, SelectionAgrees, Disagrees
  <2>7. FilterAgrees'
    BY <2>1, <2>2, <2>3 DEF Agreement, FilterAgrees, Disagrees
  <2> QED
    BY <2>5, <2>6, <2>7 DEF Agreement
<1>3. CASE Setex(p)
  <2>1. UNCHANGED <<ws, loaded, age, Recorded, since>> /\ pc[p] = "selected"
    BY <1>3 DEF Setex, registry, history, Recorded
  <2>2. /\ \A q \in Procs \ {p} : pc'[q] = pc[q]
        /\ pc'[p] = "filtering"
    BY <1>3 DEF Setex, TypeOK
  <2>3. ASSUME NEW c \in Connectors, Disagrees(c, ws[p], loaded[p])
        PROVE  since[<<c, ws[p]>>] <= MaxDelay /\ since[<<c, ws[p]>>] \in Nat
    <3>1. since[<<c, ws[p]>>] <= age[p]
      BY <2>1, <2>3 DEF Agreement, SelectionAgrees
    <3>2. ws[p] \in Workspaces /\ age[p] \in 0 .. MaxDelay
      BY <2>1 DEF TypeOK
    <3>3. since[<<c, ws[p]>>] \in 0 .. Horizon
      BY <3>2 DEF TypeOK, Pairs
    <3> QED
      BY <3>1, <3>2, <3>3, TimeFacts
  <2>4. CacheAgrees'
    <3>1. ASSUME NEW w \in Workspaces, NEW c \in Connectors,
                 ttl'[w] > 0, Disagrees(c, w, cache[w])'
          PROVE  since'[<<c, w>>] + ttl'[w] <= Bound
      <4>1. CASE w = ws[p]
        <5>1. cache'[w] = loaded[p] /\ ttl'[w] = TTL
          BY <1>3, <4>1 DEF Setex, TypeOK
        <5> QED
          BY <2>1, <2>3, <3>1, <4>1, <5>1, TimeFacts DEF Disagrees
      <4>2. CASE w # ws[p]
        <5>1. cache'[w] = cache[w] /\ ttl'[w] = ttl[w]
          BY <1>3, <4>2 DEF Setex, TypeOK
        <5> QED
          BY <2>1, <3>1, <5>1 DEF Agreement, CacheAgrees, Disagrees
      <4> QED
        BY <4>1, <4>2
    <3> QED
      BY <3>1 DEF CacheAgrees
  <2>5. SelectionAgrees'
    BY <2>1, <2>2 DEF Agreement, SelectionAgrees, Disagrees
  <2>6. FilterAgrees'
    <3>1. ASSUME NEW c \in Connectors, Disagrees(c, ws[p], loaded[p])
          PROVE  since[<<c, ws[p]>>] < Bound
      BY <2>3, <3>1, TimeFacts
    <3> QED
      BY <2>1, <2>2, <3>1 DEF Agreement, FilterAgrees, Disagrees
  <2> QED
    BY <2>4, <2>5, <2>6 DEF Agreement
<1>4. CASE Reset(p)
  <2>1. UNCHANGED <<cache, ttl, Recorded, since>>
    BY <1>4 DEF Reset, redis, registry, history, Recorded
  <2>2. /\ \A q \in Procs \ {p} : pc'[q] = pc[q] /\ ws'[q] = ws[q]
                                  /\ loaded'[q] = loaded[q] /\ age'[q] = age[q]
        /\ pc'[p] = "idle"
    BY <1>4 DEF Reset, TypeOK
  <2>3. CacheAgrees'
    BY <2>1 DEF Agreement, CacheAgrees, Disagrees
  <2>4. SelectionAgrees'
    BY <2>1, <2>2 DEF Agreement, SelectionAgrees, Disagrees
  <2>5. FilterAgrees'
    BY <2>1, <2>2 DEF Agreement, FilterAgrees, Disagrees
  <2> QED
    BY <2>3, <2>4, <2>5 DEF Agreement
<1> QED
    BY <1>1, <1>2, <1>3, <1>4 DEF Answer, Fail

LEMMA AgreementTick == TypeOK /\ Agreement /\ Tick => Agreement'
<1> SUFFICES ASSUME TypeOK, Agreement, Tick PROVE Agreement'
    OBVIOUS
<1>0. UNCHANGED <<Recorded, pc, ws, loaded>>
    BY DEF Tick, registry, Recorded
<1>s. ASSUME NEW g \in Pairs
      PROVE  since[g] \in Nat /\ since'[g] \in Nat /\ since'[g] <= since[g] + 1
  <2>1. since[g] \in 0 .. Horizon /\ since'[g] = Later(since[g])
    BY DEF Tick, TypeOK
  <2> QED
    BY <2>1, LaterStep, TimeFacts
<1>1. ASSUME NEW c \in Connectors, NEW w \in Workspaces,
             ttl'[w] > 0, Disagrees(c, w, cache[w])'
      PROVE  since'[<<c, w>>] + ttl'[w] <= Bound
  <2>1. ttl[w] \in 0 .. TTL /\ ttl'[w] = (IF ttl[w] > 0 THEN ttl[w] - 1 ELSE 0)
        /\ cache'[w] = (IF ttl[w] > 1 THEN cache[w] ELSE {})
    BY DEF Tick, TypeOK
  <2>2. ttl[w] > 1 /\ ttl'[w] = ttl[w] - 1 /\ cache'[w] = cache[w]
    BY <1>1, <2>1, TimeFacts
  <2>3. since[<<c, w>>] + ttl[w] <= Bound
    BY <1>0, <1>1, <2>1, <2>2, TimeFacts DEF Agreement, CacheAgrees, Disagrees
  <2>4. <<c, w>> \in Pairs
    BY DEF Pairs
  <2> QED
    BY <1>s, <2>1, <2>2, <2>3, <2>4, TimeFacts
<1>2. ASSUME NEW p \in Procs, NEW c \in Connectors,
             pc'[p] = "selected", Disagrees(c, ws[p], loaded[p])'
      PROVE  since'[<<c, ws'[p]>>] <= age'[p]
  <2>1. pc[p] = "selected" /\ ws[p] \in Workspaces /\ age[p] \in 0 .. MaxDelay
    BY <1>0, <1>2 DEF TypeOK
  <2>2. age'[p] = age[p] + 1
    BY <2>1 DEF Tick
  <2>3. since[<<c, ws[p]>>] <= age[p]
    BY <1>0, <1>2, <2>1 DEF Agreement, SelectionAgrees, Disagrees
  <2>4. <<c, ws[p]>> \in Pairs
    BY <2>1 DEF Pairs
  <2> QED
    BY <1>0, <1>s, <2>1, <2>2, <2>3, <2>4, TimeFacts
<1>3. \A p \in Procs : pc'[p] # "filtering"
    BY <1>0 DEF Tick
<1> QED
    BY <1>1, <1>2, <1>3 DEF Agreement, CacheAgrees, SelectionAgrees, FilterAgrees

LEMMA AgreementStep ==
    ASSUME TypeOK, Agreement, [Next]_vars
    PROVE  Agreement'
<1>1. CASE UNCHANGED vars
    BY <1>1 DEF vars, registry, redis, recall, history, Agreement, CacheAgrees,
                SelectionAgrees, FilterAgrees, Disagrees, Recorded
<1> QED
    BY <1>1, AgreementTick, AgreementRegistry, AgreementRecall DEF Next

LEMMA AgreementConverges == TypeOK /\ Agreement => GrantsConverge
<1> SUFFICES ASSUME TypeOK, Agreement, NEW p \in Procs, NEW c \in Connectors,
                    pc[p] = "filtering", since[<<c, ws[p]>>] >= Bound
             PROVE  c \in Returned(p) <=> SharingScopeAllows(c, ws[p], Selected(ws[p]))
    BY DEF GrantsConverge
<1>1. ws[p] \in Workspaces
    BY DEF TypeOK
<1>2. since[<<c, ws[p]>>] \in Nat
    BY <1>1, TimeFacts DEF TypeOK, Pairs
<1>3. c \in loaded[p] <=> c \in Selected(ws[p])
    BY <1>2, TimeFacts DEF Agreement, FilterAgrees, Disagrees, Selected
<1> QED
    BY <1>3 DEF Returned, SharingScopeAllows, AllowsAs

\* A recall honours every grant and every revocation the table of grants took
\* at least one lifetime and one delay ago.
THEOREM GrantsTakeEffect == Spec => []GrantsConverge
<1>1. TypeOK /\ Agreement /\ [Next]_vars => (TypeOK /\ Agreement)'
    BY TypeStep, AgreementStep
<1> QED
    BY <1>1, TypeInit, AgreementInit, AgreementConverges, PTL DEF Spec
=============================================================================
