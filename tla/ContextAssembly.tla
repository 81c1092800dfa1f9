-------------------------- MODULE ContextAssembly --------------------------
(***************************************************************************)
(* One request of POST /api/v1/hydrate: the query is embedded, the four    *)
(* layers are recalled concurrently (asyncio.gather over _get_l1 .. _get_l4)*)
(* and assemble() fits what they return into the token budget of the       *)
(* request, ranking the chunks by score times weight with the weights of   *)
(* WeightsCache.  A turn or a chunk is its number of tokens                *)
(* (_count_tokens); the chunks of layers 2 to 4 are numbered in the order  *)
(* in which assemble weighs them.  Time passes and the configuration of    *)
(* the weights changes only where the cache is read: earlier or later is   *)
(* the same to everything else.                                            *)
(***************************************************************************)
EXTENDS WeightsCache, Sequences, FiniteSetsExt

CONSTANTS
    N,          \* chunks the layers hold for the query
    LayerOf,    \* LayerOf[c]: the layer of the chunk c
    SourceOf,   \* SourceOf[c]: its source_type
    Score,      \* Score[c]: its score, a missing one counting as 1.0
    Domains,    \* domain of a request: "none", or the one of the weights
    Sizes,      \* tokens a turn or a chunk may have
    MaxTurns,   \* bound on the turns of the session
    Budgets,    \* token_budget of a request
    Graphiti    \* GRAPHITI_ENABLED

Chunks == 1 .. N
Layers == {"layer1", "layer2", "layer3", "layer4"}

ASSUME NAssumption == N \in Nat /\ MaxTurns \in Nat /\ Graphiti \in BOOLEAN
ASSUME SizesAssumption == Sizes \subseteq Nat \ {0} /\ Budgets \subseteq Nat
ASSUME LayerAssumption == LayerOf \in [Chunks -> Layers \ {"layer1"}]
ASSUME ScoreAssumption == SourceOf \in [Chunks -> Sources] /\ Score \in [Chunks -> Nat]

VARIABLES
    budget,     \* token_budget
    domain,     \* domain of the request
    turns,      \* turns[i]: tokens of the i-th turn in Redis, oldest first
    tokens,     \* tokens[c]: tokens of the chunk c
    phase,      \* what the request is doing
    pending,    \* layers whose recall has not ended
    lost,       \* layers whose recall raised
    failed,     \* failed_layers
    pos,        \* the turn or chunk the loop is at
    remaining,  \* tokens left
    weight,     \* weight[c]: the weight of c in tenths, 0 before it is looked up
    tried,      \* chunks the second loop has passed
    kept,       \* turns_included
    included    \* chunks included

input == <<budget, domain, turns, tokens>>
request == <<input, phase, pending, lost, failed, pos, remaining, weight, tried, kept, included>>
vars == <<cacheVars, request>>

Preamble == 200

\* max(token_budget, _PREAMBLE_TOKENS + 10) - _PREAMBLE_TOKENS
Room == IF budget > Preamble + 10 THEN budget - Preamble ELSE 10

Total(f, S) == MapThenSumSet(LAMBDA x : f[x], S)
TurnTokens(S) == Total(turns, S)
ChunkTokens(S) == Total(tokens, S)

\* What the recalls that succeeded have returned.
Session == IF "layer1" \in lost THEN {} ELSE DOMAIN turns
Found == {c \in Chunks : LayerOf[c] \notin lost}

Init ==
    /\ CacheInit
    /\ budget \in Budgets /\ domain \in Domains
    /\ turns \in UNION {[1 .. n -> Sizes] : n \in 0 .. MaxTurns}
    /\ tokens \in [Chunks -> Sizes]
    /\ phase = "embed" /\ pending = Layers /\ lost = {} /\ failed = {}
    /\ pos = 0 /\ remaining = 0 /\ kept = {} /\ included = {}
    /\ weight = [c \in Chunks |-> 0] /\ tried = {}

\* What happens beside the request: time passes, the configuration is
\* rewritten, another request loads the weights.
Beside ==
    /\ phase \in {"embed", "weigh"}
    /\ \/ Elapse
       \/ \E p \in Configs : Reconfigure(p)
       \/ phase = "embed" /\ Loaded
    /\ UNCHANGED request

Embedded ==
    /\ phase = "embed"
    /\ phase' = "recall"
    /\ UNCHANGED <<input, pending, lost, failed, pos, remaining, kept, included, weight, tried, cacheVars>>

\* The embedding of the query is outside of every try: the request fails.
EmbedFails ==
    /\ phase = "embed"
    /\ phase' = "error"
    /\ UNCHANGED <<input, pending, lost, failed, pos, remaining, kept, included, weight, tried, cacheVars>>

Recalled(l) ==
    /\ phase = "recall" /\ l \in pending
    /\ pending' = pending \ {l}
    /\ UNCHANGED <<input, phase, lost, failed, pos, remaining, kept, included, weight, tried, cacheVars>>

Label(l) == IF l = "layer3" /\ Graphiti THEN "graphiti" ELSE l

\* Mutant: the exception is swallowed in every layer.
RecallFailsSilently(l) ==
    /\ phase = "recall" /\ l \in pending
    /\ pending' = pending \ {l}
    /\ lost' = lost \cup {l}
    /\ UNCHANGED <<input, phase, failed, pos, remaining, kept, included, weight, tried, cacheVars>>

\* A failing layer counts as empty and is named, but for layer 1.
RecallFails(l) ==
    /\ phase = "recall" /\ l \in pending
    /\ pending' = pending \ {l}
    /\ lost' = lost \cup {l}
    /\ failed' = IF l = "layer1" THEN failed ELSE failed \cup {Label(l)}
    /\ UNCHANGED <<input, phase, pos, remaining, kept, included, weight, tried, cacheVars>>

Assemble ==
    /\ phase = "recall" /\ pending = {}
    /\ phase' = "turns"
    /\ pos' = Cardinality(Session)
    /\ remaining' = Room
    /\ UNCHANGED <<input, pending, lost, failed, kept, included, weight, tried, cacheVars>>

\* A turn is kept when it fits into what the newer ones left of their half;
\* an older one is tried even when this one does not fit.
FitsTurn(i) == TurnTokens(kept) + turns[i] <= Room \div 2

TakeTurn ==
    /\ phase = "turns" /\ pos > 0
    /\ kept' = IF FitsTurn(pos) THEN kept \cup {pos} ELSE kept
    /\ pos' = pos - 1
    /\ UNCHANGED <<input, phase, pending, lost, failed, remaining, included, weight, tried, cacheVars>>

\* Mutant: what the turns take is not subtracted.
EndTurnsForgets ==
    /\ phase = "turns" /\ pos = 0
    /\ phase' = "weigh" /\ pos' = 1
    /\ UNCHANGED <<input, pending, lost, failed, remaining, kept, included, weight, tried, cacheVars>>

EndTurns ==
    /\ phase = "turns" /\ pos = 0
    /\ phase' = "weigh" /\ pos' = 1
    /\ remaining' = remaining - TurnTokens(kept)
    /\ UNCHANGED <<input, pending, lost, failed, kept, included, weight, tried, cacheVars>>

\* get_weight: 1.0 without a domain, otherwise what load_weights returns.
GetWeight(s) == IF domain = "none" THEN 10 ELSE cache'[s]

\* The chunks are weighed one after the other.
Weigh ==
    /\ phase = "weigh" /\ pos \in Found
    /\ IF domain = "none" THEN UNCHANGED cacheVars ELSE Served \/ Loaded
    /\ weight' = [weight EXCEPT ![pos] = GetWeight(SourceOf[pos])]
    /\ pos' = pos + 1
    /\ UNCHANGED <<input, phase, pending, lost, failed, remaining, tried, kept, included>>

SkipLost ==
    /\ phase = "weigh" /\ pos \in Chunks \ Found
    /\ pos' = pos + 1
    /\ UNCHANGED <<input, phase, pending, lost, failed, remaining, kept, included, weight, tried, cacheVars>>

\* A configuration that cannot be loaded fails the request.
WeightsRaise ==
    /\ phase = "weigh" /\ pos \in Found /\ domain # "none"
    /\ LoadRaises
    /\ phase' = "error"
    /\ UNCHANGED <<input, pending, lost, failed, pos, remaining, weight, tried, kept, included>>

Rank ==
    /\ phase = "weigh" /\ pos > N
    /\ phase' = "chunks"
    /\ UNCHANGED <<input, pending, lost, failed, pos, remaining, kept, included, weight, tried, cacheVars>>

\* scored.sort, which is stable.
Before(c, d) ==
    LET left  == Score[c] * weight[c]
        right == Score[d] * weight[d]
    IN  left > right \/ (left = right /\ c < d)

\* Mutant: in ascending order.
IsNextAscending(c) == c \in Found \ tried /\ \A d \in (Found \ tried) \ {c} : Before(d, c)

IsNext(c) == c \in Found \ tried /\ \A d \in (Found \ tried) \ {c} : Before(c, d)

\* Mutant: a chunk that fills the room exactly is dropped.
FitsStrictly(c) == remaining > tokens[c]

\* Mutant: no room is needed.
FitsAlways(c) == TRUE

Fits(c) == remaining >= tokens[c]

TakeChunk(c) ==
    /\ phase = "chunks" /\ IsNext(c)
    /\ included' = IF Fits(c) THEN included \cup {c} ELSE included
    /\ remaining' = IF Fits(c) THEN remaining - tokens[c] ELSE remaining
    /\ tried' = tried \cup {c}
    /\ UNCHANGED <<input, phase, pending, lost, failed, pos, kept, weight, cacheVars>>

Finish ==
    /\ phase = "chunks" /\ tried = Found
    /\ phase' = "done"
    /\ UNCHANGED <<input, pending, lost, failed, pos, remaining, kept, included, weight, tried, cacheVars>>

Next ==
    \/ Embedded \/ EmbedFails
    \/ \E l \in Layers : Recalled(l) \/ RecallFails(l)
    \/ Assemble \/ TakeTurn \/ EndTurns
    \/ Weigh \/ SkipLost \/ WeightsRaise \/ Rank
    \/ (\E c \in Chunks : TakeChunk(c)) \/ Finish
    \/ Beside

Spec == Init /\ [][Next]_vars

(***************************************************************************)
(* token_count of the response, counted over the built prompt: its first   *)
(* line, the headings, the label in front of a chunk and the citations,    *)
(* here without title and url.                                             *)
(***************************************************************************)
Cited == {c \in included : LayerOf[c] = "layer4"}

TokenCount ==
    LET session   == IF kept = {} THEN 0 ELSE 3 + TurnTokens(kept)
        context   == IF included = {} THEN 0
                     ELSE 5 + ChunkTokens(included)
                            + Cardinality(included) + Cardinality(Cited)
        citations == IF Cited = {} THEN 0 ELSE 2 + 3 * Cardinality(Cited)
    IN  Preamble + 12 + session + context + citations

-----------------------------------------------------------------------------
\* Every variable has its type.
TypeOK ==
    /\ CacheTypeOK
    /\ phase \in {"embed", "recall", "turns", "weigh", "chunks", "done", "error"}
    /\ pending \subseteq Layers /\ lost \subseteq Layers
    /\ failed \subseteq {Label(l) : l \in Layers}
    /\ pos \in 0 .. (IF N >= MaxTurns THEN N + 1 ELSE MaxTurns)
    /\ remaining \in Nat
    /\ kept \subseteq DOMAIN turns
    /\ tried \subseteq Chunks /\ included \subseteq tried
    /\ weight \in [Chunks -> Nat]

\* The turns take at most half of the room and turns and chunks together at
\* most the room, as _count_tokens counts them one by one.
BudgetRespected ==
    /\ 2 * TurnTokens(kept) <= Room
    /\ TurnTokens(kept) + ChunkTokens(included) <= Room

\* A chunk that was found is left out only if the turns and the chunks that
\* rank above it, by score and the weights in use, leave no room for it.
DroppedOnlyForRoom ==
    phase = "done" =>
        \A c \in Found \ included :
            TurnTokens(kept) + ChunkTokens({d \in included : Before(d, c)}) + tokens[c] > Room

\* Every vector layer that failed is named in failed_layers, and nothing of a
\* failed layer is in the prompt.
FailuresReported ==
    phase = "done" =>
        /\ \A l \in lost \ {"layer1"} : Label(l) \in failed
        /\ \A c \in included : LayerOf[c] \notin lost
        /\ "layer1" \in lost => kept = {}

\* A configuration that has stood for a poll interval is the one that a chunk
\* is weighed with, whatever the cache has served, loaded or failed to load
\* before; a request without a domain weighs all sources alike.
Configured(c) ==
    IF domain = "none" THEN 10 ELSE Normalised(config)[SourceOf[c]]
ConfigTakesEffect ==
    [][\A c \in Chunks : weight'[c] # weight[c] /\ stable = Poll =>
            weight'[c] = Configured(c)]_vars

\* The prompt is compliant with the token budget (contract of assemble()).
PromptWithinBudget == phase = "done" => TokenCount <= budget

\* When turns must go, the oldest go first: what is kept are the newest.
NewestTurnsKept ==
    phase = "done" => \A i \in kept, j \in DOMAIN turns : j > i => j \in kept

\* Turns are only removed when all of them together exceed the budget that
\* the preamble leaves.
TurnsRemovedOnlyOnOverflow ==
    phase = "done" /\ "layer1" \notin lost =>
        kept = DOMAIN turns \/ TurnTokens(DOMAIN turns) > Room
=============================================================================
