---------------------------- MODULE EmbedClient ----------------------------
(***************************************************************************)
(* The embedding client of memrag_shared: OllamaClient.embed with its      *)
(* process-wide cache and its table of requests in flight.  Coroutines of  *)
(* one event loop call it; a critical section of _EMBED_CACHE_LOCK has no  *)
(* suspension point inside, so it is one action, and the suspension points *)
(* are the POST of an owner and the await of a follower.  Coroutines are   *)
(* not cancelled: no caller in the repository cancels one.                 *)
(***************************************************************************)
EXTENDS Naturals, FiniteSets

CONSTANTS
    Callers,    \* coroutines that call embed
    Keys,       \* cache keys: (model, texts)
    TTL,        \* ticks a cached embedding stays valid (300 seconds)
    Limit,      \* OLLAMA_EMBED_CACHE_MAX_ITEMS
    None        \* no caller, no key

ASSUME TTLAssumption == TTL \in Nat
ASSUME LimitAssumption == Limit \in Nat
ASSUME NoneAssumption == None \notin Callers /\ None \notin Keys

VARIABLES
    entryAge,        \* entryAge[k]: ticks since k was cached, ExpiredAge past the TTL
    inFlight,   \* inFlight[k]: the caller that owns the future of k
    pc,         \* pc[c]: what the coroutine c is suspended at
    key         \* key[c]: the key it asked for

embedVars == <<entryAge, inFlight, pc, key>>

ExpiredAge == TTL + 1
Missing == TTL + 2
ValidEntry(k) == entryAge[k] <= TTL
Cached == {k \in Keys : entryAge[k] # Missing}

Older(n) == IF n < ExpiredAge THEN n + 1 ELSE n

EmbedInit ==
    /\ entryAge = [k \in Keys |-> Missing]
    /\ inFlight = [k \in Keys |-> None]
    /\ pc = [c \in Callers |-> "idle"]
    /\ key = [c \in Callers |-> None]

\* Mutant: every caller posts for itself when the cache misses.
CallWithoutJoin(c, k) ==
    /\ pc[c] = "idle"
    /\ ~ValidEntry(k)
    /\ pc' = [pc EXCEPT ![c] = "post"]
    /\ key' = [key EXCEPT ![c] = k]
    /\ inFlight' = [inFlight EXCEPT ![k] = c]
    /\ UNCHANGED entryAge

(***************************************************************************)
(* The first critical section: a valid cached value is returned at once,   *)
(* otherwise the caller joins the request in flight or becomes its owner.  *)
(***************************************************************************)
Call(c, k) ==
    /\ pc[c] = "idle"
    /\ ~ValidEntry(k)
    /\ pc' = [pc EXCEPT ![c] = IF inFlight[k] = None THEN "post" ELSE "wait"]
    /\ key' = [key EXCEPT ![c] = k]
    /\ inFlight' = [inFlight EXCEPT ![k] = IF @ = None THEN c ELSE @]
    /\ UNCHANGED entryAge

\* _prune_embed_cache: drop the expired entries, then the oldest beyond Limit.
Pruned(a) ==
    LET live == {k \in Keys : a[k] <= TTL}
        kept == {k \in live : Cardinality({j \in live : a[j] < a[k]}) < Limit}
    IN  [k \in Keys |-> IF k \in kept THEN a[k] ELSE Missing]

\* Time moves on between two writes of the cache, so no two ages are equal.
Stored(k) == [j \in Keys |-> IF j = k THEN 0 ELSE Older(entryAge[j])]

\* pop(cache_key), then set_result or set_exception: the owner returns or
\* raises, and so does everybody who waits for the same future.
Resolve(c) ==
    LET k == key[c]
        done == {c} \cup {d \in Callers : pc[d] = "wait" /\ key[d] = k}
    IN  /\ inFlight' = [inFlight EXCEPT ![k] = None]
        /\ pc' = [d \in Callers |-> IF d \in done THEN "idle" ELSE pc[d]]
        /\ key' = [d \in Callers |-> IF d \in done THEN None ELSE key[d]]

\* Mutant: the value is cached without pruning.
PostSucceedsNoPrune(c) ==
    /\ pc[c] = "post"
    /\ entryAge' = Stored(key[c])
    /\ Resolve(c)

PostSucceeds(c) ==
    /\ pc[c] = "post"
    /\ entryAge' = Pruned(Stored(key[c]))
    /\ Resolve(c)

\* Mutant: an error is raised to the owner and the future is left pending.
PostFailsNoResolve(c) ==
    /\ pc[c] = "post"
    /\ pc' = [pc EXCEPT ![c] = "idle"]
    /\ key' = [key EXCEPT ![c] = None]
    /\ UNCHANGED <<entryAge, inFlight>>

\* An HTTP error, the client timeout, or a body without embeddings.
PostFails(c) ==
    /\ pc[c] = "post"
    /\ Resolve(c)
    /\ UNCHANGED entryAge

Tick ==
    /\ \E k \in Keys : ValidEntry(k)
    /\ entryAge' = [k \in Keys |-> Older(entryAge[k])]
    /\ UNCHANGED <<inFlight, pc, key>>

EmbedNext ==
    \/ \E c \in Callers, k \in Keys : Call(c, k)
    \/ \E c \in Callers : PostSucceeds(c) \/ PostFails(c)
    \/ Tick

\* The HTTP client has a timeout: every POST ends one way or the other.
Fairness == \A c \in Callers : WF_embedVars(PostSucceeds(c) \/ PostFails(c))

EmbedSpec == EmbedInit /\ [][EmbedNext]_embedVars /\ Fairness

-----------------------------------------------------------------------------
\* Every variable has its type.
EmbedTypeOK ==
    /\ entryAge \in [Keys -> 0 .. Missing]
    /\ inFlight \in [Keys -> Callers \cup {None}]
    /\ pc \in [Callers -> {"idle", "post", "wait"}]
    /\ key \in [Callers -> Keys \cup {None}]

\* At most one POST for a key is under way at any time (the point of
\* _EMBED_IN_FLIGHT: concurrent callers share one request), and none for a key
\* whose embedding is cached and still valid.
SingleFlight ==
    /\ \A c, d \in Callers :
        pc[c] = "post" /\ pc[d] = "post" /\ key[c] = key[d] => c = d
    /\ \A c \in Callers : pc[c] = "post" => ~ValidEntry(key[c])

\* A coroutine that awaits a future always has a running POST that will
\* resolve it: no future outlives its owner.
NoStrandedWaiter ==
    \A c \in Callers : pc[c] = "wait" =>
        \E d \in Callers : pc[d] = "post" /\ key[d] = key[c]

\* The cache never holds more than OLLAMA_EMBED_CACHE_MAX_ITEMS entries, the
\* expired ones that were not pruned yet included.
CacheBounded == Cardinality(Cached) <= Limit

\* Every call is answered, whether the request it joined succeeds or fails.
EveryCallAnswered == \A c \in Callers : pc[c] # "idle" ~> pc[c] = "idle"
=============================================================================
