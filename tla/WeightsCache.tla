---------------------------- MODULE WeightsCache ----------------------------
(***************************************************************************)
(* The process-local cache of source weights (memrag_shared/weights.py)    *)
(* over the configuration of its backend, a file or AWS AppConfig, which   *)
(* anybody may rewrite.  load_weights serves the cache for poll_interval   *)
(* ticks and then loads again.  The weights are those of one domain.  A    *)
(* configuration is a function from the sources it mentions; a missing     *)
(* file or an empty one mentions none.                                     *)
(***************************************************************************)
EXTENDS Integers

CONSTANTS
    DefaultWeight,  \* DEFAULT_SOURCE_WEIGHT, in tenths
    Configs,        \* what the backend may hold
    Poll            \* poll_interval

Sources == DOMAIN DefaultWeight

ASSUME DefaultAssumption == DefaultWeight \in [Sources -> Nat]
ASSUME ConfigsAssumption == \A p \in Configs : \A s \in DOMAIN p : p[s] \in Nat
ASSUME PollAssumption == Poll \in Nat

VARIABLES
    config,     \* what the backend holds
    cache,      \* _weights_cache.weights
    age,        \* ticks since loaded_at; Poll stands for longer
    stable      \* ticks since config has changed; Poll stands for longer

cacheVars == <<config, cache, age, stable>>

\* An unknown source, like a text that is no JSON, raises.
Valid(p) == DOMAIN p \subseteq Sources

\* A source that the configuration leaves out keeps its default.
Normalised(p) == [s \in Sources |-> IF s \in DOMAIN p THEN p[s] ELSE DefaultWeight[s]]

CacheInit ==
    /\ config \in Configs
    /\ cache = DefaultWeight
    /\ age = 0 /\ stable = 0

\* Mutant: the cache is served for one tick too long.
ServesLate == age > Poll

Expired == age >= Poll

\* load_weights: Served and Loaded return weights, LoadRaises keeps the cache.
Served == ~ Expired /\ UNCHANGED cacheVars

Loaded ==
    /\ Expired /\ Valid(config)
    /\ cache' = Normalised(config)
    /\ age' = 0
    /\ UNCHANGED <<config, stable>>

LoadRaises == Expired /\ ~ Valid(config) /\ UNCHANGED cacheVars

Grow(n) == IF n < Poll THEN n + 1 ELSE Poll

Elapse ==
    /\ age' = Grow(age) /\ stable' = Grow(stable)
    /\ UNCHANGED <<config, cache>>

Reconfigure(p) ==
    /\ p # config
    /\ config' = p /\ stable' = 0
    /\ UNCHANGED <<cache, age>>

CacheTypeOK ==
    /\ config \in Configs
    /\ cache \in [Sources -> Nat]
    /\ age \in 0 .. Poll /\ stable \in 0 .. Poll
=============================================================================
