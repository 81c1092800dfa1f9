--------------------------- MODULE SharingGrants ---------------------------
(***************************************************************************)
(* Who may read the knowledge of a connector.  The connector registry      *)
(* keeps the sharing grants; a recall of layer 4 (recall_org_knowledge)    *)
(* reads the grants of its workspace through a Redis entry that expires    *)
(* after GRANTS_CACHE_TTL_SECONDS (load_grants) and lets the payload of    *)
(* each chunk decide (_sharing_scope_allows).  Nothing invalidates the     *)
(* entry.  A recall runs in memory-api or agent-workers, the registry is a *)
(* process of its own, and time passes between any two calls to a store.   *)
(***************************************************************************)
EXTENDS Naturals, FiniteSets

CONSTANTS
    Connectors,
    Workspaces,
    Owner,      \* Owner[c]: the workspace that registered c
    Stamped,    \* Stamped[c]: sharing_scope in the payload of the chunks of c
    Procs,      \* processes that recall
    Backend,    \* "store" (Store, PostgreSQL) or "memory" (MockQueries)
    TTL,        \* lifetime of a cache entry, in ticks of the clock
    MaxDelay,   \* bound: ticks between the SELECT of a recall and its SETEX
    Asked,      \* sharing scopes the owners ask for with PATCH
    None        \* no workspace

Scopes == {"private", "workspace_internal", "allowlist", "platform_public"}
Bound == TTL + MaxDelay
Horizon == Bound + 1        \* bound of the clocks that only grow

ASSUME OwnerAssumption == Owner \in [Connectors -> Workspaces]
ASSUME StampedAssumption == Stamped \in [Connectors -> Scopes]
ASSUME BackendAssumption == Backend \in {"store", "memory"}
ASSUME TimeAssumption == TTL \in Nat \ {0} /\ MaxDelay \in Nat
ASSUME AskedAssumption == Asked \subseteq Scopes
ASSUME NoneAssumption == None \notin Workspaces

VARIABLES
    active,     \* grants whose status is 'active', pairs of connector and workspace
    revoked,    \* grants whose status is 'revoked'
    deleted,    \* connectors deleted from the registry
    cache,      \* cache[w]: the connectors in grants:{w}
    ttl,        \* ttl[w]: what is left of the entry's life; 0, no entry
    pc,         \* pc[p]: "idle", "selected" (SETEX next) or "filtering"
    ws,         \* ws[p]: workspace of the recall
    loaded,     \* loaded[p]: allowed_connector_ids
    age,        \* age[p]: ticks since the SELECT of p
    since,      \* history: ticks since the pair became active or inactive
    wanted,     \* history: the scope the owner last asked for
    settled     \* history: ticks since the owner asked

registry == <<active, revoked, deleted>>
redis == <<cache, ttl>>
recall == <<pc, ws, loaded, age>>
history == <<since, wanted, settled>>
vars == <<registry, redis, recall, history>>

Pairs == Connectors \X Workspaces

TypeOK ==
    /\ active \in SUBSET Pairs /\ revoked \in SUBSET Pairs
    /\ active \cap revoked = {}
    /\ deleted \in SUBSET Connectors
    /\ cache \in [Workspaces -> SUBSET Connectors]
    /\ ttl \in [Workspaces -> 0 .. TTL]
    /\ pc \in [Procs -> {"idle", "selected", "filtering"}]
    /\ ws \in [Procs -> Workspaces \cup {None}]
    /\ \A p \in Procs : ws[p] = None <=> pc[p] = "idle"
    /\ loaded \in [Procs -> SUBSET Connectors]
    /\ \A p \in Procs : pc[p] = "idle" => loaded[p] = {}
    /\ age \in [Procs -> 0 .. MaxDelay]
    /\ since \in [Pairs -> 0 .. Horizon]
    /\ wanted \in [Connectors -> Scopes]
    /\ settled \in [Connectors -> 0 .. Horizon]

Init ==
    /\ active = {} /\ revoked = {} /\ deleted = {}
    /\ cache = [w \in Workspaces |-> {}] /\ ttl = [w \in Workspaces |-> 0]
    /\ pc = [p \in Procs |-> "idle"] /\ ws = [p \in Procs |-> None]
    /\ loaded = [p \in Procs |-> {}] /\ age = [p \in Procs |-> 0]
    /\ since = [g \in Pairs |-> Horizon]
    /\ wanted = Stamped /\ settled = [c \in Connectors |-> Horizon]

-----------------------------------------------------------------------------
\* The registry.  The table has one row for each pair (UNIQUE), so that the
\* INSERT of a pair that was ever granted fails; MockQueries overwrites it.
MayGrant(g) == Backend = "memory" \/ g \notin active \cup revoked

CreateGrant(c, w) ==
    /\ c \notin deleted
    /\ MayGrant(<<c, w>>)
    /\ active' = active \cup {<<c, w>>}
    /\ revoked' = revoked \ {<<c, w>>}
    /\ since' = IF <<c, w>> \in active THEN since ELSE [since EXCEPT ![<<c, w>>] = 0]
    /\ UNCHANGED <<deleted, redis, recall, wanted, settled>>

DeleteGrant(c, w) ==
    /\ c \notin deleted
    /\ <<c, w>> \in active
    /\ active' = active \ {<<c, w>>}
    /\ revoked' = revoked \cup {<<c, w>>}
    /\ since' = [since EXCEPT ![<<c, w>>] = 0]
    /\ UNCHANGED <<deleted, redis, recall, wanted, settled>>

\* The rows of the grants go with the connector's row (ON DELETE CASCADE);
\* MockQueries keeps them.
DeleteConnector(c) ==
    /\ c \notin deleted
    /\ deleted' = deleted \cup {c}
    /\ LET gone == IF Backend = "store" THEN {g \in Pairs : g[1] = c} ELSE {}
       IN  /\ active' = active \ gone
           /\ revoked' = revoked \ gone
           /\ since' = [g \in Pairs |-> IF g \in active \cap gone THEN 0 ELSE since[g]]
    /\ UNCHANGED <<redis, recall, wanted, settled>>

\* PATCH applies display_name and config and ignores the other fields.
PatchConnector(c, s) ==
    /\ c \notin deleted
    /\ s # wanted[c]
    /\ wanted' = [wanted EXCEPT ![c] = s]
    /\ settled' = [settled EXCEPT ![c] = 0]
    /\ UNCHANGED <<registry, redis, recall, since>>

-----------------------------------------------------------------------------
\* load_grants reads the active rows of the table in PostgreSQL, which the Store
\* writes and MockQueries does not.
Recorded == IF Backend = "store" THEN active ELSE {}
Selected(w) == {c \in Connectors : <<c, w>> \in Recorded}

Begin(p, w, next, grants) ==
    /\ pc[p] = "idle"
    /\ pc' = [pc EXCEPT ![p] = next]
    /\ ws' = [ws EXCEPT ![p] = w]
    /\ loaded' = [loaded EXCEPT ![p] = grants]
    /\ age' = [age EXCEPT ![p] = 0]
    /\ UNCHANGED <<registry, history>>

\* Mutant: each hit renews the entry.
HitRenews(p, w) ==
    /\ ttl[w] > 0
    /\ Begin(p, w, "filtering", cache[w])
    /\ ttl' = [ttl EXCEPT ![w] = TTL]
    /\ UNCHANGED cache

\* An entry that holds no grants is a hit as well: the text "[]" is true.
Hit(p, w) ==
    /\ ttl[w] > 0
    /\ Begin(p, w, "filtering", cache[w])
    /\ UNCHANGED redis

Select(p, w) ==
    /\ ttl[w] = 0
    /\ Begin(p, w, "selected", Selected(w))
    /\ UNCHANGED redis

Setex(p) ==
    /\ pc[p] = "selected"
    /\ cache' = [cache EXCEPT ![ws[p]] = loaded[p]]
    /\ ttl' = [ttl EXCEPT ![ws[p]] = TTL]
    /\ pc' = [pc EXCEPT ![p] = "filtering"]
    /\ UNCHANGED <<ws, loaded, age, registry, history>>

-----------------------------------------------------------------------------
\* recall_org_knowledge.
AllowsAs(scope, c, w, allowed) ==
    \/ scope = "platform_public"
    \/ scope \in {"workspace_internal", "private"} /\ Owner[c] = w
    \/ scope \in {"allowlist", "private"} /\ c \in allowed

SharingScopeAllows(c, w, allowed) == AllowsAs(Stamped[c], c, w, allowed)

\* Connectors whose chunks the recall of p may return.
Returned(p) == {c \in Connectors : SharingScopeAllows(c, ws[p], loaded[p])}

Reset(p) ==
    /\ pc' = [pc EXCEPT ![p] = "idle"]
    /\ ws' = [ws EXCEPT ![p] = None]
    /\ loaded' = [loaded EXCEPT ![p] = {}]
    /\ age' = [age EXCEPT ![p] = 0]
    /\ UNCHANGED <<registry, redis, history>>

Answer(p) == pc[p] = "filtering" /\ Reset(p)

\* Redis does not answer, or the process stops, between the SELECT and SETEX.
Fail(p) == pc[p] = "selected" /\ Reset(p)

-----------------------------------------------------------------------------
\* The clock does not move between the grants of a recall and its filtering,
\* and a SELECT is at most MaxDelay ticks ahead of its SETEX.
Later(t) == IF t < Horizon THEN t + 1 ELSE t

Tick ==
    /\ \A p \in Procs : pc[p] # "filtering"
    /\ \A p \in Procs : pc[p] = "selected" => age[p] < MaxDelay
    /\ ttl' = [w \in Workspaces |-> IF ttl[w] > 0 THEN ttl[w] - 1 ELSE 0]
    /\ cache' = [w \in Workspaces |-> IF ttl[w] > 1 THEN cache[w] ELSE {}]
    /\ age' = [p \in Procs |-> IF pc[p] = "selected" THEN age[p] + 1 ELSE age[p]]
    /\ since' = [g \in Pairs |-> Later(since[g])]
    /\ settled' = [c \in Connectors |-> Later(settled[c])]
    /\ UNCHANGED <<registry, pc, ws, loaded, wanted>>

Next ==
    \/ Tick
    \/ \E c \in Connectors, w \in Workspaces : CreateGrant(c, w) \/ DeleteGrant(c, w)
    \/ \E c \in Connectors : DeleteConnector(c)
    \/ \E c \in Connectors, s \in Asked : PatchConnector(c, s)
    \/ \E p \in Procs, w \in Workspaces : Hit(p, w) \/ Select(p, w)
    \/ \E p \in Procs : Setex(p) \/ Answer(p) \/ Fail(p)

Spec == Init /\ [][Next]_vars

-----------------------------------------------------------------------------
\* The connectors w was granted, as the registry answers.
Granted(w) == {c \in Connectors : <<c, w>> \in active}

\* What a recall may return agrees with the table of grants, but for pairs that
\* changed less than Bound ticks ago: a recorded grant is honoured and a
\* revocation (or the deletion of the connector) is too, whatever other recalls
\* filled the entry in between and however late.
GrantsConverge ==
    \A p \in Procs, c \in Connectors :
        (pc[p] = "filtering" /\ since[<<c, ws[p]>>] >= Bound) =>
            (c \in Returned(p) <=> SharingScopeAllows(c, ws[p], Selected(ws[p])))

\* The same of the grants the registry answers with: what it acknowledged takes
\* effect.  With MockQueries it does not.
AcknowledgedTakesEffect ==
    \A p \in Procs, c \in Connectors :
        (pc[p] = "filtering" /\ since[<<c, ws[p]>>] >= Bound) =>
            (c \in Returned(p) <=> SharingScopeAllows(c, ws[p], Granted(ws[p])))

\* FR-024: a recall is never more than one lifetime of the entry behind.
WithinOneLifetime ==
    \A p \in Procs, c \in Connectors :
        (pc[p] = "filtering" /\ since[<<c, ws[p]>>] > TTL) =>
            (c \in Returned(p) <=> SharingScopeAllows(c, ws[p], Selected(ws[p])))

\* FR-021: a scope the owner asked for more than Bound ticks ago decides.
ScopeTakesEffect ==
    \A p \in Procs, c \in Connectors :
        (pc[p] = "filtering" /\ settled[c] > Bound /\ since[<<c, ws[p]>>] > Bound) =>
            (c \in Returned(p) <=> AllowsAs(wanted[c], c, ws[p], Selected(ws[p])))
-----------------------------------------------------------------------------
\* The inductive invariant.  S disagrees with the table on the pair of c and w
\* only if the pair changed after the SELECT that S comes from.
Disagrees(c, w, S) == ~(c \in S <=> <<c, w>> \in Recorded)

CacheAgrees ==
    \A w \in Workspaces, c \in Connectors :
        (ttl[w] > 0 /\ Disagrees(c, w, cache[w])) => since[<<c, w>>] + ttl[w] <= Bound

SelectionAgrees ==
    \A p \in Procs, c \in Connectors :
        (pc[p] = "selected" /\ Disagrees(c, ws[p], loaded[p])) =>
            since[<<c, ws[p]>>] <= age[p]

FilterAgrees ==
    \A p \in Procs, c \in Connectors :
        (pc[p] = "filtering" /\ Disagrees(c, ws[p], loaded[p])) =>
            since[<<c, ws[p]>>] < Bound

=============================================================================
