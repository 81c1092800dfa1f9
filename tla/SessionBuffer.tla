--------------------------- MODULE SessionBuffer ---------------------------
(***************************************************************************)
(* Layer 1, the session buffer: checkpoint_session and                     *)
(* fetch_recent_session over the Redis keys of one session,                *)
(*     {workspace}:session:{session}:messages     (variable messages)      *)
(*     {workspace}:session:{session}:payload:{i}  (variable chunk)         *)
(* One action is one Redis round trip; the processes that call the two     *)
(* functions (memory-api replicas and agent-workers threads) interleave    *)
(* between them.  A payload of at most 256 KB is stored inline in the      *)
(* messages key; a larger one is cut into 240 KB chunks and the messages   *)
(* key holds a manifest that names the chunk keys but not the payload.     *)
(***************************************************************************)
EXTENDS Naturals

CONSTANTS
    Writers,       \* processes that checkpoint the session
    Readers,       \* processes that fetch it; a process may do both
    Payloads,      \* the turn lists they checkpoint
    ChunksOf,      \* ChunksOf[p]: number of chunks of p, 0 when p fits inline
    MaxChunks,     \* bound on the number of chunks
    TTL,           \* ticks a key lives without being refreshed (24 hours)
    Deaths,        \* points at which an operation may be abandoned
    None,          \* no value: a missing key, and the empty list
    Torn           \* a fetch that raised or that joined unrelated chunks

Clients == Writers \cup Readers
Index == 0 .. MaxChunks - 1

ASSUME TTLAssumption == TTL \in Nat \ {0}
ASSUME MaxChunksAssumption == MaxChunks \in Nat \ {0}
ASSUME DeathsAssumption == Deaths \subseteq {"delete", "write", "deleted", "load"}
\* 256 KB is more than one chunk of 240 KB: no payload has exactly one chunk.
ASSUME ChunksAssumption == ChunksOf \in [Payloads -> (0 .. MaxChunks) \ {1}]
ASSUME MarkersAssumption == None \notin Payloads /\ Torn \notin Payloads /\ None # Torn

VARIABLES
    messages,   \* value of the messages key: kind, inline body, chunk count
    mttl,       \* ticks the messages key has left
    chunk,      \* chunk[i]: the payload whose i-th chunk the payload:i key holds
    pttl,       \* pttl[i]: ticks the payload:i key has left
    pc,         \* pc[c]: where c stands in its operation
    arg,        \* arg[c]: the payload c is checkpointing
    lim,        \* lim[c]: chunk keys named by the manifest c has read
    next,       \* next[c]: next chunk key c will read
    parts,      \* parts[c]: chunks c has read, None where the key was missing
    got,        \* got[c]: what the last fetch of c returned
    acked,      \* history: last payload written in full and not expired since
    quiet       \* history: the processes whose fetch no checkpoint has overlapped

store == <<messages, mttl, chunk, pttl>>
local == <<arg, lim, next, parts>>
vars == <<store, pc, local, got, acked, quiet>>

Absent == [kind |-> "absent", body |-> None, count |-> 0]
Inline(p) == [kind |-> "inline", body |-> p, count |-> 0]
Manifest(n) == [kind |-> "external", body |-> None, count |-> n]

NoParts == [i \in Index |-> None]

Checkpointing(c) == pc[c] \in {"delete", "write"}
CheckpointRunning == \E c \in Clients : Checkpointing(c)
AtRest == \A c \in Clients : pc[c] = "idle"

-----------------------------------------------------------------------------
Init ==
    /\ messages = Absent /\ mttl = 0
    /\ chunk = NoParts /\ pttl = [i \in Index |-> 0]
    /\ pc = [c \in Clients |-> "idle"]
    /\ arg = [c \in Clients |-> None]
    /\ lim = [c \in Clients |-> 0]
    /\ next = [c \in Clients |-> 0]
    /\ parts = [c \in Clients |-> NoParts]
    /\ got = [c \in Clients |-> None]
    /\ acked = None
    /\ quiet = {}

(***************************************************************************)
(* checkpoint_session.  BeginCheckpoint is the GET of the messages key;    *)
(* the DELETE is only sent when that value is a manifest.                  *)
(***************************************************************************)
BeginCheckpoint(c, p) ==
    /\ pc[c] = "idle"
    /\ pc' = [pc EXCEPT ![c] = IF messages.count > 0 THEN "delete" ELSE "write"]
    /\ arg' = [arg EXCEPT ![c] = p]
    /\ lim' = [lim EXCEPT ![c] = messages.count]
    /\ quiet' = {}
    /\ UNCHANGED <<store, next, parts, got, acked>>

DeleteOld(c) ==
    /\ pc[c] = "delete"
    /\ chunk' = [i \in Index |-> IF i < lim[c] THEN None ELSE chunk[i]]
    /\ pttl' = [i \in Index |-> IF i < lim[c] THEN 0 ELSE pttl[i]]
    /\ pc' = [pc EXCEPT ![c] = "write"]
    /\ UNCHANGED <<messages, mttl, local, got, acked, quiet>>

EndCheckpoint(c) ==
    /\ mttl' = TTL
    /\ acked' = arg[c]
    /\ pc' = [pc EXCEPT ![c] = "idle"]
    /\ arg' = [arg EXCEPT ![c] = None]
    /\ lim' = [lim EXCEPT ![c] = 0]
    /\ UNCHANGED <<next, parts, got, quiet>>

WriteInline(c) ==
    /\ pc[c] = "write"
    /\ ChunksOf[arg[c]] = 0
    /\ messages' = Inline(arg[c])
    /\ EndCheckpoint(c)
    /\ UNCHANGED <<chunk, pttl>>

\* Mutant: the last chunk is cut off (range to len - 1 chunks).
WriteExternalShort(c) ==
    LET n == ChunksOf[arg[c]] IN
    /\ pc[c] = "write"
    /\ n > 0
    /\ messages' = Manifest(n)
    /\ chunk' = [i \in Index |-> IF i < n - 1 THEN arg[c] ELSE chunk[i]]
    /\ pttl' = [i \in Index |-> IF i < n - 1 THEN TTL ELSE pttl[i]]
    /\ EndCheckpoint(c)

\* The pipeline is one MULTI/EXEC: chunk keys and manifest change together.
WriteExternal(c) ==
    LET n == ChunksOf[arg[c]] IN
    /\ pc[c] = "write"
    /\ n > 0
    /\ messages' = Manifest(n)
    /\ chunk' = [i \in Index |-> IF i < n THEN arg[c] ELSE chunk[i]]
    /\ pttl' = [i \in Index |-> IF i < n THEN TTL ELSE pttl[i]]
    /\ EndCheckpoint(c)

(***************************************************************************)
(* fetch_recent_session.  A GET and the EXPIRE that follows it are one     *)
(* step.  A missing or inline value is returned at once.                   *)
(***************************************************************************)
BeginFetch(c) ==
    /\ pc[c] = "idle"
    /\ mttl' = IF messages.kind = "absent" THEN 0 ELSE TTL
    /\ IF messages.kind = "external"
       THEN /\ pc' = [pc EXCEPT ![c] = "load"]
            /\ lim' = [lim EXCEPT ![c] = messages.count]
            /\ quiet' = IF CheckpointRunning THEN quiet ELSE quiet \cup {c}
            /\ UNCHANGED got
       ELSE /\ got' = [got EXCEPT ![c] = messages.body]
            /\ UNCHANGED <<pc, lim, quiet>>
    /\ UNCHANGED <<messages, chunk, pttl, arg, next, parts, acked>>

\* Mutant: a chunk key is read without refreshing its TTL.
LoadChunkNoRefresh(c) ==
    /\ pc[c] = "load"
    /\ next[c] < lim[c]
    /\ parts' = [parts EXCEPT ![c][next[c]] = chunk[next[c]]]
    /\ next' = [next EXCEPT ![c] = next[c] + 1]
    /\ UNCHANGED <<store, pc, arg, lim, got, acked, quiet>>

LoadChunk(c) ==
    LET i == next[c] IN
    /\ pc[c] = "load"
    /\ i < lim[c]
    /\ parts' = [parts EXCEPT ![c][i] = chunk[i]]
    /\ pttl' = [pttl EXCEPT ![i] = IF chunk[i] = None THEN 0 ELSE TTL]
    /\ next' = [next EXCEPT ![c] = i + 1]
    /\ UNCHANGED <<messages, mttl, chunk, pc, arg, lim, got, acked, quiet>>

\* The join of the chunks read: nothing, one whole payload, or neither.
Whole(ps, p) == \A i \in Index : ps[i] = IF i < ChunksOf[p] THEN p ELSE None
Joined(ps) ==
    IF ps = NoParts THEN None
    ELSE IF ps[0] # None /\ Whole(ps, ps[0]) THEN ps[0]
    ELSE Torn

Reset(c) ==
    /\ pc' = [pc EXCEPT ![c] = "idle"]
    /\ lim' = [lim EXCEPT ![c] = 0]
    /\ next' = [next EXCEPT ![c] = 0]
    /\ parts' = [parts EXCEPT ![c] = NoParts]
    /\ arg' = [arg EXCEPT ![c] = None]
    /\ quiet' = quiet \ {c}
    /\ UNCHANGED <<store, acked>>

FinishFetch(c) ==
    /\ pc[c] = "load"
    /\ next[c] = lim[c]
    /\ got' = [got EXCEPT ![c] = Joined(parts[c])]
    /\ Reset(c)

(***************************************************************************)
(* The environment.  Fail: the process dies, the activity attempt times    *)
(* out or Redis drops the connection between two calls: before the DELETE, *)
(* before a write that deleted nothing, between the DELETE and the write   *)
(* ("deleted"), or between two calls of a fetch.  Tick: time passes and    *)
(* keys expire; operations take milliseconds and a tick hours, so time     *)
(* passes between operations only.                                         *)
(***************************************************************************)
Point(c) == IF pc[c] = "write" /\ lim[c] > 0 THEN "deleted" ELSE pc[c]

Fail(c) ==
    /\ Point(c) \in Deaths
    /\ Reset(c)
    /\ UNCHANGED got

Tick ==
    /\ AtRest
    /\ mttl > 0
    /\ mttl' = mttl - 1
    /\ messages' = IF mttl = 1 THEN Absent ELSE messages
    /\ acked' = IF mttl = 1 THEN None ELSE acked
    /\ chunk' = [i \in Index |-> IF pttl[i] > 1 THEN chunk[i] ELSE None]
    /\ pttl' = [i \in Index |-> IF pttl[i] > 1 THEN pttl[i] - 1 ELSE 0]
    /\ UNCHANGED <<pc, local, got, quiet>>

Next ==
    \/ \E c \in Writers, p \in Payloads : BeginCheckpoint(c, p)
    \/ \E c \in Writers : DeleteOld(c) \/ WriteInline(c) \/ WriteExternal(c)
    \/ \E c \in Readers : BeginFetch(c) \/ LoadChunk(c) \/ FinishFetch(c)
    \/ \E c \in Clients : Fail(c)
    \/ Tick

Spec == Init /\ [][Next]_vars

-----------------------------------------------------------------------------
\* Every variable has its type.
TypeOK ==
    /\ messages \in [kind : {"absent", "inline", "external"},
                     body : Payloads \cup {None}, count : 0 .. MaxChunks]
    /\ mttl \in 0 .. TTL
    /\ chunk \in [Index -> Payloads \cup {None}]
    /\ pttl \in [Index -> 0 .. TTL]
    /\ pc \in [Clients -> {"idle", "delete", "write", "load"}]
    /\ arg \in [Clients -> Payloads \cup {None}]
    /\ lim \in [Clients -> 0 .. MaxChunks]
    /\ next \in [Clients -> 0 .. MaxChunks]
    /\ parts \in [Clients -> [Index -> Payloads \cup {None}]]
    /\ got \in [Clients -> Payloads \cup {None, Torn}]
    /\ acked \in Payloads \cup {None}
    /\ quiet \subseteq Clients

\* The turns the Redis keys hold: what a fetch running alone would return.
Stored ==
    IF messages.kind = "external"
    THEN Joined([i \in Index |-> IF i < messages.count THEN chunk[i] ELSE None])
    ELSE messages.body

\* With no checkpoint in progress the keys hold exactly the last payload that
\* was checkpointed and has not expired: not older turns, not nothing, not a
\* mixture of chunks (checkpoint_session deletes and rewrites the chunk keys in
\* separate calls, and refreshing the TTL is one call per key).
CheckpointDurable == ~CheckpointRunning => Stored = acked

\* With no checkpoint in progress no chunk key is left that the manifest does
\* not name: a shorter payload leaves no tail of a longer one behind.  It needs
\* one checkpointing process: two that read the same manifest leave tails.
NoOrphanChunks ==
    ~CheckpointRunning => \A i \in Index : i >= messages.count => chunk[i] = None

\* Between operations the chunk keys and the manifest that names them have the
\* same time to live, so they expire together and no manifest outlives a chunk.
KeysExpireTogether ==
    AtRest => \A i \in Index : i < messages.count => pttl[i] = mttl

\* A fetch of an externalised session that no checkpoint overlapped returns
\* exactly the checkpointed turns, whatever the other readers do meanwhile.
QuietFetchExact ==
    [][\A c \in Clients : FinishFetch(c) /\ c \in quiet => got'[c] = acked]_vars

\* A fetch answers the empty list only when there is no session
\* (session.py, docstring of fetch_recent_session).
EmptyOnlyWithoutSession ==
    [][\A c \in Clients : FinishFetch(c) /\ acked # None => got'[c] # None]_vars

\* Turn lists that fit inline: the session behaves as one register that is
\* replaced and read as a whole and expires only when left alone for TTL ticks.
Register == INSTANCE SessionRegister WITH turns <- messages.body, left <- mttl
RegisterSpec == Register!Spec
=============================================================================
