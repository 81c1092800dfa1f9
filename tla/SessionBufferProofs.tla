------------------------ MODULE SessionBufferProofs ------------------------
(***************************************************************************)
(* Theorems about the session buffer for every set of processes, every     *)
(* set of turn lists, every chunk bound and every TTL.                     *)
(***************************************************************************)
EXTENDS SessionBuffer, TLAPS

(***************************************************************************)
(* Type correctness, with or without failures.                             *)
(***************************************************************************)

\* An operation in progress has a payload, a reader stays in its range, and a
\* process that is not reading has nothing left over from an earlier fetch.
OpOK ==
    /\ \A c \in Clients : Checkpointing(c) => arg[c] \in Payloads
    /\ \A c \in Clients : pc[c] = "load" => next[c] <= lim[c]
    /\ \A c \in Clients : pc[c] # "load" => next[c] = 0 /\ parts[c] = NoParts

LEMMA InitType == Init => TypeOK /\ OpOK
BY TTLAssumption, MaxChunksAssumption
   DEF Init, TypeOK, OpOK, Checkpointing, Absent, NoParts, Index

LEMMA ExceptType ==
    ASSUME NEW S, NEW T, NEW f \in [S -> T], NEW x \in S, NEW v \in T
    PROVE  [f EXCEPT ![x] = v] \in [S -> T]
OBVIOUS

\* An operation that ends, well or not, leaves nothing behind.
LEMMA ResetType ==
    ASSUME TypeOK, OpOK, NEW c \in Clients, Reset(c),
           got' \in [Clients -> Payloads \cup {None, Torn}]
    PROVE  TypeOK' /\ OpOK'
<1> USE TTLAssumption, MaxChunksAssumption DEF TypeOK, OpOK, Checkpointing, Index
<1>1. /\ pc' \in [Clients -> {"idle", "delete", "write", "load"}]
      /\ arg' \in [Clients -> Payloads \cup {None}]
      /\ quiet' \subseteq Clients
    BY DEF Reset
<1>2. /\ lim' \in [Clients -> 0 .. MaxChunks]
      /\ next' \in [Clients -> 0 .. MaxChunks]
    BY DEF Reset
<1>3. parts' \in [Clients -> [Index -> Payloads \cup {None}]]
    BY DEF Reset, NoParts
<1>4. TypeOK'
    BY <1>1, <1>2, <1>3 DEF Reset, store
<1>5. OpOK'
    BY DEF Reset
<1> QED
    BY <1>4, <1>5

LEMMA StepType == TypeOK /\ OpOK /\ [Next]_vars => (TypeOK /\ OpOK)'
<1> SUFFICES ASSUME TypeOK, OpOK, [Next]_vars
             PROVE  (TypeOK /\ OpOK)'
    OBVIOUS
<1> USE TTLAssumption, MaxChunksAssumption, ChunksAssumption, MarkersAssumption
    DEF TypeOK, OpOK, Checkpointing, Index, Clients
<1>1. ASSUME NEW c \in Writers, NEW p \in Payloads, BeginCheckpoint(c, p)
      PROVE  (TypeOK /\ OpOK)'
    BY <1>1 DEF BeginCheckpoint, store
<1>2. ASSUME NEW c \in Writers, DeleteOld(c)
      PROVE  (TypeOK /\ OpOK)'
  <2>1. chunk' \in [Index -> Payloads \cup {None}] /\ pttl' \in [Index -> 0 .. TTL]
      BY <1>2 DEF DeleteOld
  <2>2. pc' \in [Clients -> {"idle", "delete", "write", "load"}]
      BY <1>2 DEF DeleteOld
  <2>3. TypeOK'
      BY <1>2, <2>1, <2>2 DEF DeleteOld, local
  <2>4. OpOK'
      BY <1>2 DEF DeleteOld, local
  <2>. QED
      BY <2>3, <2>4
<1>3. ASSUME NEW c \in Writers, WriteInline(c)
      PROVE  (TypeOK /\ OpOK)'
    BY <1>3 DEF WriteInline, EndCheckpoint, Inline
<1>4. ASSUME NEW c \in Writers, WriteExternal(c)
      PROVE  (TypeOK /\ OpOK)'
  <2>1. arg[c] \in Payloads /\ ChunksOf[arg[c]] \in 0 .. MaxChunks
      BY <1>4 DEF WriteExternal
  <2>2. messages' \in [kind : {"absent", "inline", "external"},
                       body : Payloads \cup {None}, count : 0 .. MaxChunks]
      BY <1>4, <2>1 DEF WriteExternal, Manifest
  <2>3. chunk' \in [Index -> Payloads \cup {None}] /\ pttl' \in [Index -> 0 .. TTL]
      BY <1>4, <2>1 DEF WriteExternal
  <2>4. TypeOK'
      BY SMTT(30), <1>4, <2>1, <2>2, <2>3 DEF WriteExternal, EndCheckpoint
  <2>5. OpOK'
      BY <1>4 DEF WriteExternal, EndCheckpoint
  <2>. QED
      BY <2>4, <2>5
<1>5. ASSUME NEW c \in Readers, BeginFetch(c)
      PROVE  (TypeOK /\ OpOK)'
  <2>1. /\ c \in Clients /\ pc[c] = "idle"
        /\ mttl' \in 0 .. TTL /\ quiet' \subseteq Clients
        /\ UNCHANGED <<messages, chunk, pttl, arg, next, parts, acked>>
      BY <1>5 DEF BeginFetch
  <2>2. messages.count \in 0 .. MaxChunks /\ messages.body \in Payloads \cup {None}
      OBVIOUS
  <2>3. next[c] = 0 /\ parts[c] = NoParts
      BY <2>1
  <2>4. CASE messages.kind = "external"
    <3>1. /\ pc' = [pc EXCEPT ![c] = "load"]
          /\ lim' = [lim EXCEPT ![c] = messages.count]
          /\ got' = got
        BY <1>5, <2>4 DEF BeginFetch
    <3>2. lim' \in [Clients -> 0 .. MaxChunks]
        BY <2>1, <2>2, <3>1, ExceptType
    <3>3. pc' \in [Clients -> {"idle", "delete", "write", "load"}]
        BY <2>1, <3>1, ExceptType
    <3>4. TypeOK'
        BY <2>1, <3>1, <3>2, <3>3
    <3>5. ASSUME NEW d \in Clients, d # c
          PROVE  pc'[d] = pc[d] /\ lim'[d] = lim[d] /\ arg'[d] = arg[d]
                 /\ next'[d] = next[d] /\ parts'[d] = parts[d]
        BY <2>1, <3>1, <3>5
    <3>6. pc'[c] = "load" /\ next'[c] = 0 /\ lim'[c] = messages.count
        BY <2>1, <2>3, <3>1
    <3>7. 0 <= messages.count
        BY <2>2
    <3>8. \A d \in Clients : Checkpointing(d)' => arg'[d] \in Payloads
        BY <3>5, <3>6
    <3>9. \A d \in Clients : pc'[d] = "load" => next'[d] <= lim'[d]
        BY <3>5, <3>6, <3>7
    <3>10. ASSUME NEW d \in Clients, pc'[d] # "load"
           PROVE  next'[d] = 0 /\ parts'[d] = NoParts'
      <4>1. d # c /\ pc[d] # "load"
          BY <3>5, <3>6, <3>10
      <4>2. next[d] = 0 /\ parts[d] = NoParts
          BY <4>1
      <4>. QED
          BY <3>5, <4>1, <4>2 DEF NoParts
    <3>11. OpOK'
        BY <3>8, <3>9, <3>10
    <3>. QED
        BY <3>4, <3>11
  <2>5. CASE messages.kind # "external"
    <3>1. got' = [got EXCEPT ![c] = messages.body] /\ pc' = pc /\ lim' = lim
        BY <1>5, <2>5 DEF BeginFetch
    <3>2. got' \in [Clients -> Payloads \cup {None, Torn}]
        BY <2>1, <2>2, <3>1, ExceptType
    <3>. QED
        BY <2>1, <3>1, <3>2
  <2>. QED
      BY <2>4, <2>5
<1>6. ASSUME NEW c \in Readers, LoadChunk(c)
      PROVE  (TypeOK /\ OpOK)'
  <2> DEFINE i == next[c]
  <2>1. i \in Index /\ i < lim[c] /\ lim[c] \in 0 .. MaxChunks
      BY <1>6 DEF LoadChunk
  <2>2. chunk[i] \in Payloads \cup {None}
      BY <2>1
  <2>3. parts' \in [Clients -> [Index -> Payloads \cup {None}]]
      BY <1>6, <2>1, <2>2 DEF LoadChunk
  <2>4. pttl' \in [Index -> 0 .. TTL]
      BY <1>6 DEF LoadChunk
  <2>5. next' \in [Clients -> 0 .. MaxChunks]
      BY SMTT(30), <1>6, <2>1 DEF LoadChunk
  <2>6. TypeOK'
      BY <1>6, <2>3, <2>4, <2>5 DEF LoadChunk
  <2>7. OpOK'
      BY <1>6, <2>1 DEF LoadChunk
  <2>. QED
      BY <2>6, <2>7
<1>7. ASSUME NEW c \in Readers, FinishFetch(c)
      PROVE  (TypeOK /\ OpOK)'
  <2>1. Joined(parts[c]) \in Payloads \cup {None, Torn}
      BY DEF Joined, Whole
  <2>2. TypeOK' /\ OpOK'
      BY <1>7, <2>1, ResetType DEF FinishFetch
  <2>. QED
      BY <2>2
<1>8. ASSUME NEW c \in Clients, Fail(c)
      PROVE  (TypeOK /\ OpOK)'
    BY <1>8, ResetType DEF Fail
<1>9. ASSUME Tick
      PROVE  (TypeOK /\ OpOK)'
    BY <1>9 DEF Tick, local, Absent
<1>10. CASE UNCHANGED vars
    BY <1>10 DEF vars, store, local
<1>. QED
    BY <1>1, <1>2, <1>3, <1>4, <1>5, <1>6, <1>7, <1>8, <1>9, <1>10 DEF Next

\* Every reachable state is well typed, whatever fails and however many
\* processes use the session.
THEOREM SessionTypeCorrect == Spec => []TypeOK
<1>1. Spec => [](TypeOK /\ OpOK)
    BY InitType, StepType, PTL DEF Spec
<1>. QED
    BY <1>1, PTL

-----------------------------------------------------------------------------
(***************************************************************************)
(* The inductive invariant where no operation is abandoned between its     *)
(* DELETE and its write, or between the calls of a fetch.                  *)
(***************************************************************************)

\* The messages key describes the last payload checkpointed, or nothing.
Head ==
    \/ acked = None /\ messages = Absent
    \/ /\ acked \in Payloads
       /\ ChunksOf[acked] = 0
       /\ messages = Inline(acked)
    \/ /\ acked \in Payloads
       /\ ChunksOf[acked] > 0
       /\ messages = Manifest(ChunksOf[acked])

Deleting(c) == pc[c] = "write" /\ lim[c] > 0

\* A chunk the manifest names belongs to that payload; it is missing only while
\* a process that deleted it has its own write still to do.
Body ==
    \A i \in Index : i < messages.count =>
        \/ chunk[i] = acked
        \/ chunk[i] = None /\ \E c \in Clients : Deleting(c)

\* A chunk whose time to live is behind the manifest's is about to be
\* refreshed by a fetch that refreshed the manifest.
Clocks ==
    /\ mttl = 0 <=> messages.kind = "absent"
    /\ (\E c \in Clients : pc[c] = "load") => mttl = TTL
    /\ \A i \in Index : i < messages.count /\ chunk[i] # None =>
        \/ pttl[i] = mttl
        \/ mttl = TTL /\ \E c \in Clients :
               pc[c] = "load" /\ next[c] <= i /\ i < lim[c]

\* What an undisturbed fetch has read so far is a prefix of the payload.
Prefix ==
    \A c \in quiet :
        /\ pc[c] = "load"
        /\ ~CheckpointRunning
        /\ messages.kind = "external"
        /\ lim[c] = messages.count
        /\ \A i \in Index : parts[c][i] = IF i < next[c] THEN acked ELSE None

IInv == TypeOK /\ OpOK /\ Head /\ Body /\ Clocks /\ Prefix

\* The points at which an operation may be abandoned: an operation that dies
\* there has changed no key.
Harmless == Deaths \subseteq {"delete", "write"}

LEMMA InitIInv == Init => IInv
<1> SUFFICES ASSUME Init PROVE IInv
    OBVIOUS
<1>1. TypeOK /\ OpOK
    BY InitType
<1>2. Head
    BY DEF Init, Head
<1>3. Body /\ Clocks
    BY DEF Init, Body, Clocks, Absent, Index
<1>4. Prefix
    BY DEF Init, Prefix
<1>. QED
    BY <1>1, <1>2, <1>3, <1>4 DEF IInv

LEMMA StepIInv ==
    ASSUME Harmless, IInv, [Next]_vars
    PROVE  IInv'
<1>0. TypeOK /\ OpOK /\ (TypeOK /\ OpOK)'
    BY StepType DEF IInv
<1> USE <1>0, TTLAssumption, MaxChunksAssumption, ChunksAssumption, MarkersAssumption
    DEF TypeOK, OpOK, Clients, Index
<1>1. ASSUME NEW c \in Writers, NEW p \in Payloads, BeginCheckpoint(c, p)
      PROVE  (Head /\ Body /\ Clocks /\ Prefix)'
  <2>1. Head'
      BY <1>1 DEF IInv, Head, BeginCheckpoint, store, Absent, Inline, Manifest
  <2>2. Body'
      BY <1>1 DEF IInv, Body, Deleting, BeginCheckpoint, store
  <2>3. Clocks'
      BY <1>1 DEF IInv, Clocks, BeginCheckpoint, store, Absent
  <2>4. Prefix'
      BY <1>1 DEF Prefix, BeginCheckpoint
  <2>. QED
      BY <2>1, <2>2, <2>3, <2>4
<1>2. ASSUME NEW c \in Writers, DeleteOld(c)
      PROVE  (Head /\ Body /\ Clocks /\ Prefix)'
  <2>1. Head'
      BY <1>2 DEF IInv, Head, DeleteOld, Absent, Inline, Manifest
  <2>2. Body'
      BY <1>2 DEF IInv, Body, Deleting, DeleteOld, local
  <2>3. Clocks'
      BY <1>2 DEF IInv, Clocks, DeleteOld, local, Absent
  <2>4. Prefix'
      BY <1>2 DEF IInv, Prefix, DeleteOld, CheckpointRunning, Checkpointing, local
  <2>. QED
      BY <2>1, <2>2, <2>3, <2>4
<1>3. ASSUME NEW c \in Writers, WriteInline(c)
      PROVE  (Head /\ Body /\ Clocks /\ Prefix)'
  <2>0. arg[c] \in Payloads
      BY <1>3 DEF WriteInline, Checkpointing
  <2>1. Head'
      BY <1>3, <2>0 DEF Head, WriteInline, EndCheckpoint, Inline
  <2>2. Body'
      BY <1>3 DEF Body, WriteInline, Inline
  <2>3. Clocks'
      BY <1>3 DEF Clocks, WriteInline, EndCheckpoint, Inline
  <2>4. Prefix'
      BY <1>3 DEF IInv, Prefix, WriteInline, EndCheckpoint, CheckpointRunning, Checkpointing
  <2>. QED
      BY <2>1, <2>2, <2>3, <2>4
<1>4. ASSUME NEW c \in Writers, WriteExternal(c)
      PROVE  (Head /\ Body /\ Clocks /\ Prefix)'
  <2>0. arg[c] \in Payloads
      BY <1>4 DEF WriteExternal, Checkpointing
  <2>1. Head'
      BY <1>4, <2>0 DEF Head, WriteExternal, EndCheckpoint, Manifest
  <2>2. Body'
      BY <1>4, <2>0 DEF Body, Deleting, WriteExternal, EndCheckpoint, Manifest
  <2>3. Clocks'
      BY <1>4, <2>0 DEF Clocks, WriteExternal, EndCheckpoint, Manifest
  <2>4. Prefix'
      BY <1>4 DEF IInv, Prefix, WriteExternal, EndCheckpoint, CheckpointRunning, Checkpointing
  <2>. QED
      BY <2>1, <2>2, <2>3, <2>4
<1>5. ASSUME NEW c \in Readers, BeginFetch(c)
      PROVE  (Head /\ Body /\ Clocks /\ Prefix)'
  <2>1. Head'
      BY <1>5 DEF IInv, Head, BeginFetch, Absent, Inline, Manifest
  <2>2. Body'
      BY <1>5 DEF IInv, Body, Deleting, BeginFetch
  <2>3. Clocks'
    <3>1. CASE messages.kind = "external"
      <4>1. /\ mttl' = TTL /\ messages' = messages /\ chunk' = chunk
            /\ pc'[c] = "load" /\ next'[c] = 0 /\ lim'[c] = messages.count
          BY <1>5, <3>1 DEF BeginFetch
      <4>. QED
          BY <3>1, <4>1 DEF Clocks
    <3>2. CASE messages.kind # "external"
      <4>1. messages.count = 0
          BY <3>2 DEF IInv, Head, Absent, Inline, Manifest
      <4>. QED
          BY <1>5, <3>2, <4>1 DEF IInv, Head, Clocks, BeginFetch, Absent, Inline, Manifest
    <3>. QED
        BY <3>1, <3>2
  <2>4. Prefix'
    <3>1. CASE messages.kind = "external"
      <4>1. CheckpointRunning' = CheckpointRunning
        <5>1. pc[c] = "idle" /\ pc' = [pc EXCEPT ![c] = "load"]
            BY <1>5, <3>1 DEF BeginFetch
        <5>2. \A d \in Clients : Checkpointing(d)' <=> Checkpointing(d)
            BY <5>1 DEF Checkpointing
        <5>. QED
            BY <5>2 DEF CheckpointRunning
      <4>2. next[c] = 0 /\ parts[c] = NoParts
          BY <1>5 DEF BeginFetch
      <4>3. ASSUME NEW d \in quiet'
            PROVE  /\ pc'[d] = "load"
                   /\ ~CheckpointRunning
                   /\ lim'[d] = messages.count
                   /\ \A i \in Index :
                         parts'[d][i] = IF i < next'[d] THEN acked ELSE None
        <5>1. CASE d = c /\ ~CheckpointRunning
            BY <1>5, <3>1, <4>2, <5>1 DEF BeginFetch, NoParts
        <5>2. CASE d # c \/ CheckpointRunning
          <6>1. d \in quiet /\ d # c
              BY <1>5, <3>1, <4>3, <5>2 DEF IInv, Prefix, BeginFetch
          <6>. QED
              BY <1>5, <3>1, <6>1 DEF IInv, Prefix, BeginFetch
        <5>. QED
            BY <5>1, <5>2
      <4>. QED
          BY <1>5, <3>1, <4>1, <4>3 DEF Prefix, BeginFetch
    <3>2. CASE messages.kind # "external"
        BY <1>5, <3>2 DEF IInv, Prefix, BeginFetch, CheckpointRunning, Checkpointing
    <3>. QED
        BY <3>1, <3>2
  <2>. QED
      BY <2>1, <2>2, <2>3, <2>4
<1>6. ASSUME NEW c \in Readers, LoadChunk(c)
      PROVE  (Head /\ Body /\ Clocks /\ Prefix)'
  <2>1. Head'
      BY <1>6 DEF IInv, Head, LoadChunk, Absent, Inline, Manifest
  <2>2. Body'
      BY <1>6 DEF IInv, Body, Deleting, LoadChunk
  <2>3. Clocks'
    <3>1. mttl = TTL
        BY <1>6 DEF IInv, Clocks, LoadChunk
    <3>2. pttl'[next[c]] = TTL \/ chunk'[next[c]] = None
        BY <1>6 DEF LoadChunk
    <3>3. ASSUME NEW i \in Index, i # next[c], i < messages.count, chunk[i] # None
          PROVE  \/ pttl'[i] = TTL
                 \/ \E d \in Clients : pc'[d] = "load" /\ next'[d] <= i /\ i < lim'[d]
      <4>1. CASE pttl[i] = mttl
          BY <1>6, <3>1, <3>3, <4>1 DEF LoadChunk
      <4>2. CASE \E d \in Clients : pc[d] = "load" /\ next[d] <= i /\ i < lim[d]
          BY <1>6, <3>3, <4>2 DEF LoadChunk
      <4>. QED
          BY <3>3, <4>1, <4>2 DEF IInv, Clocks
    <3>. QED
        BY <1>6, <3>1, <3>2, <3>3 DEF IInv, Clocks, LoadChunk, Absent
  <2>4. Prefix'
    <3>1. CheckpointRunning' = CheckpointRunning
        BY <1>6 DEF LoadChunk, CheckpointRunning, Checkpointing
    <3>2. ASSUME NEW d \in quiet
          PROVE  \A i \in Index : parts'[d][i] = IF i < next'[d] THEN acked ELSE None
      <4>1. CASE d # c
          BY <1>6, <4>1 DEF IInv, Prefix, LoadChunk
      <4>2. CASE d = c
        <5>1. /\ ~ CheckpointRunning /\ lim[c] = messages.count
              /\ \A i \in Index : parts[c][i] = IF i < next[c] THEN acked ELSE None
            BY <4>2 DEF IInv, Prefix
        <5>2. next[c] \in Index /\ next[c] < messages.count
            BY <1>6, <5>1 DEF LoadChunk
        <5>3. chunk[next[c]] = acked
            BY <5>1, <5>2 DEF IInv, Body, Deleting, CheckpointRunning, Checkpointing
        <5>. QED
            BY <1>6, <4>2, <5>1, <5>2, <5>3 DEF LoadChunk
      <4>. QED
          BY <4>1, <4>2
    <3>. QED
        BY SMTT(30), <1>6, <3>1, <3>2 DEF IInv, Prefix, LoadChunk
  <2>. QED
      BY <2>1, <2>2, <2>3, <2>4
<1>7. ASSUME NEW c \in Readers, FinishFetch(c)
      PROVE  (Head /\ Body /\ Clocks /\ Prefix)'
  <2>1. Head'
      BY <1>7 DEF IInv, Head, FinishFetch, Reset, store, Absent, Inline, Manifest
  <2>2. Body'
      BY <1>7 DEF IInv, Body, Deleting, FinishFetch, Reset, store
  <2>3. Clocks'
      BY <1>7 DEF IInv, Clocks, FinishFetch, Reset, store, Absent
  <2>4. Prefix'
      BY <1>7 DEF IInv, Prefix, FinishFetch, Reset, store, CheckpointRunning, Checkpointing
  <2>. QED
      BY <2>1, <2>2, <2>3, <2>4
<1>8. ASSUME Tick
      PROVE  (Head /\ Body /\ Clocks /\ Prefix)'
  <2>0. \A i \in Index : i < messages.count => chunk[i] = acked /\ pttl[i] = mttl
      BY <1>8 DEF IInv, Head, Body, Deleting, Clocks, Tick, AtRest, Absent, Inline, Manifest
  <2>1. Head'
      BY <1>8 DEF IInv, Head, Tick, Absent, Inline, Manifest
  <2>2. Body'
      BY <1>8, <2>0 DEF Body, Tick, Absent
  <2>3. Clocks'
      BY <1>8, <2>0 DEF IInv, Clocks, Tick, AtRest, Absent
  <2>4. Prefix'
      BY <1>8 DEF IInv, Prefix, Tick, AtRest
  <2>. QED
      BY <2>1, <2>2, <2>3, <2>4
<1>9. CASE UNCHANGED vars
    BY <1>9 DEF IInv, vars, store, local, Head, Body, Deleting, Clocks, Prefix, Absent,
                Inline, Manifest, CheckpointRunning, Checkpointing
<1>10. ASSUME NEW c \in Clients, Fail(c)
       PROVE  (Head /\ Body /\ Clocks /\ Prefix)'
  <2>0. /\ pc[c] = "delete" \/ (pc[c] = "write" /\ lim[c] = 0)
        /\ pc' = [pc EXCEPT ![c] = "idle"]
        /\ UNCHANGED <<messages, mttl, chunk, pttl, acked>>
    <3>1. Point(c) \in {"delete", "write"}
        BY <1>10 DEF Fail, Harmless
    <3>2. pc[c] = "delete" \/ (pc[c] = "write" /\ ~(lim[c] > 0))
        BY <3>1 DEF Point
    <3>3. lim[c] \in Nat
        BY <1>0
    <3>. QED
        BY <1>10, <3>2, <3>3 DEF Fail, Reset, store
  <2>1. Head'
      BY <2>0 DEF IInv, Head, Absent, Inline, Manifest
  <2>2. Body'
    <3>1. \A d \in Clients : Deleting(d) => Deleting(d)'
        BY <1>10, <2>0 DEF Fail, Reset, Deleting
    <3>. QED
        BY <2>0, <3>1 DEF IInv, Body
  <2>3. Clocks'
      BY <1>10, <2>0 DEF IInv, Clocks, Fail, Reset, Absent
  <2>4. Prefix'
      BY <1>10, <2>0 DEF IInv, Prefix, Fail, Reset, CheckpointRunning, Checkpointing
  <2>. QED
      BY <2>1, <2>2, <2>3, <2>4
<1>. QED
    BY <1>1, <1>2, <1>3, <1>4, <1>5, <1>6, <1>7, <1>8, <1>9, <1>10 DEF Next, IInv

(***************************************************************************)
(* What the invariant says of the store and of a finished fetch.           *)
(***************************************************************************)
LEMMA JoinedWhole ==
    ASSUME NEW p \in Payloads, ChunksOf[p] > 0
    PROVE  Joined([i \in Index |-> IF i < ChunksOf[p] THEN p ELSE None]) = p
<1>1. 0 \in Index
    BY MaxChunksAssumption DEF Index
<1> DEFINE ps == [i \in Index |-> IF i < ChunksOf[p] THEN p ELSE None]
<1>2. ps[0] = p /\ p # None
    BY <1>1, ChunksAssumption, MarkersAssumption
<1>3. ps # NoParts
    BY <1>1, <1>2 DEF NoParts
<1>4. Whole(ps, p)
    BY DEF Whole
<1>. QED
    BY <1>2, <1>3, <1>4 DEF Joined

LEMMA IInvDurable == IInv => CheckpointDurable
<1> SUFFICES ASSUME IInv, ~CheckpointRunning PROVE Stored = acked
    BY DEF CheckpointDurable
<1>1. \A i \in Index : i < messages.count => chunk[i] = acked
    BY DEF IInv, Body, Deleting, CheckpointRunning, Checkpointing
<1>2. CASE messages.kind # "external"
    BY <1>2 DEF IInv, Head, Stored, Absent, Inline, Manifest
<1>3. CASE messages.kind = "external"
  <2>1. /\ acked \in Payloads /\ ChunksOf[acked] > 0
        /\ messages.count = ChunksOf[acked]
      BY <1>3 DEF IInv, Head, Absent, Inline, Manifest
  <2>2. [i \in Index |-> IF i < messages.count THEN chunk[i] ELSE None]
            = [i \in Index |-> IF i < ChunksOf[acked] THEN acked ELSE None]
      BY <1>1, <2>1
  <2>. QED
      BY <1>3, <2>1, <2>2, JoinedWhole DEF Stored
<1>. QED
    BY <1>2, <1>3

LEMMA IInvExpire == IInv => KeysExpireTogether
<1> SUFFICES ASSUME IInv, AtRest,
                    NEW i \in Index, i < messages.count
             PROVE  pttl[i] = mttl
    BY DEF KeysExpireTogether
<1>1. acked \in Payloads
    BY DEF IInv, Head, Absent, Index
<1>2. chunk[i] # None
    BY <1>1, MarkersAssumption DEF IInv, Body, Deleting, AtRest
<1>. QED
    BY <1>2 DEF IInv, Clocks, AtRest

LEMMA IInvFetch ==
    ASSUME IInv, NEW c \in Clients, FinishFetch(c), c \in quiet
    PROVE  got'[c] = acked
<1>1. /\ acked \in Payloads /\ ChunksOf[acked] > 0
      /\ next[c] = ChunksOf[acked]
    BY DEF IInv, Prefix, Head, FinishFetch, Absent, Inline, Manifest
<1>2. parts[c] = [i \in Index |-> IF i < ChunksOf[acked] THEN acked ELSE None]
    BY <1>1 DEF IInv, TypeOK, Prefix
<1>3. Joined(parts[c]) = acked
    BY <1>1, <1>2, JoinedWhole
<1>. QED
    BY <1>3 DEF IInv, TypeOK, FinishFetch

(***************************************************************************)
(* The theorems.                                                           *)
(***************************************************************************)

\* Whenever no checkpoint is in progress the keys hold exactly the last turn
\* list checkpointed, for any number of concurrent writers and readers, where a
\* checkpoint may be abandoned as long as it has deleted nothing.
THEOREM SessionDurable ==
    ASSUME Harmless
    PROVE  Spec => []CheckpointDurable
<1>1. IInv /\ [Next]_vars => IInv'
    BY StepIInv
<1>. QED
    BY <1>1, InitIInv, IInvDurable, PTL DEF Spec

\* ... and the chunk keys and their manifest expire together.
THEOREM SessionKeysExpireTogether ==
    ASSUME Harmless
    PROVE  Spec => []KeysExpireTogether
<1>1. IInv /\ [Next]_vars => IInv'
    BY StepIInv
<1>. QED
    BY <1>1, InitIInv, IInvExpire, PTL DEF Spec

\* ... and a fetch of an externalised session that no checkpoint overlapped
\* returns exactly the turn list checkpointed last.
THEOREM SessionFetchExact ==
    ASSUME Harmless
    PROVE  Spec => QuietFetchExact
<1>1. IInv /\ [Next]_vars => IInv'
    BY StepIInv
<1>2. IInv /\ [Next]_vars =>
        [\A c \in Clients : FinishFetch(c) /\ c \in quiet => got'[c] = acked]_vars
    BY IInvFetch
<1>. QED
    BY <1>1, <1>2, InitIInv, PTL DEF Spec, QuietFetchExact

-----------------------------------------------------------------------------
(***************************************************************************)
(* Turn lists of at most 256 KB: the buffer implements the register, with  *)
(* any number of writers, and even when operations are abandoned half way. *)
(***************************************************************************)
AllInline == \A p \in Payloads : ChunksOf[p] = 0

\* No manifest is ever written, so nothing is deleted or loaded by chunk.
InlineInv ==
    /\ messages.kind # "external" /\ messages.count = 0
    /\ messages.kind = "absent" <=> messages.body = None
    /\ messages.kind = "absent" => mttl = 0
    /\ \A c \in Clients : pc[c] \in {"idle", "write"}

LEMMA StepInline ==
    ASSUME AllInline, TypeOK /\ OpOK, InlineInv, [Next]_vars
    PROVE  InlineInv' /\ [Register!Next]_(Register!regVars)
<1> USE TTLAssumption, MarkersAssumption DEF AllInline, InlineInv, TypeOK, OpOK, Clients
<1>1. ASSUME NEW c \in Writers, NEW p \in Payloads, BeginCheckpoint(c, p)
      PROVE  InlineInv' /\ UNCHANGED <<messages.body, mttl, got>>
    BY <1>1 DEF BeginCheckpoint, store
<1>2. ASSUME NEW c \in Writers, WriteInline(c)
      PROVE  InlineInv' /\ Register!Checkpoint
    BY <1>2 DEF WriteInline, EndCheckpoint, Inline, Checkpointing, Register!Checkpoint
<1>3. ASSUME NEW c \in Readers, BeginFetch(c)
      PROVE  InlineInv' /\ Register!Fetch(c)
    BY <1>3 DEF BeginFetch, Register!Fetch
<1>4. ASSUME NEW c \in Clients, Fail(c)
      PROVE  InlineInv' /\ UNCHANGED <<messages.body, mttl, got>>
    BY <1>4 DEF Fail, Reset, store
<1>5. ASSUME Tick
      PROVE  InlineInv' /\ Register!Idle
    BY <1>5 DEF Tick, Absent, Register!Idle
<1>6. ASSUME UNCHANGED vars
      PROVE  InlineInv' /\ UNCHANGED <<messages.body, mttl, got>>
    BY <1>6 DEF vars, store
<1>7. ASSUME NEW c \in Clients
      PROVE  ~DeleteOld(c) /\ ~WriteExternal(c) /\ ~LoadChunk(c) /\ ~FinishFetch(c)
    BY DEF DeleteOld, WriteExternal, LoadChunk, FinishFetch, Checkpointing
<1>. QED
    BY <1>1, <1>2, <1>3, <1>4, <1>5, <1>6, <1>7 DEF Next, Register!Next, Register!regVars

\* While every turn list fits inline, fetches and checkpoints behave as reads
\* and writes of one atomic register, whatever dies in between.
THEOREM InlineImplementsRegister ==
    ASSUME AllInline
    PROVE  Spec => RegisterSpec
<1>1. Init => InlineInv /\ Register!Init
    BY DEF Init, InlineInv, Absent, Register!Init
<1>2. InlineInv /\ TypeOK /\ OpOK /\ [Next]_vars
        => InlineInv' /\ [Register!Next]_(Register!regVars)
    BY StepInline
<1>. QED
    BY <1>1, <1>2, InitType, StepType, PTL DEF Spec, RegisterSpec, Register!Spec
=============================================================================
