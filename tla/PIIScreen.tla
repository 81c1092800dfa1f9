----------------------------- MODULE PIIScreen -----------------------------
(***************************************************************************)
(* process_ingestion_batch: the chunks of a batch are screened by          *)
(* pii_screen, which scans each text, writes an audit row for each finding *)
(* in one transaction and returns what may be stored; findings in a        *)
(* connector declared free of PII go to a reviewer.  A text is its         *)
(* characters and what the patterns find in them: a finding is a category  *)
(* with the first and the last character of its span, and spans may        *)
(* overlap.  (The pii_screen that worker.py registers is a stub that       *)
(* returns the chunks as they are.)                                        *)
(***************************************************************************)
EXTENDS Integers, Sequences, SequencesExt, FiniteSets

CONSTANTS
    Letters,        \* what a text is made of
    Categories,     \* entity categories that there are patterns for
    Place,          \* Place[e]: the place of the pattern of e among the patterns
    Length,         \* Length[e]: length of the replacement of the category e
    Batches,        \* params["chunks"]: sequences of texts
    Overrides       \* pii_config: functions from categories to actions

\* A character of a replacement, and the text that stands for a dropped one.
Mark == "mark"
Sentinel == <<"__PII_DROP__">>

RawTexts == [chars : Seq(Letters), matches : SUBSET (Categories \X (Nat \ {0}) \X Nat)]

ASSUME LettersAssumption == Mark \notin Letters
ASSUME PatternsAssumption ==
    /\ Length \in [Categories -> Nat] /\ Place \in [Categories -> Nat]
    /\ \A d, e \in Categories : Place[d] = Place[e] => d = e

ASSUME BatchesAssumption ==
    \A b \in Batches :
        /\ b \in Seq(RawTexts)
        /\ \A i \in DOMAIN b :
                /\ IsFiniteSet(b[i].matches)
                /\ \A f \in b[i].matches : f[2] <= f[3] /\ f[3] <= Len(b[i].chars)

HardRedact == {"CREDIT_CARD", "BANK_ACCOUNT"}
HardDrop == {"PASSWORD", "SECRET"}

VARIABLES
    batch,          \* the texts
    declared,       \* contains_pii
    config,         \* the overrides
    step,           \* "waiting", "screening", "mismatch", "review", "ok", "aborted", "error"
    round,          \* calls of pii_screen
    chunk_index,
    detected,       \* saw_detection
    rows,           \* rows of the open transaction
    audit,          \* pii_audit_log: round, chunk, finding
    screened        \* screened_chunks: pairs of chunk_index and text

screenVars ==
    <<batch, declared, config, step, round, chunk_index, detected, rows, audit, screened>>

ScreenInit ==
    /\ batch \in Batches /\ declared \in BOOLEAN /\ config \in Overrides
    /\ step = "waiting" /\ round = 0 /\ chunk_index = 0 /\ detected = FALSE
    /\ rows = {} /\ audit = {} /\ screened = <<>>

-----------------------------------------------------------------------------
\* scan().  Mutant: the configuration is asked first.
ActionConfigured(category) ==
    IF category \in DOMAIN config THEN config[category]
    ELSE IF category \in HardRedact THEN "redact"
    ELSE IF category \in HardDrop THEN "drop" ELSE "mask"

Action(category) ==
    IF category \in HardRedact THEN "redact"
    ELSE IF category \in HardDrop THEN "drop"
    ELSE IF category \in DOMAIN config THEN config[category] ELSE "mask"

\* matches.sort by start and end, which keeps the order of the patterns: the
\* n-th comes after n - 1 others.
Earlier(f, g) ==
    \/ f[2] < g[2]
    \/ f[2] = g[2] /\ f[3] < g[3]
    \/ f[2] = g[2] /\ f[3] = g[3] /\ Place[f[1]] < Place[g[1]]

Sorted(t) ==
    LET found == t.matches
    IN  [n \in 1 .. Cardinality(found) |->
            CHOOSE f \in found : Cardinality({g \in found : Earlier(g, f)}) = n - 1]

Drops(f) == Action(f[1]) = "drop"

\* The scan ends at the first match that drops the chunk.
Findings(t) ==
    LET all == Sorted(t)
        n == SelectInSeq(all, Drops)
    IN  IF n = 0 THEN all ELSE SubSeq(all, 1, n)

Dropped(t) == \E f \in t.matches : Drops(f)

Upto(s, n) == SubSeq(s, 1, IF n < Len(s) THEN n ELSE Len(s))

Marks(f) == [k \in 1 .. Length[f[1]] |-> Mark]

\* Mutant: the last character of the span stays.
ReplaceSpanShort(s, f) ==
    Upto(s, f[2] - 1) \o Marks(f) \o SubSeq(s, f[3], Len(s))

\* The span in the text as it was, cut out of the text as it is by now.
ReplaceSpan(s, f) ==
    Upto(s, f[2] - 1) \o Marks(f) \o SubSeq(s, f[3] + 1, Len(s))

Sanitized(t) ==
    LET found == Findings(t)
        cut[n \in 0 .. Len(found)] ==
            IF n = 0 THEN t.chars ELSE ReplaceSpan(cut[n - 1], found[n])
    IN  cut[Len(found)]

-----------------------------------------------------------------------------
\* pii_screen.
Call(texts, pii) ==
    /\ batch' = texts /\ declared' = pii
    /\ step' = "screening" /\ round' = round + 1
    /\ chunk_index' = 1 /\ detected' = FALSE /\ rows' = {} /\ screened' = <<>>
    /\ UNCHANGED <<config, audit>>

Begin ==
    /\ step = "waiting"
    /\ Call(batch, declared)

RowsOf(i) == {<<round, i, f>> : f \in Range(Findings(batch[i]))}

ScreenChunk ==
    /\ step = "screening" /\ chunk_index <= Len(batch)
    /\ LET t == batch[chunk_index]
       IN  /\ detected' = (detected \/ Findings(t) # <<>>)
           /\ screened' = IF Dropped(t) \/ Sanitized(t) = Sentinel THEN screened
                          ELSE Append(screened, <<chunk_index, Sanitized(t)>>)
    /\ rows' = rows \cup RowsOf(chunk_index)
    /\ chunk_index' = chunk_index + 1
    /\ UNCHANGED <<batch, declared, config, step, round, audit>>

\* An INSERT, or the commit, raises: the connection is closed, nothing is
\* returned, and a commit whose answer was lost has taken effect.
ScreenFails ==
    /\ step = "screening"
    /\ step' = "error" /\ rows' = {} /\ screened' = <<>>
    /\ audit' \in {audit} \cup (IF chunk_index > Len(batch) THEN {audit \cup rows} ELSE {})
    /\ UNCHANGED <<batch, declared, config, round, chunk_index, detected>>

\* Mutant: the chunks are returned without a commit.
CommitNothing ==
    /\ step = "screening" /\ chunk_index > Len(batch)
    /\ rows' = {}
    /\ step' = IF detected /\ ~declared THEN "mismatch" ELSE "ok"
    /\ UNCHANGED <<batch, declared, config, round, chunk_index, detected, screened, audit>>

\* The mismatch is raised after the commit, and nothing is returned.
Commit ==
    /\ step = "screening" /\ chunk_index > Len(batch)
    /\ audit' = audit \cup rows /\ rows' = {}
    /\ step' = IF detected /\ ~declared THEN "mismatch" ELSE "ok"
    /\ screened' = IF detected /\ ~declared THEN <<>> ELSE screened
    /\ UNCHANGED <<batch, declared, config, round, chunk_index, detected>>

-----------------------------------------------------------------------------
\* Without wait_for_hitl the batch is aborted, with it a reviewer is asked.
Halt ==
    /\ step = "mismatch"
    /\ step' \in {"aborted", "review"}
    /\ UNCHANGED <<batch, declared, config, round, chunk_index, detected, rows, audit, screened>>

Abort ==
    /\ step = "review"
    /\ step' = "aborted"
    /\ UNCHANGED <<batch, declared, config, round, chunk_index, detected, rows, audit, screened>>

\* Any other answer: the same chunks once more, as if declared.
Resume ==
    /\ step = "review"
    /\ Call(batch, TRUE)

ScreenNext == Begin \/ ScreenChunk \/ ScreenFails \/ Commit \/ Halt \/ Abort \/ Resume

-----------------------------------------------------------------------------
Released == IF step = "ok" THEN Range(screened) ELSE {}

\* No configuration lets a password or a secret through: the chunk is gone.
HardDropped ==
    \A c \in Released : \A f \in batch[c[1]].matches : f[1] \notin HardDrop

\* What is returned has an audit row, in the log, for each match of its t.
ReleasedIsAudited ==
    \A c \in Released : \A f \in batch[c[1]].matches : <<round, c[1], f>> \in audit

\* FR-017: card and account numbers are always replaced.
HardRedacted ==
    \A c \in Released : \A f \in batch[c[1]].matches : f[1] \in HardRedact =>
        \A k \in f[2] .. f[3] : batch[c[1]].chars[k] \notin Range(c[2])

\* FR-020: every detection is audited.
EveryMatchAudited ==
    step = "ok" => \A i \in DOMAIN batch : \A f \in batch[i].matches : <<round, i, f>> \in audit
=============================================================================
