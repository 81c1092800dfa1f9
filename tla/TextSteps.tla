----------------------------- MODULE TextSteps -----------------------------
(***************************************************************************)
(* What is done to texts on their way in: chunk() cuts a resource, and     *)
(* process_ingestion_batch screens chunks.  No workflow of the code calls  *)
(* one with the result of the other, so that nothing is said of the two    *)
(* together: a behaviour is one call of either.                            *)
(***************************************************************************)
EXTENDS Chunker, PIIScreen

textVars == <<chunkVars, screenVars>>

ChunkIdle ==
    /\ kind = "none" /\ text = <<>> /\ at = 1 /\ current = <<>> /\ size = 0
    /\ buffer = <<>> /\ chunks = <<>> /\ chunked = FALSE

ScreenIdle ==
    /\ batch = <<>> /\ declared = FALSE /\ config = <<>>
    /\ step = "none" /\ round = 0 /\ chunk_index = 0 /\ detected = FALSE
    /\ rows = {} /\ audit = {} /\ screened = <<>>

TextInit == (ChunkInit /\ ScreenIdle) \/ (ScreenInit /\ ChunkIdle)

TextNext ==
    \/ ChunkNext /\ UNCHANGED screenVars
    \/ ScreenNext /\ UNCHANGED chunkVars

TextSpec == TextInit /\ [][TextNext]_textVars

-----------------------------------------------------------------------------
TextTypeOK ==
    /\ kind \in {"none", "prose", "code", "schema"} /\ chunked \in BOOLEAN
    /\ at \in 1 .. Len(text) + 2
    /\ Range(current) \subseteq Spans /\ size \in Nat
    /\ Len(buffer) <= Overlap
    /\ \A i \in DOMAIN chunks : Range(chunks[i].units) \subseteq Spans
    /\ declared \in BOOLEAN /\ detected \in BOOLEAN
    /\ step \in {"none", "waiting", "screening", "mismatch", "review", "ok", "aborted", "error"}
    /\ round \in 0 .. 2 /\ chunk_index \in 0 .. Len(batch) + 1
    /\ \A row \in rows \cup audit : row[1] \in 1 .. round /\ row[2] \in DOMAIN batch
    /\ \A i \in DOMAIN screened : screened[i][1] \in DOMAIN batch

\* The characters outside of the matches, and the text without its marks.
Outside(t) == Without(t.chars, UNION {f[2] .. f[3] : f \in t.matches})
Unmarked(s) == Without(s, {k \in DOMAIN s : s[k] = Mark})

\* As long as no replacement but the last changes the length of the text, what
\* is returned is, but for the marks, the text outside of its matches: all of
\* every match is gone and nothing else, though matches may overlap.
SpansGone ==
    \A c \in Released :
        LET t     == batch[c[1]]
            found == Sorted(t)
        IN  (\A n \in 1 .. Len(found) - 1 : Length[found[n][1]] = found[n][3] - found[n][2] + 1)
                => Unmarked(c[2]) = Outside(t)
=============================================================================
