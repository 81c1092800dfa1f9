------------------------------ MODULE Chunker ------------------------------
(***************************************************************************)
(* chunk(): a text is cut into chunks, prose by paragraphs with an         *)
(* overlap, code before definitions, a schema by tables.  A text is a      *)
(* sequence of symbols: a character, or what is found as a whole ("def"    *)
(* for the keyword of a definition, "comment" for "--", "create" for       *)
(* CREATE TABLE, "close" for ");").  A unit, which is a paragraph, a line  *)
(* or a table, is the pair of its first and last position, so that a chunk *)
(* can be traced to what it is made of.  One action is one round of the    *)
(* loop, or one match of the regular expression.                           *)
(***************************************************************************)
EXTENDS Integers, Sequences, SequencesExt, FiniteSetsExt

CONSTANTS
    Symbols,
    ResourceTexts,  \* pairs of a kind ("prose", "code", "schema") and a text
    Target,         \* 1000: a prose chunk is smaller
    Overlap,        \* 200: characters repeated of what came before
    Least,          \* 200: a definition ends a longer code chunk
    Most            \* 2000: a longer code chunk is ended at once

\* s[-0:] would be all of s.
ASSUME SizesAssumption == {Target, Overlap, Least, Most} \subseteq Nat /\ Overlap > 0

ASSUME SymbolsAssumption == "newline" \in Symbols
ASSUME ResourcesAssumption == ResourceTexts \subseteq {"prose", "code", "schema"} \X Seq(Symbols)

VARIABLES
    kind,
    text,           \* without its tags, when it is prose
    at,             \* where the loop, or the search, is
    current,        \* current_chunk: its units
    size,           \* current_size
    buffer,         \* overlap_buffer
    chunks,         \* the chunks so far
    chunked         \* chunk() has returned

chunkVars == <<kind, text, at, current, size, buffer, chunks, chunked>>

\* s without what stands at the positions D.
Without(s, D) == FlattenSeq([k \in DOMAIN s |-> IF k \in D THEN <<>> ELSE <<s[k]>>])

\* <[^>]+>: from a "<" to the first ">" after it, with something in between.
Tags(s) ==
    {k \in DOMAIN s : \E i \in 1 .. k, j \in k .. Len(s) :
        /\ s[i] = "<" /\ s[j] = ">" /\ i + 1 < j
        /\ \A m \in i + 1 .. j - 1 : s[m] # ">"}

ChunkInit ==
    /\ \E r \in ResourceTexts :
            /\ kind = r[1]
            /\ text = IF r[1] = "prose" THEN Without(r[2], Tags(r[2])) ELSE r[2]
    /\ at = 1 /\ current = <<>> /\ size = 0 /\ buffer = <<>> /\ chunks = <<>>
    /\ chunked = FALSE

-----------------------------------------------------------------------------
White == {"newline", "space"}
Positions == DOMAIN text
Newline(k) == text[k] = "newline"

\* An empty line ends before it begins.
Spans == {u \in (1 .. Len(text) + 1) \X (0 .. Len(text)) : u[1] <= u[2] + 1}

Size(u) == u[2] - u[1] + 1
Characters(u) == SubSeq(text, u[1], u[2])

\* sep.join(...)
Join(s, sep) ==
    FlattenSeq([i \in DOMAIN s |-> IF i = 1 THEN Characters(s[i]) ELSE sep \o Characters(s[i])])

Paragraphs(s) == Join(s, <<"newline", "newline">>)
Lines(s) == Join(s, <<"newline">>)

\* Mutant: one character too many.
LastOnesAndOne(s, n) == SubSeq(s, (IF Len(s) > n THEN Len(s) - n - 1 ELSE 0) + 1, Len(s))

\* s[-n:]
LastOnes(s, n) == SubSeq(s, (IF Len(s) > n THEN Len(s) - n ELSE 0) + 1, Len(s))

Chunk(units, overlap) == [units |-> units, overlap |-> overlap]

TextOf(c) ==
    CASE kind = "prose" -> Paragraphs(c.units) \o
                           (IF c.overlap = <<>> THEN <<>> ELSE <<"newline">> \o c.overlap)
      [] kind = "code" -> Lines(c.units)
      [] OTHER -> Characters(c.units[1])

\* if c.strip(), asked before the chunk is kept.
Kept(c) == IF Range(TextOf(c)) \subseteq White THEN <<>> ELSE <<c>>

-----------------------------------------------------------------------------
\* text.split("\n\n")
Apart(i, j) == \E k \in i .. j - 1 : Newline(k) /\ Newline(k + 1)

\* The next paragraph that is not blank, stripped.
NextParagraph ==
    {u \in (at .. Len(text)) \X (at .. Len(text)) :
        /\ u[1] <= u[2] /\ ~Apart(u[1], u[2])
        /\ text[u[1]] \notin White /\ text[u[2]] \notin White
        /\ \A k \in at .. u[1] - 1 : text[k] \in White
        /\ \A k \in u[2] + 1 .. Len(text) : text[k] \in White \/ Apart(u[2], k)}

\* Mutant: what the overlap takes is not counted.
FitsWithoutOverlap(u) == size + Size(u) < Target

Fits(u) == size + Size(u) + Len(buffer) < Target

AddParagraph ==
    /\ kind = "prose" /\ ~chunked
    /\ \E u \in NextParagraph :
            /\ Fits(u)
            /\ current' = Append(current, u)
            /\ size' = size + Size(u)
            /\ at' = u[2] + 1
    /\ UNCHANGED <<kind, text, buffer, chunks, chunked>>

\* The new overlap ends with the paragraph that begins the next chunk.
NextChunk ==
    /\ kind = "prose" /\ ~chunked
    /\ \E u \in NextParagraph :
            /\ ~Fits(u)
            /\ IF current = <<>> THEN UNCHANGED <<chunks, buffer>>
               ELSE /\ chunks' = chunks \o Kept(Chunk(current, buffer))
                    /\ buffer' = LastOnes(Paragraphs(current) \o <<"newline", "newline">>
                                              \o Characters(u), Overlap)
            /\ current' = <<u>>
            /\ size' = Size(u)
            /\ at' = u[2] + 1
    /\ UNCHANGED <<kind, text, chunked>>

-----------------------------------------------------------------------------
\* text.split("\n")
NextLine ==
    {u \in {at} \X (at - 1 .. Len(text)) :
        /\ \A k \in at .. u[2] : ~Newline(k)
        /\ u[2] + 1 \in Positions => Newline(u[2] + 1)}

\* line.strip().startswith(...)
Definition(u) ==
    \E k \in u[1] .. u[2] : text[k] = "def" /\ \A i \in u[1] .. k - 1 : text[i] \in White

\* A definition ends the chunk before it, a line that makes it too long the
\* one it is in.
CodeLine ==
    /\ kind = "code" /\ ~chunked
    /\ \E u \in NextLine :
        LET ends  == Definition(u) /\ Len(Lines(current)) > Least
            begun == Append(IF ends THEN <<>> ELSE current, u)
            long  == Len(Lines(begun)) > Most
        IN  /\ chunks' = chunks \o (IF ends THEN Kept(Chunk(current, <<>>)) ELSE <<>>)
                                \o (IF long THEN Kept(Chunk(begun, <<>>)) ELSE <<>>)
            /\ current' = IF long THEN <<>> ELSE begun
            /\ at' = u[2] + 2
    /\ UNCHANGED <<kind, text, size, buffer, chunked>>

-----------------------------------------------------------------------------
\* Nothing, or lines of comment, between i and c.
Comments(i, c) ==
    i = c \/ /\ i < c /\ text[i] = "comment" /\ Newline(c - 1)
             /\ \A k \in i .. c - 2 : Newline(k) => text[k + 1] = "comment"

\* Comments, CREATE TABLE, at least one character and the first ");".
Match(i, j) ==
    \E c \in i .. j - 2 :
        /\ Comments(i, c) /\ text[c] = "create" /\ text[j] = "close"
        /\ \A k \in c + 2 .. j - 1 : text[k] # "close"

Matching == {u \in (at .. Len(text)) \X (at .. Len(text)) : Match(u[1], u[2])}

\* findall: the leftmost match.
NextTable == {u \in Matching : \A v \in Matching : u[1] <= v[1]}

Table ==
    /\ kind = "schema" /\ ~chunked
    /\ \E u \in NextTable :
            /\ chunks' = chunks \o Kept(Chunk(<<u>>, <<>>))
            /\ at' = u[2] + 1
    /\ UNCHANGED <<kind, text, current, size, buffer, chunked>>

-----------------------------------------------------------------------------
NothingLeft ==
    CASE kind = "prose" -> NextParagraph = {}
      [] kind = "code" -> at > Len(text) + 1
      [] kind = "schema" -> Matching = {}

\* Mutant: the last chunk is forgotten.
ReturnForgets ==
    /\ kind # "none" /\ ~chunked /\ NothingLeft
    /\ chunked' = TRUE
    /\ UNCHANGED <<kind, text, at, current, size, buffer, chunks>>

\* What is left is the last chunk; a schema leaves nothing.
Return ==
    /\ kind # "none" /\ ~chunked /\ NothingLeft
    /\ chunks' = chunks \o (IF current = <<>> THEN <<>> ELSE Kept(Chunk(current, buffer)))
    /\ chunked' = TRUE
    /\ UNCHANGED <<kind, text, at, current, size, buffer>>

ChunkNext == AddParagraph \/ NextChunk \/ CodeLine \/ Table \/ Return

-----------------------------------------------------------------------------
Within(k, u) == u[1] <= k /\ k <= u[2]
InUnits(k, units) == \E n \in DOMAIN units : Within(k, units[n])

Ordered(units) == \A m, n \in DOMAIN units : m < n => units[m][2] < units[n][1]

\* What must not be lost.
Needed(k) ==
    IF kind = "schema"
    THEN text[k] = "create" /\ \E j \in Positions : k + 2 <= j /\ text[j] = "close"
    ELSE text[k] \notin White

\* Nothing of the text without its tags is lost or repeated, or changes its
\* place.  Prose and code: every character that is not white is in a chunk.  A
\* schema: a CREATE TABLE that is closed after it is in a chunk.  The units of
\* the chunks follow one another as in the text.
TextKept ==
    chunked =>
        /\ \A k \in Positions : Needed(k) => \E i \in DOMAIN chunks : InUnits(k, chunks[i].units)
        /\ \A i \in DOMAIN chunks : Ordered(chunks[i].units)
        /\ \A i, j \in DOMAIN chunks : i < j =>
                \A m \in DOMAIN chunks[i].units, n \in DOMAIN chunks[j].units :
                    chunks[i].units[m][2] < chunks[j].units[n][1]

\* How long the text of a chunk gets.  A prose chunk of n > 1 paragraphs is
\* longer than the target by the breaks between them at most, which current_size
\* leaves out, and the one before the overlap; a code chunk is too long by its
\* last line at most and goes on over a definition only after a short beginning.
ChunksAreSmall ==
    \A i \in DOMAIN chunks :
        LET c == chunks[i]
            before(k) == Len(Lines(SubSeq(c.units, 1, k - 1)))
        IN  /\ (kind = "prose" /\ Len(c.units) > 1) =>
                    Len(TextOf(c)) <= Target + 2 * (Len(c.units) - 1)
            /\ kind = "code" =>
                    /\ before(Len(c.units)) <= Most
                    /\ \A k \in 2 .. Len(c.units) :
                            Definition(c.units[k]) => before(k) <= Least

\* FR-014: one chunk per table.
OneTablePerChunk ==
    (chunked /\ kind = "schema") =>
        \A i \in DOMAIN chunks :
            Cardinality({k \in Positions : text[k] = "create" /\ InUnits(k, chunks[i].units)}) = 1

\* FR-014: a prose chunk overlaps with the one before it.
ChunksOverlap ==
    kind = "prose" => \A i \in 2 .. Len(chunks) :
        Len(chunks[i].overlap) > Size(chunks[i].units[1]) + 2
=============================================================================
