---------------------------- MODULE MCTextSteps ----------------------------
(***************************************************************************)
(* Instance of TextSteps for TLC: the sizes of the chunker scaled down,    *)
(* every short text of a few symbols, and longer ones made of paragraphs   *)
(* and lines; batches of up to two texts whose matches lie side by side,   *)
(* overlap or coincide.                                                    *)
(***************************************************************************)
EXTENDS TextSteps

MCSymbols == {"x", "newline", "space", "<", ">", "def", "comment", "create", "close"}

TextsOf(symbols, n) == UNION {[1 .. m -> symbols] : m \in 0 .. n}

Plain(n) == [k \in 1 .. n |-> "x"]

\* Paragraphs of the given lengths.
Prose(lengths) ==
    FlattenSeq([i \in DOMAIN lengths |-> Plain(lengths[i]) \o <<"newline", "newline">>])

MCResourceTexts ==
    UNION {{"prose"} \X TextsOf({"x", "newline", "<", ">"}, 7),
           {"prose"} \X TextsOf({"x", "newline", "space"}, 7),
           {"prose"} \X {Prose(l) : l \in UNION {[1 .. m -> 1 .. 4] : m \in 1 .. 5}},
           {"code"} \X TextsOf({"x", "newline", "def"}, 8),
           {"code"} \X TextsOf({"space", "newline", "def"}, 6),
           {"schema"} \X TextsOf({"x", "newline", "comment", "create", "close"}, 6)}

MCCategories == {"PERSON", "LOCATION", "CREDIT_CARD", "SECRET"}

MCPlace ==
    [e \in MCCategories |->
        CASE e = "CREDIT_CARD" -> 3 [] e = "SECRET" -> 6 [] e = "PERSON" -> 11 [] e = "LOCATION" -> 12]

\* A replacement is longer than the shortest name and shorter than a number.
MCLength == [e \in MCCategories |-> IF e = "PERSON" THEN 2 ELSE 1]

\* The characters of a text differ, so that a trace shows which are gone.
Chars == <<"a", "b", "c", "d">>

MCLetters == Range(Chars) \cup Range(Sentinel)

Found == {f \in MCCategories \X (1 .. 4) \X (1 .. 4) : f[2] <= f[3] /\ f[3] <= f[2] + 2}

\* Three matches, of the length of their replacements or not.
Names == {f \in Found : f[1] # "SECRET" /\ f[3] = f[2] + 1}

\* No pattern matches twice at a place.
MCTexts ==
    {[chars |-> Chars, matches |-> M] : M \in
        {N \in UNION {{{}}, {{f, g} : f, g \in Found}, {{f, g, h} : f, g, h \in Names}} :
            \A f, g \in N : (f[1] = g[1] /\ f # g) => f[3] < g[2] \/ g[3] < f[2]}}

\* Two texts of which the second has a name at most.
Short ==
    {[chars |-> Chars, matches |-> {}], [chars |-> Chars, matches |-> {<<"PERSON", 1, 2>>}],
     [chars |-> Sentinel, matches |-> {}]}

MCBatches == UNION {{<<t>> : t \in MCTexts}, {<<t, u>> : t, u \in Short}}

MCOverrides == {<<>>, [c \in MCCategories |-> IF c = "PERSON" THEN "drop" ELSE "mask"]}
=============================================================================
