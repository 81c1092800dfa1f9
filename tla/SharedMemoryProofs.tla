------------------------ MODULE SharedMemoryProofs ------------------------
(***************************************************************************)
(* Proofs about SharedMemory, for every set of findings and processes,     *)
(* every similarity relation and every deployment.                         *)
(***************************************************************************)
EXTENDS SharedMemory, TLAPS

LEMMA TypeStep == TypeOK /\ [Next]_vars => TypeOK'
<1> SUFFICES ASSUME TypeOK, [Next]_vars PROVE TypeOK'
    OBVIOUS
<1> USE NoneAssumption DEF TypeOK
<1>1. ASSUME NEW p \in Procs, NEW f \in Findings, NEW ch \in Channels,
             Promote(p, f, ch)
      PROVE  TypeOK'
    BY <1>1 DEF Promote, Route, Promotions
<1>2. ASSUME NEW p \in Procs, Duplicate(p) PROVE TypeOK'
    BY <1>2 DEF Duplicate, Answer
<1>3. ASSUME NEW p \in Procs, New(p) PROVE TypeOK'
    BY <1>3 DEF New
<1>4. ASSUME NEW p \in Procs, Upsert(p) PROVE TypeOK'
    BY <1>4 DEF Upsert, Answer, Promotions
<1>5. ASSUME NEW p \in Procs, Post(p) PROVE TypeOK'
    BY <1>5 DEF Post, Answer, Promotions
<1>6. ASSUME NEW p \in Procs, Fail(p) PROVE TypeOK'
  <2>1. job[p][1] \in Findings
    BY <1>6 DEF Fail, Promotions
  <2>2. points' \subseteq Findings /\ episodes' \subseteq Findings
    BY <1>6, <2>1 DEF Fail
  <2> QED
    BY <1>6, <2>2 DEF Fail
<1>7. CASE UNCHANGED vars
    BY <1>7 DEF vars
<1> QED
    BY <1>1, <1>2, <1>3, <1>4, <1>5, <1>6, <1>7 DEF Next

LEMMA TypeInit == Init => TypeOK
BY NoneAssumption DEF Init, TypeOK

\* Type correctness of both stores and of the promotions under way.
THEOREM SharedTypeCorrect == Spec => []TypeOK
BY TypeInit, TypeStep, PTL DEF Spec

-----------------------------------------------------------------------------
(***************************************************************************)
(* What is promoted can be found.  The strengthening: a promotion is at    *)
(* the store of its channel, and what was answered is kept there.          *)
(***************************************************************************)
ToGraphiti(ch) == setup.graphiti /\ ch # "mcp"

RightStore ==
    \A p \in Procs : pc[p] # "idle" => (pc[p] = "post" <=> ToGraphiti(job[p][2]))

Place(ch) == IF ToGraphiti(ch) THEN episodes ELSE points

Kept == \A entry \in promoted : \E g \in Place(entry[2]) : <<entry[1], g>> \in Similar

SearchInv == TypeOK /\ RightStore /\ Kept

\* The place of a channel after a step that leaves the deployment as it is.
Later(ch) == IF ToGraphiti(ch) THEN episodes' ELSE points'

\* Where channel and reader agree, the reader looks at the place of the channel.
LEMMA SearchedIsPlace ==
    ASSUME NEW ch, NEW reader \in Readers, Agree(ch, reader)
    PROVE  Searched(reader) = Place(ch)
BY DEF Readers, Agree, Searched, Asked, Place, ToGraphiti

\* An answer to a promotion that is found at its place keeps what is promoted.
LEMMA AnswerKeeps ==
    ASSUME SearchInv, NEW p \in Procs, Answer(p), UNCHANGED setup,
           points \subseteq points', episodes \subseteq episodes',
           \E g \in Later(job[p][2]) : <<job[p][1], g>> \in Similar
    PROVE  RightStore' /\ Kept'
<1>1. promoted' = promoted \cup {job[p]} /\ pc' = [pc EXCEPT ![p] = "idle"]
      /\ job' = [job EXCEPT ![p] = None]
    BY DEF Answer
<1>2. RightStore'
    BY <1>1 DEF SearchInv, RightStore, TypeOK, ToGraphiti
<1>3. ASSUME NEW CONSTANT entry, entry \in promoted'
      PROVE  \E g \in Place(entry[2])' : <<entry[1], g>> \in Similar
  <2>1. Place(entry[2])' = Later(entry[2]) /\ Place(entry[2]) \subseteq Later(entry[2])
      BY DEF Place, ToGraphiti, Later
  <2>2. CASE entry \in promoted
      BY <2>1, <2>2 DEF SearchInv, Kept
  <2>3. CASE entry = job[p]
      BY <2>1, <2>3
  <2> QED
      BY <1>1, <1>3, <2>2, <2>3
<1> QED
    BY <1>2, <1>3 DEF Kept

LEMMA SearchStep ==
    ASSUME SearchInv, [Next]_vars
    PROVE  SearchInv'
<1>a. TypeOK /\ RightStore /\ Kept /\ TypeOK'
    BY TypeStep DEF SearchInv
<1>b. \A f \in Findings : <<f, f>> \in Similar
    BY SimilarAssumption
<1>c. \A p \in Procs : pc[p] # "idle" => job[p][1] \in Findings /\ job[p][2] \in Channels
    BY <1>a, NoneAssumption DEF TypeOK, Promotions
<1> SUFFICES RightStore' /\ Kept'
    BY <1>a DEF SearchInv
<1> USE DEF Place, Later, ToGraphiti
<1>1. ASSUME NEW p \in Procs, NEW f \in Findings, NEW ch \in Channels, Promote(p, f, ch)
      PROVE  RightStore' /\ Kept'
  <2>1. RightStore'
    BY <1>1, <1>a DEF Promote, Route, RightStore, TypeOK
  <2>2. Kept'
    BY <1>1, <1>a DEF Promote, Kept
  <2> QED
    BY <2>1, <2>2
<1>2. ASSUME NEW p \in Procs, Duplicate(p)
      PROVE  RightStore' /\ Kept'
  <2>1. Answer(p) /\ UNCHANGED <<setup, points, episodes>> /\ pc[p] = "check"
    BY <1>2 DEF Duplicate
  <2>2. ~ToGraphiti(job[p][2]) /\ \E g \in points : <<job[p][1], g>> \in Similar
    BY <1>2, <1>a, <2>1 DEF Duplicate, IsDuplicate, RightStore
  <2>3. \E g \in Later(job[p][2]) : <<job[p][1], g>> \in Similar
    BY <2>1, <2>2
  <2> QED
    BY <2>1, <2>3, AnswerKeeps
<1>3. ASSUME NEW p \in Procs, New(p)
      PROVE  RightStore' /\ Kept'
    BY <1>3, <1>a DEF New, RightStore, Kept, TypeOK
<1>4. ASSUME NEW p \in Procs, Upsert(p)
      PROVE  RightStore' /\ Kept'
  <2>1. Answer(p) /\ UNCHANGED <<setup, episodes>> /\ points' = points \cup {job[p][1]}
        /\ pc[p] = "upsert"
    BY <1>4 DEF Upsert
  <2>2. ~ToGraphiti(job[p][2]) /\ <<job[p][1], job[p][1]>> \in Similar
    BY <1>a, <1>b, <1>c, <2>1 DEF RightStore
  <2>3. \E g \in Later(job[p][2]) : <<job[p][1], g>> \in Similar
    BY <2>1, <2>2
  <2> QED
    BY <2>1, <2>3, AnswerKeeps
<1>5. ASSUME NEW p \in Procs, Post(p)
      PROVE  RightStore' /\ Kept'
  <2>1. Answer(p) /\ UNCHANGED <<setup, points>> /\ episodes' = episodes \cup {job[p][1]}
        /\ pc[p] = "post"
    BY <1>5 DEF Post
  <2>2. ToGraphiti(job[p][2]) /\ <<job[p][1], job[p][1]>> \in Similar
    BY <1>a, <1>b, <1>c, <2>1 DEF RightStore
  <2>3. \E g \in Later(job[p][2]) : <<job[p][1], g>> \in Similar
    BY <2>1, <2>2
  <2> QED
    BY <2>1, <2>3, AnswerKeeps
<1>6. ASSUME NEW p \in Procs, Fail(p)
      PROVE  RightStore' /\ Kept'
  <2>1. /\ UNCHANGED <<setup, promoted>> /\ pc' = [pc EXCEPT ![p] = "idle"]
        /\ job' = [job EXCEPT ![p] = None]
    BY <1>6 DEF Fail
  <2>2. points \subseteq points' /\ episodes \subseteq episodes'
    BY <1>6 DEF Fail
  <2>3. Kept'
    BY <1>a, <2>1, <2>2 DEF Kept
  <2>4. RightStore'
    BY <1>a, <2>1 DEF RightStore, TypeOK
  <2> QED
    BY <2>3, <2>4
<1>7. CASE UNCHANGED vars
    BY <1>7, <1>a DEF vars, RightStore, Kept
<1> QED
    BY <1>1, <1>2, <1>3, <1>4, <1>5, <1>6, <1>7 DEF Next

\* In every deployment, Graphiti and every channel included, what was answered
\* can be found by each reader that is meant for the store of its channel.
THEOREM SharedSearchable == Spec => []PromotedIsSearchable
<1>1. Init => SearchInv
    BY TypeInit DEF Init, SearchInv, RightStore, Kept
<1>2. SearchInv => PromotedIsSearchable
    BY SearchedIsPlace DEF SearchInv, Kept, PromotedIsSearchable, Finds
<1>3. Spec => []SearchInv
    BY <1>1, SearchStep, PTL DEF Spec
<1> QED
    BY <1>2, <1>3, PTL

\* Without Graphiti, every reader finds everything that was answered.
COROLLARY SharedFoundByAll ==
    ASSUME \A s \in Setups : ~s.graphiti
    PROVE  Spec => [](FoundByAgents /\ FoundByServices)
<1>1. TypeOK /\ PromotedIsSearchable => FoundByAgents /\ FoundByServices
    BY DEF TypeOK, PromotedIsSearchable, Agree, Readers, FoundByAgents, FoundByServices
<1> QED
    BY <1>1, SharedTypeCorrect, SharedSearchable, PTL

-----------------------------------------------------------------------------
(***************************************************************************)
(* One entry per finding, for a single process.  The strengthening: what   *)
(* the process is about to upsert is near nothing in the collection.       *)
(***************************************************************************)
JobNew ==
    \A p \in Procs : pc[p] = "upsert" => \A g \in points : <<job[p][1], g>> \notin Similar

\* Only the processes of the deployment are ever in a call.
BusyInSetup == \A p \in Procs : pc[p] # "idle" => p \in setup.procs

Alone == \A p, q \in setup.procs : p = q

SingleInv == TypeOK /\ BusyInSetup /\ (Alone => JobNew /\ OneEntryPerFinding)

LEMMA BusyStep ==
    ASSUME TypeOK, BusyInSetup, [Next]_vars
    PROVE  BusyInSetup' /\ UNCHANGED setup
<1> USE DEF TypeOK, BusyInSetup
<1>1. ASSUME NEW p \in Procs, NEW f \in Findings,
             NEW ch \in Channels, Promote(p, f, ch)
      PROVE  BusyInSetup' /\ UNCHANGED setup
    BY <1>1 DEF Promote
<1>2. ASSUME NEW p \in Procs, New(p)
      PROVE  BusyInSetup' /\ UNCHANGED setup
    BY <1>2 DEF New
<1>3. ASSUME NEW p \in Procs, Duplicate(p) \/ Upsert(p) \/ Post(p) \/ Fail(p)
      PROVE  BusyInSetup' /\ UNCHANGED setup
    BY <1>3 DEF Duplicate, Upsert, Post, Fail, Answer
<1>4. CASE UNCHANGED vars
    BY <1>4 DEF vars
<1> QED
    BY <1>1, <1>2, <1>3, <1>4 DEF Next

LEMMA SingleStep ==
    ASSUME SingleInv, [Next]_vars
    PROVE  SingleInv'
<1>a. TypeOK /\ BusyInSetup /\ TypeOK' /\ BusyInSetup' /\ UNCHANGED setup
    BY TypeStep, BusyStep DEF SingleInv
<1> SUFFICES ASSUME Alone PROVE JobNew' /\ OneEntryPerFinding'
    BY <1>a DEF SingleInv, Alone
<1>b. JobNew /\ OneEntryPerFinding
    BY DEF SingleInv
<1>c. \A p \in Procs, q \in setup.procs : pc'[p] # "idle" => p = q
    BY <1>a DEF BusyInSetup, Alone
<1>1. ASSUME NEW p \in Procs, pc[p] = "upsert", points' = points \cup {job[p][1]},
             pc' = [pc EXCEPT ![p] = "idle"]
      PROVE  JobNew' /\ OneEntryPerFinding'
  <2>1. job[p][1] \in Findings /\ \A g \in points : <<job[p][1], g>> \notin Similar
    BY <1>1, <1>a, <1>b, NoneAssumption DEF JobNew, TypeOK, Promotions
  <2>2. \A g \in points : <<g, job[p][1]>> \notin Similar
    BY <2>1, <1>a, SimilarAssumption DEF TypeOK
  <2>3. OneEntryPerFinding'
    BY <1>1, <1>b, <2>1, <2>2 DEF OneEntryPerFinding
  <2>4. p \in setup.procs
    BY <1>1, <1>a DEF BusyInSetup
  <2>5. JobNew'
    BY <1>1, <1>a, <1>c, <2>4 DEF JobNew, TypeOK
  <2> QED
    BY <2>3, <2>5
<1>2. ASSUME NEW p \in setup.procs, points' = points, pc'[p] # "upsert"
      PROVE  JobNew' /\ OneEntryPerFinding'
  <2>1. \A q \in Procs : pc'[q] # "upsert"
    BY <1>2, <1>c
  <2> QED
    BY <1>2, <1>b, <2>1 DEF JobNew, OneEntryPerFinding
<1>3. ASSUME NEW p \in Procs, New(p)
      PROVE  JobNew' /\ OneEntryPerFinding'
    BY <1>3, <1>a, <1>b DEF New, IsDuplicate, JobNew, OneEntryPerFinding, TypeOK
<1>4. ASSUME NEW p \in Procs, NEW f \in Findings,
             NEW ch \in Channels, Promote(p, f, ch)
      PROVE  JobNew' /\ OneEntryPerFinding'
    BY <1>4, <1>a, <1>2 DEF Promote, Route, TypeOK
<1>5. ASSUME NEW p \in Procs, Duplicate(p) \/ Post(p)
      PROVE  JobNew' /\ OneEntryPerFinding'
    BY <1>5, <1>a, <1>2 DEF Duplicate, Post, Answer, TypeOK, BusyInSetup
<1>6. ASSUME NEW p \in Procs, Upsert(p)
      PROVE  JobNew' /\ OneEntryPerFinding'
    BY <1>6, <1>1 DEF Upsert, Answer
<1>7. ASSUME NEW p \in Procs, Fail(p)
      PROVE  JobNew' /\ OneEntryPerFinding'
  <2>1. /\ pc' = [pc EXCEPT ![p] = "idle"] /\ pc'[p] # "upsert"
        /\ p \in setup.procs
    BY <1>7, <1>a DEF Fail, TypeOK, BusyInSetup
  <2>2. CASE points' = points
    BY <2>1, <2>2, <1>2
  <2>3. CASE pc[p] = "upsert" /\ points' = points \cup {job[p][1]}
    BY <2>1, <2>3, <1>1
  <2> QED
    BY <1>7, <2>2, <2>3 DEF Fail
<1>8. CASE UNCHANGED vars
    BY <1>8, <1>b DEF vars, JobNew, OneEntryPerFinding
<1> QED
    BY <1>3, <1>4, <1>5, <1>6, <1>7, <1>8 DEF Next

\* Where a single process promotes, it never stores two near identical
\* findings, whatever fails.
THEOREM SharedDeduplicates == Spec => []OneEntryWhenAlone
<1>1. Init => SingleInv
    BY TypeInit DEF Init, SingleInv, BusyInSetup, JobNew, OneEntryPerFinding
<1>2. SingleInv /\ [Next]_vars => SingleInv'
    BY SingleStep
<1>3. SingleInv => OneEntryWhenAlone
    BY DEF SingleInv, Alone, OneEntryWhenAlone
<1> QED
    BY <1>1, <1>2, <1>3, PTL DEF Spec
=============================================================================
