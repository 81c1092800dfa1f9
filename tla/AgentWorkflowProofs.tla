------------------------ MODULE AgentWorkflowProofs ------------------------
(***************************************************************************)
(* Proofs about AgentWorkflow, for any number of workflows of a session    *)
(* and of tool calls, with attempts that fail, time out and act late.      *)
(***************************************************************************)
EXTENDS AgentWorkflow, SequenceTheorems, TLAPS

Events == scheduled \cup running

\* Who waits has tries left.
TriesLeft == \A w \in Workflows : pc[w] # "failed" =>
                \A a \in Awaited : tries[w][a] < MaxAttempts

TypeInv == TypeOK /\ TriesLeft

LEMMA TypeInit == Init => TypeInv
BY FindingsAssumption, EmptySeq DEF Init, TypeInv, TypeOK, TriesLeft, NoTries, MaxAttempts

\* Going to a step, at which no attempt has failed yet.
LEMMA TypeAdvance ==
    ASSUME TypeInv, NEW w \in Workflows, Reset(w),
           NEW step \in {"recall", "tool", "stuck", "done"}, Goto(w, step)
    PROVE  /\ pc' \in [Workflows -> Closed \cup
                       {"idle", "fetch", "recall", "tool", "checkpoint", "stuck"}]
           /\ tries' \in [Workflows -> [Awaited -> 0 .. MaxAttempts]]
           /\ scheduled' \subseteq scheduled
           /\ TriesLeft'
BY DEF TypeInv, TypeOK, TriesLeft, Reset, Goto, NoTries, MaxAttempts, Closed

LEMMA TriesOf ==
    ASSUME TypeInv, NEW w \in Workflows, NEW a \in Awaited
    PROVE  tries[w][a] \in 0 .. MaxAttempts
<1>1. tries[w] \in [Awaited -> 0 .. MaxAttempts]
    BY DEF TypeInv, TypeOK
<1> QED
    BY <1>1

\* A failed attempt leaves tries, or ends the workflow.
LEMMA TypeAnotherTry ==
    ASSUME TypeInv, NEW w \in Workflows, NEW a \in Awaited, Waits(w, a), AnotherTry(w, a)
    PROVE  /\ pc' \in [Workflows -> Closed \cup
                       {"idle", "fetch", "recall", "tool", "checkpoint", "stuck"}]
           /\ pc' \in {pc, [pc EXCEPT ![w] = "failed"]}
           /\ tries' \in [Workflows -> [Awaited -> 0 .. MaxAttempts]]
           /\ scheduled' \subseteq scheduled
           /\ TriesLeft'
<1>1. tries[w][a] \in Nat /\ tries[w][a] < MaxAttempts
  <2>1. pc[w] # "failed"
      BY DEF Waits
  <2> QED
      BY <2>1, TriesOf DEF TypeInv, TriesLeft, MaxAttempts
<1>2. tries' \in [Workflows -> [Awaited -> 0 .. MaxAttempts]]
    BY <1>1 DEF TypeInv, TypeOK, AnotherTry, MaxAttempts
<1>3. CASE tries[w][a] + 1 < MaxAttempts
    BY <1>1, <1>2, <1>3 DEF TypeInv, TypeOK, TriesLeft, AnotherTry, MaxAttempts
<1>4. CASE ~ (tries[w][a] + 1 < MaxAttempts)
    BY <1>1, <1>2, <1>4 DEF TypeInv, TypeOK, TriesLeft, AnotherTry, Goto, Closed
<1> QED
    BY <1>3, <1>4

\* What the effects of an attempt look like.
LEMMA TypeAct ==
    ASSUME TypeInv, NEW e \in Kinds \X Workflows \X Nat \X Nat, Act(e)
    PROVE  /\ session' \in Seq(Workflows)
           /\ promoted' \subseteq Workflows \X Nat
           /\ remembered' \subseteq Workflows /\ landed' \subseteq Workflows
           /\ excused' \subseteq Workflows
<1>1. e[2] \in Workflows /\ e[3] \in Nat
    OBVIOUS
<1>2. CASE Checkpoint(e[2])
  <2>1. Append(existing[e[2]], e[2]) \in Seq(Workflows)
      BY <1>1, AppendProperties DEF TypeInv, TypeOK
  <2> QED
      BY <1>1, <1>2, <2>1 DEF Checkpoint, TypeInv, TypeOK
<1>3. CASE Promote(e[2], e[3])
    BY <1>1, <1>3 DEF Promote, TypeInv, TypeOK
<1>4. CASE Remember(e[2])
    BY <1>1, <1>4 DEF Remember, TypeInv, TypeOK
<1> QED
    BY <1>2, <1>3, <1>4 DEF Act

LEMMA AttemptTyped ==
    ASSUME TypeInv, NEW w \in Workflows, pc[w] \in {"tool", "checkpoint"}
    PROVE  Attempt(w) \in Kinds \X Workflows \X Nat \X Nat
<1>1. tries[w][pc[w]] \in Nat
    BY TriesOf DEF Awaited, MaxAttempts
<1>2. tool[w] \in Nat
    BY DEF TypeInv, TypeOK
<1> QED
    BY <1>1, <1>2 DEF Attempt, Kinds

LEMMA TypeStep == TypeInv /\ [Next]_vars => TypeInv'
<1> SUFFICES ASSUME TypeInv, [Next]_vars PROVE TypeInv'
    OBVIOUS
<1> USE DEF effects, local
<1>1. ASSUME NEW w \in Workflows, Start(w) PROVE TypeInv'
    BY <1>1 DEF Start, Goto, Closed, TypeInv, TypeOK, TriesLeft
<1>2. ASSUME NEW w \in Workflows, Fetch(w) PROVE TypeInv'
    BY <1>2, TypeAdvance DEF Fetch, TypeInv, TypeOK, TriesLeft
<1>3. ASSUME NEW w \in Workflows, NEW l \in Recalls, Recall(w, l) PROVE TypeInv'
  <2>1. answers' \in [Workflows -> SUBSET Recalls]
      BY <1>3 DEF Recall, TypeInv, TypeOK
  <2>2. found' \in [Workflows -> BOOLEAN]
      BY <1>3 DEF Recall, TypeInv, TypeOK
  <2> QED
      BY <1>3, <2>1, <2>2 DEF Recall, TypeInv, TypeOK, TriesLeft
<1>4. ASSUME NEW w \in Workflows, Compose(w) PROVE TypeInv'
    BY <1>4, TypeAdvance DEF Compose, TypeInv, TypeOK, TriesLeft
<1>5. ASSUME NEW w \in Workflows, CallTool(w) PROVE TypeInv'
  <2>1. tool[w] \in Nat /\ Findings[w] \in Nat
      BY FindingsAssumption DEF TypeInv, TypeOK
  <2>3. tool[w] < Findings[w]
      BY <1>5 DEF CallTool
  <2>2. tries' \in [Workflows -> [Awaited -> 0 .. MaxAttempts]] /\ TriesLeft'
      BY <1>5 DEF CallTool, Reset, NoTries, MaxAttempts, TypeInv, TypeOK, TriesLeft
  <2>4. tool' \in [Workflows -> Nat] /\ \A v \in Workflows : tool'[v] <= Findings[v]
      BY <1>5, <2>1, <2>3 DEF CallTool, TypeInv, TypeOK
  <2>5. promoted' \subseteq Workflows \X Nat
      BY <1>5, <2>1 DEF CallTool, Promote, TypeInv, TypeOK
  <2> QED
      BY <1>5, <2>2, <2>4, <2>5 DEF CallTool, Promote, TypeInv, TypeOK
<1>6. ASSUME NEW w \in Workflows, EndTools(w) PROVE TypeInv'
    BY <1>6 DEF EndTools, Background, Kinds, Closed, TypeInv, TypeOK, TriesLeft
<1>7. ASSUME NEW w \in Workflows, EndCheckpoint(w) PROVE TypeInv'
  <2>1. Append(existing[w], w) \in Seq(Workflows)
      BY AppendProperties DEF TypeInv, TypeOK
  <2> QED
      BY <1>7, <2>1, TypeAdvance DEF EndCheckpoint, Checkpoint, TypeInv, TypeOK, TriesLeft
<1>8. ASSUME NEW w \in Workflows, NEW a \in Awaited, AttemptFails(w, a) PROVE TypeInv'
    BY <1>8, TypeAnotherTry DEF AttemptFails, TypeInv, TypeOK
<1>9. ASSUME NEW w \in Workflows, TimesOut(w) PROVE TypeInv'
  <2>1. PICK a \in {"tool", "checkpoint"} : Waits(w, a) /\ AnotherTry(w, a)
      BY <1>9 DEF TimesOut
  <2>2. a \in Awaited /\ pc[w] \in {"tool", "checkpoint"}
      BY <2>1 DEF Awaited, Waits, Recalls
  <2>3. Attempt(w) \in Kinds \X Workflows \X Nat \X Nat
      BY <2>2, AttemptTyped
  <2>4. CASE Act(Attempt(w)) /\ UNCHANGED running
      BY <1>9, <2>1, <2>2, <2>3, <2>4, TypeAct, TypeAnotherTry DEF TimesOut, TypeInv, TypeOK
  <2>5. CASE running' = running \cup {Attempt(w)} /\ UNCHANGED effects
      BY <1>9, <2>1, <2>2, <2>3, <2>5, TypeAnotherTry DEF TimesOut, TypeInv, TypeOK
  <2> QED
      BY <1>9, <2>4, <2>5 DEF TimesOut
<1>10. ASSUME NEW e \in scheduled, Take(e) PROVE TypeInv'
    BY <1>10 DEF Take, TypeInv, TypeOK, TriesLeft
<1>11. ASSUME NEW e \in running, Land(e) PROVE TypeInv'
    BY <1>11, TypeAct DEF Land, TypeInv, TypeOK, TriesLeft
<1>12. CASE Expire
    BY <1>12, EmptySeq DEF Expire, TypeInv, TypeOK, TriesLeft
<1>13. CASE UNCHANGED vars
    BY <1>13 DEF vars, TypeInv, TypeOK, TriesLeft
<1> QED
    BY <1>1, <1>2, <1>3, <1>4, <1>5, <1>6, <1>7, <1>8, <1>9, <1>10, <1>11, <1>12, <1>13
    DEF Next, Step

\* Every variable has its type, and no activity is tried more often than its
\* retry policy allows.
THEOREM AgentTypeCorrect == Spec => []TypeOK
<1>1. TypeInv => TypeOK
    BY DEF TypeInv
<1> QED
    BY <1>1, TypeInit, TypeStep, PTL DEF Spec

-----------------------------------------------------------------------------
Early(w) == pc[w] \in {"idle", "fetch", "recall"}

\* A workflow whose recalls are not over has done nothing, and nothing is
\* under way for it.
NothingEarly == \A w \in Workflows : Early(w) =>
    /\ w \notin landed \cup remembered /\ <<w, 0>> \notin promoted
    /\ \A e \in Events : e[2] # w

\* What is held or shown as a session was one.
Sessions == {session} \cup {existing[w] : w \in Workflows}
Contexts == \A s \in Sessions : InContext(s) /\ TurnsOf(s) \subseteq landed

\* A workflow holds the turns it was owed.
HoldsShown == \A w \in Workflows : shown[w] \subseteq TurnsOf(existing[w])

\* The tool calls done so far have promoted their findings.
Promoting ==
    /\ \A w \in Workflows, n \in Nat : 1 <= n /\ n <= tool[w] => <<w, n>> \in promoted
    /\ \A w \in Workflows : pc[w] \in {"checkpoint", "done"} => tool[w] = Findings[w]

IInv ==
    TypeInv /\ NothingEarly /\ Contexts /\ HoldsShown /\ LostOnlyByOverlap
            /\ Promoting

LEMMA InvInit == Init => IInv
<1> SUFFICES ASSUME Init PROVE IInv
    OBVIOUS
<1> USE DEF Init
<1>1. TypeInv
    BY TypeInit
<1>2. NothingEarly /\ Promoting
    BY DEF NothingEarly, Early, Events, Promoting
<1>3. Contexts /\ HoldsShown /\ LostOnlyByOverlap
    BY DEF Contexts, Sessions, InContext, TurnsOf, HoldsShown, LostOnlyByOverlap
<1> QED
    BY <1>1, <1>2, <1>3 DEF IInv

-----------------------------------------------------------------------------
\* An attempt that acts is one of a workflow past its recalls.
LEMMA ActOf ==
    ASSUME IInv, NEW e \in Kinds \X Workflows \X Nat \X Nat, Act(e),
           \/ e \in running
           \/ \E w \in Workflows : e = Attempt(w) /\ pc[w] \in {"tool", "checkpoint"}
    PROVE  e[2] \in Workflows /\ ~ Early(e[2])
<1>1. e[2] \in Workflows
    OBVIOUS
<1>2. CASE e \in running
    BY <1>1, <1>2 DEF IInv, NothingEarly, Events
<1>3. ASSUME NEW w \in Workflows, e = Attempt(w), pc[w] \in {"tool", "checkpoint"}
      PROVE  ~ Early(e[2])
    BY <1>3 DEF Attempt, Early
<1> QED
    BY <1>1, <1>2, <1>3

\* What a step can do to the session and to what is told of it.
LEMMA SessionSteps ==
    ASSUME IInv, [Next]_vars
    PROVE  \/ \E w \in Workflows :
                /\ ~ Early(w)
                /\ Checkpoint(w) /\ UNCHANGED <<existing, shown>>
           \/ \E w \in Workflows : Fetch(w)
           \/ Expire
           \/ UNCHANGED <<session, existing, landed, excused, shown>>
<1> DEFINE Goal ==
        \/ \E w \in Workflows :
                /\ ~ Early(w)
                /\ Checkpoint(w) /\ UNCHANGED <<existing, shown>>
        \/ UNCHANGED <<session, existing, landed, excused, shown>>
<1> USE DEF effects, local
<1>1. ASSUME NEW w \in Workflows, EndCheckpoint(w) PROVE Goal
    BY <1>1 DEF EndCheckpoint, Early
<1>2. ASSUME NEW e \in Kinds \X Workflows \X Nat \X Nat, Act(e), UNCHANGED <<existing, shown>>,
             \/ e \in running
             \/ \E w \in Workflows : e = Attempt(w) /\ pc[w] \in {"tool", "checkpoint"}
      PROVE  Goal
  <2>1. e[2] \in Workflows /\ ~ Early(e[2])
      BY <1>2, ActOf
  <2> QED
      BY <1>2, <2>1 DEF Act, Promote, Remember
<1>3. ASSUME NEW w \in Workflows, TimesOut(w) PROVE Goal
  <2>1. pc[w] \in {"tool", "checkpoint"}
      BY <1>3 DEF TimesOut, Waits, Recalls
  <2>2. Attempt(w) \in Kinds \X Workflows \X Nat \X Nat
      BY <2>1, AttemptTyped DEF IInv
  <2>3. UNCHANGED <<existing, shown>> /\ (Act(Attempt(w)) \/ UNCHANGED effects)
      BY <1>3 DEF TimesOut
  <2> QED
      BY <1>2, <2>1, <2>2, <2>3
<1>4. ASSUME NEW e \in running, Land(e) PROVE Goal
    BY <1>2, <1>4 DEF Land, IInv, TypeInv, TypeOK
<1>5. ASSUME NEW w \in Workflows, CallTool(w) PROVE Goal
    BY <1>5 DEF CallTool, Promote
<1>6. ASSUME NEW w \in Workflows,
             Start(w) \/ (\E l \in Recalls : Recall(w, l)) \/ Compose(w) \/ EndTools(w)
             \/ (\E a \in Awaited : AttemptFails(w, a))
      PROVE  Goal
    BY <1>6 DEF Start, Recall, Compose, EndTools, AttemptFails
<1>7. ASSUME NEW e \in scheduled, Take(e) PROVE Goal
    BY <1>7 DEF Take
<1>8. CASE UNCHANGED vars
    BY <1>8 DEF vars
<1> QED
    BY <1>1, <1>3, <1>4, <1>5, <1>6, <1>7, <1>8 DEF Next, Step

\* A workflow's turns after what it holds stand in the context of what it holds.
LEMMA AppendInContext ==
    ASSUME NEW s \in Seq(Workflows), InContext(s), NEW w \in Workflows, existing[w] = s
    PROVE  InContext(Append(s, w)) /\ TurnsOf(Append(s, w)) = TurnsOf(s) \cup {w}
<1>1. /\ Len(s) \in Nat /\ DOMAIN s = 1 .. Len(s)
      /\ DOMAIN Append(s, w) = 1 .. Len(s) + 1
      /\ \A i \in 1 .. Len(s) : Append(s, w)[i] = s[i]
      /\ Append(s, w)[Len(s) + 1] = w
    BY AppendProperties, LenProperties
<1>2. ASSUME NEW i \in DOMAIN Append(s, w)
      PROVE  existing[Append(s, w)[i]] = SubSeq(Append(s, w), 1, i - 1)
  <2>1. CASE i \in 1 .. Len(s)
    <3>1. SubSeq(Append(s, w), 1, i - 1) = SubSeq(s, 1, i - 1)
        BY <1>1, <2>1
    <3> QED
        BY <1>1, <2>1, <3>1 DEF InContext
  <2>2. CASE i = Len(s) + 1
    <3>1. SubSeq(Append(s, w), 1, Len(s)) = s
        BY <1>1
    <3> QED
        BY <1>1, <2>2, <3>1
  <2> QED
      BY <1>1, <2>1, <2>2
<1> QED
    BY <1>1, <1>2 DEF InContext, TurnsOf

LEMMA SessionStep ==
    ASSUME IInv, [Next]_vars
    PROVE  Contexts' /\ HoldsShown' /\ LostOnlyByOverlap'
<1> USE DEF IInv
<1>1. ASSUME NEW w \in Workflows, ~ Early(w), Checkpoint(w), UNCHANGED <<existing, shown>>
      PROVE  Contexts' /\ HoldsShown' /\ LostOnlyByOverlap'
  <2>1. existing[w] \in Seq(Workflows) /\ InContext(existing[w])
        /\ TurnsOf(existing[w]) \subseteq landed
      BY DEF TypeInv, TypeOK, Contexts, Sessions
  <2>2. InContext(session') /\ TurnsOf(session') = TurnsOf(existing[w]) \cup {w}
      BY <1>1, <2>1, AppendInContext DEF Checkpoint
  <2>3. Contexts'
    <3>1. landed' = landed \cup {w} /\ existing' = existing
        BY <1>1 DEF Checkpoint
    <3>2. InContext(session)' /\ TurnsOf(session)' \subseteq landed'
        BY <2>1, <2>2, <3>1 DEF InContext, TurnsOf
    <3>3. ASSUME NEW v \in Workflows
          PROVE  InContext(existing[v])' /\ TurnsOf(existing[v])' \subseteq landed'
      <4>1. InContext(existing[v]) /\ TurnsOf(existing[v]) \subseteq landed
          BY DEF Contexts, Sessions
      <4> QED
          BY <3>1, <4>1 DEF InContext, TurnsOf
    <3> QED
        BY <3>2, <3>3 DEF Contexts, Sessions
  <2>4. HoldsShown'
      BY <1>1 DEF HoldsShown, TurnsOf
  <2>5. LostOnlyByOverlap'
      BY <1>1, <2>2 DEF LostOnlyByOverlap, HoldsShown, Checkpoint, TurnsOf
  <2> QED
      BY <2>3, <2>4, <2>5
<1>2. ASSUME NEW w \in Workflows, Fetch(w)
      PROVE  Contexts' /\ HoldsShown' /\ LostOnlyByOverlap'
  <2>1. /\ w \notin landed
        /\ existing' = [existing EXCEPT ![w] = session]
        /\ shown' = [shown EXCEPT ![w] = landed \ excused]
        /\ UNCHANGED <<session, landed, excused>>
      BY <1>2 DEF Fetch, effects, NothingEarly, Early
  <2>2. existing' \in [Workflows -> Seq(Workflows)] /\ existing'[w] = session
      BY <2>1 DEF TypeInv, TypeOK
  <2>3. ASSUME NEW s \in Sessions' PROVE s \in Sessions
      BY <2>1, <2>2, <2>3 DEF Sessions, TypeInv, TypeOK
  <2>4. ASSUME NEW s \in Sessions PROVE InContext(s)' /\ TurnsOf(s) \subseteq landed'
    <3>1. InContext(s) /\ TurnsOf(s) \subseteq landed
        BY DEF Contexts
    <3>2. \A i \in DOMAIN s : s[i] # w
        BY <2>1, <3>1 DEF TurnsOf
    <3>3. \A i \in DOMAIN s : s[i] \in Workflows
        BY DEF Sessions, TypeInv, TypeOK
    <3>4. \A i \in DOMAIN s : existing'[s[i]] = existing[s[i]]
        BY <2>1, <3>2, <3>3 DEF TypeInv, TypeOK
    <3> QED
        BY <2>1, <3>1, <3>4 DEF InContext
  <2>5. Contexts'
      BY <2>3, <2>4 DEF Contexts, TurnsOf
  <2>6. HoldsShown'
      BY <2>1, <2>2 DEF HoldsShown, LostOnlyByOverlap, TurnsOf, TypeInv, TypeOK
  <2>7. LostOnlyByOverlap'
      BY <2>1 DEF LostOnlyByOverlap, TurnsOf
  <2> QED
      BY <2>5, <2>6, <2>7
<1>3. CASE Expire
    BY <1>3 DEF Expire, local, Contexts, Sessions, InContext, TurnsOf, HoldsShown, LostOnlyByOverlap
<1>4. CASE UNCHANGED <<session, existing, landed, excused, shown>>
    BY <1>4 DEF Contexts, Sessions, InContext, TurnsOf, HoldsShown, LostOnlyByOverlap
<1> QED
    BY <1>1, <1>2, <1>3, <1>4, SessionSteps

-----------------------------------------------------------------------------
\* The part of the invariant that is about each workflow by itself.
Each == NothingEarly /\ Promoting

\* An effect of a workflow past its recalls, while no workflow goes on to
\* a checkpoint and nothing new is under way but attempts of tool calls.
LEMMA EachAfterEffect ==
    ASSUME IInv, NEW e \in Kinds \X Workflows \X Nat \X Nat, Act(e),
           ~ Early(e[2]), UNCHANGED tool,
           \A w \in Workflows : pc'[w] = pc[w] \/ pc'[w] = "failed",
           Events' \subseteq Events
    PROVE  Each'
<1> USE DEF IInv
<1>1. /\ landed' \subseteq landed \cup {e[2]} /\ remembered' \subseteq remembered \cup {e[2]}
      /\ promoted \subseteq promoted' /\ promoted' \subseteq promoted \cup {<<e[2], e[3]>>}
    BY DEF Act, Checkpoint, Promote, Remember
<1>2. NothingEarly'
    BY <1>1 DEF NothingEarly, Early
<1>3. Promoting'
    BY <1>1 DEF Promoting
<1> QED
    BY <1>2, <1>3 DEF Each

LEMMA EachStep ==
    ASSUME IInv, [Next]_vars
    PROVE  Each'
<1> USE DEF effects, local, IInv
<1>1. ASSUME NEW w \in Workflows, Start(w) PROVE Each'
  <2>1. /\ pc[w] = "idle" /\ pc' = [pc EXCEPT ![w] = "fetch"] /\ Events' = Events
        /\ UNCHANGED <<landed, remembered, promoted, tool>>
      BY <1>1 DEF Start, Goto, Closed, Events
  <2> QED
      BY <2>1 DEF Each, NothingEarly, Early, Promoting, TypeInv, TypeOK
<1>2. ASSUME NEW w \in Workflows, Fetch(w) PROVE Each'
  <2>1. /\ pc[w] = "fetch" /\ pc' = [pc EXCEPT ![w] = "recall"] /\ Events' = Events
        /\ UNCHANGED <<landed, remembered, promoted, tool>>
      BY <1>2 DEF Fetch, Goto, Closed, Events
  <2> QED
      BY <2>1 DEF Each, NothingEarly, Early, Promoting, TypeInv, TypeOK
<1>3. ASSUME NEW w \in Workflows, NEW l \in Recalls, Recall(w, l) PROVE Each'
  <2>1. /\ pc[w] = "recall" /\ Events' = Events
        /\ UNCHANGED <<pc, landed, remembered, promoted, tool>>
      BY <1>3 DEF Recall, Events
  <2> QED
      BY <2>1 DEF Each, NothingEarly, Early, Promoting
<1>4. ASSUME NEW w \in Workflows, Compose(w) PROVE Each'
  <2>1. /\ pc[w] = "recall" /\ Events' = Events
        /\ pc' = [pc EXCEPT ![w] = "stuck"] \/ pc' = [pc EXCEPT ![w] = "tool"]
        /\ UNCHANGED <<landed, remembered, promoted, tool>>
      BY <1>4 DEF Compose, Goto, Closed, Events
  <2>2. pc'[w] \in {"stuck", "tool"} /\ \A v \in Workflows \ {w} : pc'[v] = pc[v]
      BY <2>1 DEF TypeInv, TypeOK
  <2>3. NothingEarly'
      BY <2>1, <2>2 DEF NothingEarly, Early
  <2>4. Promoting'
      BY <2>1, <2>2 DEF Promoting
  <2> QED
      BY <2>3, <2>4 DEF Each
<1>5. ASSUME NEW w \in Workflows, CallTool(w) PROVE Each'
  <2>1. /\ pc[w] = "tool" /\ Events' = Events /\ tool' = [tool EXCEPT ![w] = tool[w] + 1]
        /\ promoted' = promoted \cup {<<w, tool[w] + 1>>}
        /\ UNCHANGED <<pc, landed, remembered>>
      BY <1>5 DEF CallTool, Promote, Events
  <2>2. \A v \in Workflows : tool[v] \in Nat
      BY DEF TypeInv, TypeOK
  <2>3. \A v \in Workflows : <<v, 0>> \in promoted' => <<v, 0>> \in promoted
      BY <2>1, <2>2
  <2>4. NothingEarly'
      BY <2>1, <2>3 DEF NothingEarly, Early
  <2>5. \A v \in Workflows : tool'[v] = IF v = w THEN tool[w] + 1 ELSE tool[v]
      BY <2>1 DEF TypeInv, TypeOK
  <2>6. ASSUME NEW v \in Workflows, NEW n \in Nat, 1 <= n, n <= tool'[v]
        PROVE  <<v, n>> \in promoted'
    <3>1. CASE n <= tool[v]
        BY <2>1, <2>6, <3>1 DEF Promoting
    <3>2. CASE ~ (n <= tool[v])
      <4>1. v = w /\ n = tool[w] + 1
          BY <2>2, <2>5, <2>6, <3>2
      <4> QED
          BY <2>1, <4>1
    <3> QED
        BY <3>1, <3>2
  <2>7. \A v \in Workflows : pc'[v] \in {"checkpoint", "done"} => tool'[v] = Findings[v]
      BY <2>1, <2>5 DEF Promoting
  <2> QED
      BY <2>4, <2>6, <2>7 DEF Each, Promoting
<1>6. ASSUME NEW w \in Workflows, EndTools(w) PROVE Each'
  <2>1. /\ pc[w] = "tool" /\ tool[w] = Findings[w]
        /\ pc' = [pc EXCEPT ![w] = IF found[w] THEN "stuck" ELSE "checkpoint"]
        /\ Events' = IF found[w] THEN Events ELSE Events \cup Background(w)
        /\ UNCHANGED <<landed, remembered, promoted, tool>>
      BY <1>6 DEF EndTools, Events
  <2>2. \A e \in Background(w) : e[2] = w
      BY DEF Background
  <2>3. \A v \in Workflows \ {w} : pc'[v] = pc[v] /\ \A e \in Events' : e[2] = v => e \in Events
      BY <2>1, <2>2 DEF TypeInv, TypeOK
  <2>4. ~ Early(w) /\ ~ Early(w)' /\ pc'[w] # "done"
      BY <2>1 DEF Early, TypeInv, TypeOK
  <2>5. NothingEarly'
      BY <2>1, <2>3, <2>4 DEF NothingEarly, Early
  <2>6. Promoting'
      BY <2>1, <2>3 DEF Promoting
  <2> QED
      BY <2>5, <2>6 DEF Each
<1>7. ASSUME NEW w \in Workflows, EndCheckpoint(w) PROVE Each'
  <2>1. /\ pc[w] = "checkpoint" /\ pc' = [pc EXCEPT ![w] = "done"] /\ Events' \subseteq Events
        /\ landed' = landed \cup {w}
        /\ UNCHANGED <<remembered, promoted, tool>>
      BY <1>7 DEF EndCheckpoint, Checkpoint, Goto, Events
  <2>2. tool[w] = Findings[w]
      BY <2>1 DEF Promoting
  <2> QED
      BY <2>1, <2>2 DEF Each, NothingEarly, Early, Promoting, TypeInv, TypeOK
<1>8. ASSUME NEW w \in Workflows, NEW a \in Awaited, AttemptFails(w, a) PROVE Each'
  <2>1. pc' \in {pc, [pc EXCEPT ![w] = "failed"]} /\ scheduled' \subseteq scheduled
      BY <1>8, TypeAnotherTry DEF AttemptFails
  <2>2. Events' \subseteq Events /\ UNCHANGED <<landed, remembered, promoted, tool>>
      BY <1>8, <2>1 DEF AttemptFails, Events
  <2> QED
      BY <2>1, <2>2 DEF Each, NothingEarly, Early, Promoting, TypeInv, TypeOK
<1>9. ASSUME NEW w \in Workflows, TimesOut(w) PROVE Each'
  <2>1. PICK a \in {"tool", "checkpoint"} : Waits(w, a) /\ AnotherTry(w, a)
      BY <1>9 DEF TimesOut
  <2>2. a \in Awaited /\ pc[w] \in {"tool", "checkpoint"}
      BY <2>1 DEF Awaited, Waits, Recalls
  <2>3. pc' \in {pc, [pc EXCEPT ![w] = "failed"]} /\ scheduled' \subseteq scheduled
      BY <2>1, <2>2, TypeAnotherTry
  <2>4. \A v \in Workflows : pc'[v] = pc[v] \/ pc'[v] = "failed"
      BY <2>3 DEF TypeInv, TypeOK
  <2>5. Attempt(w) \in Kinds \X Workflows \X Nat \X Nat
      BY <2>2, AttemptTyped
  <2>6. UNCHANGED tool
      BY <1>9 DEF TimesOut
  <2>7. CASE Act(Attempt(w)) /\ UNCHANGED running
      BY <2>2, <2>3, <2>4, <2>5, <2>6, <2>7, ActOf, EachAfterEffect DEF Events
  <2>8. CASE running' = running \cup {Attempt(w)} /\ UNCHANGED effects
    <3>1. /\ Attempt(w)[1] = pc[w] /\ Attempt(w)[2] = w
          /\ Attempt(w)[3] = IF pc[w] = "tool" THEN tool[w] + 1 ELSE 0
        BY DEF Attempt
    <3>2. tool[w] \in Nat
        BY DEF TypeInv, TypeOK
    <3>4. Events' \subseteq Events \cup {Attempt(w)} /\ ~ Early(w)
        BY <2>2, <2>3, <2>8 DEF Events, Early
    <3>5. NothingEarly'
        BY <2>4, <2>8, <3>1, <3>4 DEF NothingEarly, Early
    <3>6. Promoting'
        BY <2>4, <2>6, <2>8 DEF Promoting
    <3> QED
        BY <3>5, <3>6 DEF Each
  <2> QED
      BY <1>9, <2>7, <2>8 DEF TimesOut
<1>10. ASSUME NEW e \in scheduled, Take(e) PROVE Each'
  <2>1. Events' = Events
      BY <1>10 DEF Take, Events
  <2> QED
      BY <1>10, <2>1 DEF Take, Each, NothingEarly, Early, Promoting
<1>11. ASSUME NEW e \in running, Land(e) PROVE Each'
  <2>1. e \in Kinds \X Workflows \X Nat \X Nat
      BY DEF TypeInv, TypeOK
  <2>2. Events' \subseteq Events
      BY <1>11 DEF Land, Events
  <2> QED
      BY <1>11, <2>1, <2>2, ActOf, EachAfterEffect DEF Land
<1>12. CASE Expire
    BY <1>12 DEF Expire, Each, NothingEarly, Early, Events, Promoting
<1>13. CASE UNCHANGED vars
    BY <1>13 DEF vars, Each, NothingEarly, Early, Events, Promoting
<1> QED
    BY <1>1, <1>2, <1>3, <1>4, <1>5, <1>6, <1>7, <1>8, <1>9, <1>10, <1>11, <1>12, <1>13
    DEF Next, Step

LEMMA InvStep == IInv /\ [Next]_vars => IInv'
<1> SUFFICES ASSUME IInv, [Next]_vars PROVE IInv'
    OBVIOUS
<1>1. TypeInv'
    BY TypeStep DEF IInv
<1> QED
    BY <1>1, SessionStep, EachStep DEF IInv, Each

-----------------------------------------------------------------------------
\* The turns of a workflow stand in the session once, right after exactly the
\* turns it was shown, whatever overlaps, is repeated or comes late.
THEOREM AgentTurnsInContext == Spec => []TurnsInContext
<1>1. IInv => TurnsInContext
    BY DEF IInv, Contexts, Sessions, TurnsInContext
<1> QED
    BY <1>1, InvInit, InvStep, PTL DEF Spec

\* Turns are lost only to the expiry of the session or to a workflow that had
\* fetched before they were written.
THEOREM AgentLosesOnlyByOverlap == Spec => []LostOnlyByOverlap
<1>1. IInv => LostOnlyByOverlap
    BY DEF IInv
<1> QED
    BY <1>1, InvInit, InvStep, PTL DEF Spec

\* A workflow that ends well has promoted the finding of every tool call.
THEOREM AgentPromotesFindings == Spec => []FindingsPromoted
<1>1. IInv => FindingsPromoted
    BY FindingsAssumption DEF IInv, Promoting, FindingsPromoted
<1> QED
    BY <1>1, InvInit, InvStep, PTL DEF Spec
=============================================================================
