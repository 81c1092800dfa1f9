--------------------------- MODULE AgentWorkflow ---------------------------
(***************************************************************************)
(* AgentWorkflow.run for the workflows of one session: fetch the turns,    *)
(* recall layers 2 and 3 concurrently, promote the findings of the tool    *)
(* calls, start (and never await) the promotion and the storing of the     *)
(* output, checkpoint the turns.  An activity is tried by a worker; an     *)
(* attempt may fail, or be given up at its start_to_close_timeout while it *)
(* still runs and may act later.  The session is the register that         *)
(* SessionBuffer implements for payloads kept inline (SessionRegister).    *)
(* A workflow adds its turns as one element, and the arguments of a        *)
(* promotion are its number.  The signal hitl_response only sets a field   *)
(* of the result and is left out.                                          *)
(***************************************************************************)
EXTENDS Naturals, Sequences, FiniteSets

CONSTANTS
    Workflows,      \* executions of AgentWorkflow for the session
    Findings,       \* Findings[w]: number of tool calls that promote a text
    Given,          \* workflows started with a workflow_output
    AutoPromote     \* workflows whose manifest has promote_to_shared

ASSUME FindingsAssumption == Findings \in [Workflows -> Nat]
ASSUME SubsetsAssumption == Given \subseteq Workflows /\ AutoPromote \subseteq Workflows

Recalls == {"agent", "shared"}
Awaited == Recalls \cup {"fetch", "tool", "checkpoint"}
MaxAttempts == 2        \* maximum_attempts of every activity that is awaited

VARIABLES
    session,    \* the turns in Redis
    pc,         \* pc[w]: the activity w waits for, or how it ended
    existing,   \* existing[w]: existing_turns
    answers,    \* answers[w]: recalls that have returned
    found,      \* found[w]: a recall returned a memory
    tool,       \* tool[w]: tool calls done
    tries,      \* tries[w][a]: attempts that failed at a, which w awaits
    scheduled,  \* activities nobody awaits and no worker has taken
    running,    \* attempts nobody awaits, or awaits any more
    promoted,   \* findings in the shared memory: pairs of workflow and number
    remembered, \* workflows whose output is in the agent's memory
    landed,     \* history: workflows whose turns were ever written
    shown,      \* history: shown[w]: what a fetch owed w, landed and not excused
    excused     \* history: those that expired since, or that a workflow they were
                \* not owed to wrote over

local == <<existing, answers, found, tool, tries>>
effects == <<session, promoted, remembered, landed, excused>>
vars == <<effects, pc, local, scheduled, running, shown>>

Closed == {"done", "failed"}
NoTries == [a \in Awaited |-> 0]
Reset(w) == tries' = [tries EXCEPT ![w] = NoTries]

Init ==
    /\ session = <<>> /\ promoted = {} /\ remembered = {}
    /\ pc = [w \in Workflows |-> "idle"]
    /\ existing = [w \in Workflows |-> <<>>]
    /\ answers = [w \in Workflows |-> {}] /\ found = [w \in Workflows |-> FALSE]
    /\ tool = [w \in Workflows |-> 0]
    /\ tries = [w \in Workflows |-> NoTries]
    /\ scheduled = {} /\ running = {}
    /\ landed = {} /\ shown = [w \in Workflows |-> {}] /\ excused = {}

TurnsOf(s) == {s[i] : i \in DOMAIN s}

-----------------------------------------------------------------------------
\* What an attempt does to a store, whoever still waits for it.
\* Mutant: the turns are appended to those the session holds by now.
CheckpointAppends(w) ==
    /\ session' = Append(session, w)
    /\ landed' = landed \cup {w}
    /\ UNCHANGED <<excused, promoted, remembered>>

Checkpoint(w) ==
    /\ session' = Append(existing[w], w)
    /\ landed' = landed \cup {w}
    /\ excused' = (excused \cup (landed \ shown[w])) \ {w}
    /\ UNCHANGED <<promoted, remembered>>

Promote(w, n) ==
    /\ promoted' = promoted \cup {<<w, n>>}
    /\ UNCHANGED <<session, landed, excused, remembered>>

Remember(w) ==
    /\ remembered' = remembered \cup {w}
    /\ UNCHANGED <<session, landed, excused, promoted>>

Act(e) ==
    \/ e[1] = "checkpoint" /\ Checkpoint(e[2])
    \/ e[1] = "tool" /\ Promote(e[2], e[3])
    \/ e[1] = "store" /\ Remember(e[2])

\* What the activity that w awaits would do, with its number of the attempt.
Attempt(w) == <<pc[w], w, IF pc[w] = "tool" THEN tool[w] + 1 ELSE 0, tries[w][pc[w]]>>

-----------------------------------------------------------------------------
\* A workflow that closes takes its activities back that no worker has begun.
Goto(w, step) ==
    /\ pc' = [pc EXCEPT ![w] = step]
    /\ scheduled' = IF step \in Closed THEN {e \in scheduled : e[2] # w} ELSE scheduled

Start(w) ==
    /\ pc[w] = "idle"
    /\ Goto(w, "fetch")
    /\ UNCHANGED <<effects, local, running, shown>>

Fetch(w) ==
    /\ pc[w] = "fetch"
    /\ existing' = [existing EXCEPT ![w] = session]
    /\ shown' = [shown EXCEPT ![w] = landed \ excused]
    /\ Goto(w, "recall")
    /\ Reset(w)
    /\ UNCHANGED <<effects, answers, found, tool, running>>

\* asyncio.gather: the workflow goes on when both have returned.
Recall(w, l) ==
    /\ pc[w] = "recall" /\ l \notin answers[w]
    /\ answers' = [answers EXCEPT ![w] = @ \cup {l}]
    /\ \E some \in BOOLEAN : found' = [found EXCEPT ![w] = @ \/ some]
    /\ UNCHANGED <<effects, pc, existing, tool, tries, scheduled, running, shown>>

\* The output is composed from memory.text.  An activity called by its name has
\* no result type, so that a memory is a dict: the expression raises, Temporal
\* fails the workflow task, and tries the same task again for good.
Compose(w) ==
    /\ pc[w] = "recall" /\ answers[w] = Recalls
    /\ Goto(w, IF found[w] /\ w \notin Given THEN "stuck" ELSE "tool")
    /\ Reset(w)
    /\ UNCHANGED <<effects, existing, answers, found, tool, running, shown>>

\* Mutant: a promotion is started, like the storing of the output.
CallToolLater(w) ==
    /\ pc[w] = "tool" /\ tool[w] < Findings[w]
    /\ tool' = [tool EXCEPT ![w] = @ + 1]
    /\ scheduled' = scheduled \cup {<<"tool", w, tool[w] + 1, 0>>}
    /\ UNCHANGED <<effects, pc, existing, answers, found, tries, running, shown>>

CallTool(w) ==
    /\ pc[w] = "tool" /\ tool[w] < Findings[w]
    /\ Promote(w, tool[w] + 1)
    /\ tool' = [tool EXCEPT ![w] = @ + 1]
    /\ Reset(w)
    /\ UNCHANGED <<pc, existing, answers, found, scheduled, running, shown>>

\* The automatic promotion is numbered 0.
Background(w) ==
    {<<"store", w, 0, 0>>} \cup (IF w \in AutoPromote THEN {<<"tool", w, 0, 0>>} ELSE {})

\* One workflow task starts what is not awaited and the checkpoint; when a
\* memory was recalled the turn of the assistant raises first, and nothing of
\* the task takes effect.
EndTools(w) ==
    /\ pc[w] = "tool" /\ tool[w] = Findings[w]
    /\ pc' = [pc EXCEPT ![w] = IF found[w] THEN "stuck" ELSE "checkpoint"]
    /\ scheduled' = IF found[w] THEN scheduled ELSE scheduled \cup Background(w)
    /\ UNCHANGED <<effects, local, running, shown>>

EndCheckpoint(w) ==
    /\ pc[w] = "checkpoint"
    /\ Checkpoint(w)
    /\ Goto(w, "done")
    /\ Reset(w)
    /\ UNCHANGED <<existing, answers, found, tool, running, shown>>

Waits(w, a) ==
    \/ a = "fetch" /\ pc[w] = "fetch"
    \/ a \in Recalls /\ pc[w] = "recall" /\ a \notin answers[w]
    \/ a = "tool" /\ pc[w] = "tool" /\ tool[w] < Findings[w]
    \/ a = "checkpoint" /\ pc[w] = "checkpoint"

\* Mutant: the activity is tried again without end.
AnotherTryAlways(w, a) ==
    /\ tries' = tries
    /\ UNCHANGED <<pc, scheduled>>

\* The last attempt fails the workflow, a recall's as well.
AnotherTry(w, a) ==
    /\ tries' = [tries EXCEPT ![w][a] = @ + 1]
    /\ IF tries[w][a] + 1 < MaxAttempts THEN UNCHANGED <<pc, scheduled>> ELSE Goto(w, "failed")

\* Mutant: a fetch that fails counts as an empty session.
AttemptFailsEmpty(w, a) ==
    /\ Waits(w, a)
    /\ IF a = "fetch"
       THEN /\ Goto(w, "recall") /\ shown' = [shown EXCEPT ![w] = landed \ excused]
            /\ UNCHANGED tries
       ELSE AnotherTry(w, a) /\ UNCHANGED shown
    /\ UNCHANGED <<effects, existing, answers, found, tool, running>>

\* The attempt raises before it has acted.
AttemptFails(w, a) ==
    /\ Waits(w, a)
    /\ AnotherTry(w, a)
    /\ UNCHANGED <<effects, existing, answers, found, tool, running, shown>>

\* The attempt is given up at its timeout, and has acted, or runs on.
TimesOut(w) ==
    /\ \E a \in {"tool", "checkpoint"} : Waits(w, a) /\ AnotherTry(w, a)
    /\ \/ Act(Attempt(w)) /\ UNCHANGED running
       \/ running' = running \cup {Attempt(w)} /\ UNCHANGED effects
    /\ UNCHANGED <<existing, answers, found, tool, shown>>

-----------------------------------------------------------------------------
\* A worker takes an activity that nobody awaits.
Take(e) ==
    /\ e \in scheduled
    /\ scheduled' = scheduled \ {e}
    /\ running' = running \cup {e}
    /\ UNCHANGED <<effects, pc, local, shown>>

\* An attempt acts.  One that fails, or is lost with its worker, stays.
Land(e) ==
    /\ e \in running
    /\ running' = running \ {e}
    /\ Act(e)
    /\ UNCHANGED <<pc, local, scheduled, shown>>

\* The keys of the session expire.
Expire ==
    /\ session # <<>>
    /\ session' = <<>>
    /\ excused' = excused \cup landed
    /\ UNCHANGED <<promoted, remembered, landed, pc, local, scheduled, running, shown>>

Step(w) ==
    \/ Fetch(w) \/ (\E l \in Recalls : Recall(w, l)) \/ Compose(w)
    \/ CallTool(w) \/ EndTools(w) \/ EndCheckpoint(w)
    \/ (\E a \in Awaited : AttemptFails(w, a)) \/ TimesOut(w)

Next ==
    \/ \E w \in Workflows : Start(w) \/ Step(w)
    \/ \E e \in scheduled : Take(e)
    \/ \E e \in running : Land(e)
    \/ Expire

Spec == Init /\ [][Next]_vars

\* A worker polls the queue, and every attempt ends or times out.
FairSpec == Spec /\ \A w \in Workflows : WF_vars(Step(w))

-----------------------------------------------------------------------------
Kinds == {"checkpoint", "tool", "store"}

TypeOK ==
    /\ session \in Seq(Workflows)
    /\ pc \in [Workflows -> Closed \cup {"idle", "fetch", "recall", "tool", "checkpoint", "stuck"}]
    /\ existing \in [Workflows -> Seq(Workflows)]
    /\ answers \in [Workflows -> SUBSET Recalls]
    /\ found \in [Workflows -> BOOLEAN]
    /\ tool \in [Workflows -> Nat]
    /\ \A w \in Workflows : tool[w] <= Findings[w]
    /\ tries \in [Workflows -> [Awaited -> 0 .. MaxAttempts]]
    /\ scheduled \subseteq Kinds \X Workflows \X Nat \X Nat
    /\ running \subseteq Kinds \X Workflows \X Nat \X Nat
    /\ promoted \subseteq Workflows \X Nat
    /\ remembered \subseteq Workflows /\ landed \subseteq Workflows
    /\ shown \in [Workflows -> SUBSET Workflows]
    /\ excused \subseteq Workflows

\* Whatever workflows overlap and whatever attempts are repeated or act late,
\* the turns of a workflow stand in the session once, right after exactly the
\* turns the workflow was shown.
InContext(s) ==
    \A i \in DOMAIN s : existing[s[i]] = SubSeq(s, 1, i - 1)
TurnsInContext == InContext(session)

\* Turns that were written are gone only if the session expired or a workflow
\* that had fetched before they were written wrote after.
LostOnlyByOverlap == landed \subseteq TurnsOf(session) \cup excused

\* A workflow that ends well has promoted the finding of every tool call.
FindingsPromoted ==
    \A w \in Workflows : pc[w] = "done" =>
        \A n \in 1 .. Findings[w] : <<w, n>> \in promoted

\* A workflow that recalled a memory checkpoints its turns, as every other,
\* unless it fails (agent_workflow.py, docstring of the class; FR-007).
RecalledIsCheckpointed ==
    \A w \in Workflows : found[w] ~> w \in landed \/ pc[w] = "failed"

\* A workflow ends, but for one whose recalls returned a memory.
EndsUnlessRecalled ==
    \A w \in Workflows :
        pc[w] = "fetch" ~> pc[w] \in Closed \/ (pc[w] = "stuck" /\ found[w])

\* A workflow ends.
EveryWorkflowEnds == \A w \in Workflows : pc[w] = "fetch" ~> pc[w] \in Closed

\* The output of a workflow that ends well is remembered, or an attempt at it
\* may still come (FR-001).
OutputOnItsWay ==
    \A w \in Workflows : pc[w] = "done" =>
        w \in remembered \/ <<"store", w, 0, 0>> \in scheduled \cup running

\* A recall that fails does not fail the workflow (FR-029).
RecallMayFail ==
    \A w \in Workflows, l \in Recalls : tries[w][l] = MaxAttempts => pc[w] # "failed"

\* The turns of a workflow that ended well are in the session until it expires.
TurnsKept == \A w \in Workflows : pc[w] = "done" => w \in TurnsOf(session)
=============================================================================
