------------------------------ MODULE Registry ------------------------------
(***************************************************************************)
(* The connector registry as cmd/main.go builds it: MockQueries, a map     *)
(* without a lock from ids to pointers, and a Temporal client that is nil  *)
(* when Temporal did not answer at the start of the process.  A request is *)
(* a goroutine; its steps are its calls to the map and to Temporal and its *)
(* assignments to the connector, which every holder of the pointer sees.   *)
(* memory-api triggers a sync with a signal to Temporal (trigger_ingest).  *)
(* Requests that a handler refuses before its first call change nothing    *)
(* and are left out.                                                       *)
(***************************************************************************)
EXTENDS Naturals, FiniteSets, Functions

CONSTANTS
    Ids,        \* uuids
    Workspaces,
    Values,     \* values of a field
    Zero,       \* value of a field that was never set
    Bodies,     \* fields in the bodies of POST and PATCH
    Requests,   \* goroutines of the registry
    None

Columns == {"display_name", "config", "sync_schedule"}

\* What PATCH applies, and what POST reads from the body and does not store.
Patchable == {"display_name", "config"}
Omitted == {"sync_schedule"}

\* Values for some of the fields F.
Given(F) == UNION {[S -> Values] : S \in SUBSET F}

ASSUME ValuesAssumption == Zero \in Values
ASSUME BodiesAssumption == Bodies \subseteq Given(Columns)
ASSUME NoneAssumption == None \notin Workspaces \cup Ids

VARIABLES
    tc,         \* whether the Temporal client is not nil
    stored,     \* keys of the map
    object,     \* object[i]: what the pointer stored for i points to
    pc,         \* pc[r]: the step r is at
    ws,         \* ws[r]: X-Workspace-ID
    target,     \* target[r]: the connector r is about
    todo,       \* todo[r]: fields PATCH has not assigned yet
    runs,       \* runs[i]: the IngestionWorkflow of i, in Temporal
    acked,      \* history: connectors a client was answered 201 for, and not 204
    lost,       \* history: connectors that went with the process
    raced,      \* history: deleted while a PATCH was between its check and its write
    caller,     \* history: workspace of the request that last touched a connector
    refused     \* history: triggers that failed while the workflow was running

requests == <<pc, ws, target, todo>>
history == <<acked, lost, raced, caller, refused>>
vars == <<tc, stored, object, requests, runs, history>>

Connectors == [workspace_id : Workspaces \cup {None}, columns : [Columns -> Values]]
Blank == [workspace_id |-> None, columns |-> [f \in Columns |-> Zero]]

Init ==
    /\ tc \in BOOLEAN
    /\ stored = {} /\ object = [i \in Ids |-> Blank]
    /\ pc = [r \in Requests |-> "idle"]
    /\ ws = [r \in Requests |-> None] /\ target = [r \in Requests |-> None]
    /\ todo = [r \in Requests |-> <<>>]
    /\ runs = [i \in Ids |-> "none"]
    /\ acked = {} /\ lost = {} /\ raced = {} /\ caller = None /\ refused = {}

Begin(r, w, i, step, body) ==
    /\ pc[r] = "idle"
    /\ pc' = [pc EXCEPT ![r] = step]
    /\ ws' = [ws EXCEPT ![r] = w]
    /\ target' = [target EXCEPT ![r] = i]
    /\ todo' = [todo EXCEPT ![r] = body]

Goto(r, step) ==
    /\ pc' = [pc EXCEPT ![r] = step]
    /\ UNCHANGED <<ws, target, todo>>

End(r) ==
    /\ pc' = [pc EXCEPT ![r] = "idle"]
    /\ ws' = [ws EXCEPT ![r] = None]
    /\ target' = [target EXCEPT ![r] = None]
    /\ todo' = [todo EXCEPT ![r] = <<>>]

-----------------------------------------------------------------------------
\* POST.
Kept(body) ==
    [f \in Columns |-> IF f \in DOMAIN body /\ f \notin Omitted THEN body[f] ELSE Zero]

InsertConnector(r, w, i, body) ==
    /\ "display_name" \in DOMAIN body
    /\ object[i].workspace_id = None
    /\ Begin(r, w, i, "start", <<>>)
    /\ stored' = stored \cup {i}
    /\ object' = [object EXCEPT ![i] = [workspace_id |-> w, columns |-> Kept(body)]]
    /\ caller' = w
    /\ UNCHANGED <<tc, runs, acked, lost, raced, refused>>

\* Mutant: the connector is taken back when its workflow does not start.
StartRollsBack(r) ==
    /\ pc[r] = "start" /\ tc
    /\ \E started \in BOOLEAN :
        /\ runs' = IF started THEN [runs EXCEPT ![target[r]] = "running"] ELSE runs
        /\ stored' = IF started THEN stored ELSE stored \ {target[r]}
    /\ acked' = IF target[r] \in stored THEN acked \cup {target[r]} ELSE acked
    /\ End(r)
    /\ UNCHANGED <<tc, object, lost, raced, caller, refused>>

\* ExecuteWorkflow: the answer is 201 whether it fails or not, ...
StartIngestionWorkflow(r) ==
    /\ pc[r] = "start" /\ tc
    /\ \E started \in BOOLEAN :
        runs' = IF started THEN [runs EXCEPT ![target[r]] = "running"] ELSE runs
    /\ acked' = IF target[r] \in stored THEN acked \cup {target[r]} ELSE acked
    /\ End(r)
    /\ UNCHANGED <<tc, stored, object, lost, raced, caller, refused>>

\* ... and without a client its nil pointer panics: Recoverer answers 500.
StartPanics(r) ==
    /\ pc[r] = "start" /\ ~tc
    /\ End(r)
    /\ UNCHANGED <<tc, stored, object, runs, history>>

-----------------------------------------------------------------------------
\* Mutant: the workspace is not compared.
StatusCodeAnyone(w, i) == IF i \notin stored THEN 404 ELSE 200

\* GET, and the first lines of PATCH, DELETE and GET status: 404 when the map
\* has no such connector, 403 when it is another workspace's.
StatusCode(w, i) ==
    IF i \notin stored THEN 404 ELSE IF object[i].workspace_id # w THEN 403 ELSE 200

\* GET status: the value POST stored; nothing sets another.
SyncStatus(i) == "pending"

\* GET of the collection.
Listed(w) == {i \in stored : object[i].workspace_id = w}

PatchConnector(r, w, i, body) ==
    /\ StatusCode(w, i) = 200
    /\ Begin(r, w, i, "assign", Restrict(body, DOMAIN body \cap Patchable))
    /\ UNCHANGED <<tc, stored, object, runs, history>>

\* Mutant: a field that the body does not have is reset.
AssignEvery(r) ==
    /\ pc[r] = "assign"
    /\ \E f \in DOMAIN todo[r] :
        /\ object' = [object EXCEPT ![target[r]].columns =
                         [g \in Columns |-> IF g = f THEN todo[r][f] ELSE Zero]]
        /\ todo' = [todo EXCEPT ![r] = Restrict(@, DOMAIN @ \ {f})]
    /\ caller' = ws[r]
    /\ UNCHANGED <<tc, stored, pc, ws, target, runs, acked, lost, raced, refused>>

\* connector.DisplayName = ..., connector.Config = ...: in place.
Assign(r) ==
    /\ pc[r] = "assign"
    /\ \E f \in DOMAIN todo[r] :
        /\ f = "config" => "display_name" \notin DOMAIN todo[r]
        /\ object' = [object EXCEPT ![target[r]].columns[f] = todo[r][f]]
        /\ todo' = [todo EXCEPT ![r] = Restrict(@, DOMAIN @ \ {f})]
    /\ caller' = ws[r]
    /\ UNCHANGED <<tc, stored, pc, ws, target, runs, acked, lost, raced, refused>>

\* Mutant: UpdateConnector writes whether or not the id has a connector.
CheckNothing(r) ==
    /\ pc[r] = "assign" /\ DOMAIN todo[r] = {}
    /\ Goto(r, "write")
    /\ UNCHANGED <<tc, stored, object, runs, history>>

\* UpdateConnector looks the id up, and answers 500 when it is gone, ...
CheckUpdate(r) ==
    /\ pc[r] = "assign" /\ DOMAIN todo[r] = {}
    /\ IF target[r] \in stored THEN Goto(r, "write") ELSE End(r)
    /\ UNCHANGED <<tc, stored, object, runs, history>>

\* ... and then stores the pointer.
WriteUpdate(r) ==
    /\ pc[r] = "write"
    /\ stored' = stored \cup {target[r]}
    /\ End(r)
    /\ UNCHANGED <<tc, object, runs, history>>

\* DELETE.  Another DELETE may have come first: delete() of a key that is
\* gone does nothing, and both answer 204.
DeleteConnector(r, w, i) ==
    /\ StatusCode(w, i) = 200
    /\ Begin(r, w, i, "delete", <<>>)
    /\ UNCHANGED <<tc, stored, object, runs, history>>

Writing(i) == \E r \in Requests : pc[r] = "write" /\ target[r] = i

Delete(r) ==
    /\ pc[r] = "delete"
    /\ stored' = stored \ {target[r]}
    /\ acked' = acked \ {target[r]}
    /\ raced' = IF Writing(target[r]) THEN raced \cup {target[r]} ELSE raced
    /\ caller' = ws[r]
    /\ End(r)
    /\ UNCHANGED <<tc, object, runs, lost, refused>>

-----------------------------------------------------------------------------
\* The process ends (also with the fatal error of two unsynchronised uses of
\* the map) and starts again with an empty map.
Restart ==
    /\ tc' \in BOOLEAN
    /\ stored' = {} /\ lost' = lost \cup stored
    /\ pc' = [r \in Requests |-> "idle"]
    /\ ws' = [r \in Requests |-> None] /\ target' = [r \in Requests |-> None]
    /\ todo' = [r \in Requests |-> <<>>]
    /\ UNCHANGED <<object, runs, acked, raced, caller, refused>>

\* Temporal: the workflow of a connector ends.
Close(i) ==
    /\ runs[i] = "running"
    /\ runs' = [runs EXCEPT ![i] = "closed"]
    /\ UNCHANGED <<tc, stored, object, requests, history>>

StartedId(i) == <<"ingestion", i, object[i].workspace_id>>
TriggeredId(i) == <<"ingestion", i>>

\* POST /api/v1/ingest signals the workflow TriggeredId(i); 502 when none with
\* that id is running.
TriggerIngest(i) ==
    /\ runs[i] = "running"
    /\ refused' = IF TriggeredId(i) = StartedId(i) THEN refused ELSE refused \cup {i}
    /\ UNCHANGED <<tc, stored, object, requests, runs, acked, lost, raced, caller>>

Next ==
    \/ Restart
    \/ \E r \in Requests, w \in Workspaces, i \in Ids :
        \/ \E body \in Bodies : InsertConnector(r, w, i, body) \/ PatchConnector(r, w, i, body)
        \/ DeleteConnector(r, w, i)
    \/ \E r \in Requests :
        \/ StartIngestionWorkflow(r) \/ StartPanics(r)
        \/ Assign(r) \/ CheckUpdate(r) \/ WriteUpdate(r) \/ Delete(r)
    \/ \E i \in Ids : Close(i) \/ TriggerIngest(i)

Spec == Init /\ [][Next]_vars

-----------------------------------------------------------------------------
\* What a request past its check acts for: the workspace of its connector.
Authorised(r) ==
    /\ target[r] \in Ids /\ ws[r] \in Workspaces
    /\ ws[r] = object[target[r]].workspace_id

\* Every variable has its type, and a request past its check acts for the
\* workspace of its connector.
TypeOK ==
    /\ tc \in BOOLEAN
    /\ \A S \in {stored, acked, lost, raced, refused} : S \subseteq Ids
    /\ caller \in Workspaces \cup {None}
    /\ object \in [Ids -> Connectors]
    /\ pc \in [Requests -> {"idle", "start", "assign", "write", "delete"}]
    /\ ws \in [Requests -> Workspaces \cup {None}]
    /\ target \in [Requests -> Ids \cup {None}]
    /\ todo \in [Requests -> Given(Patchable)]
    /\ runs \in [Ids -> {"none", "running", "closed"}]
    /\ \A r \in Requests : pc[r] # "idle" => Authorised(r)

\* The registry acts on the table as Store would: whatever requests overlap, a
\* connector is changed and deleted by requests of its own workspace only, field
\* by field, and a deleted one does not come back.  Two things are left out of
\* the table: a connector whose DELETE fell between the check and the write of a
\* PATCH (DeletedStaysDeleted), and the loss of the map with the process
\* (AcknowledgedOutlivesRestart): the row of a lost connector stays as it was.
Table == INSTANCE ConnectorTable WITH
    rows <- [i \in (stored \cup lost) \ raced |-> object[i]],
    used <- {i \in Ids : object[i].workspace_id # None}
KeepsTable == Table!TableSpec

\* Requests that overlap do not undo each other: a field of a connector takes
\* no value but that of a PATCH for its owner that has the field in its body.
PatchesMerge ==
    [][\A i \in stored, f \in Columns :
            \/ object'[i].columns[f] = object[i].columns[f]
            \/ \E r \in Requests :
                /\ target[r] = i /\ ws[r] = object[i].workspace_id
                /\ f \in DOMAIN todo[r] /\ object'[i].columns[f] = todo[r][f]]_vars

\* A connector that a client was told of is listed for its workspace until a
\* DELETE or the end of the process, however the start of its workflow ended.
AcknowledgedIsListed ==
    \A i \in acked \ lost : \E w \in Workspaces : i \in Listed(w)

\* The data model keeps connectors in PostgreSQL: the end of the process takes
\* none that a client was told of.  MockQueries does not keep this.
AcknowledgedOutlivesRestart ==
    \A i \in acked : \E w \in Workspaces : i \in Listed(w)

\* Nothing is stored that no client was told of, once its POST has ended and
\* but for a process that started without Temporal: no PATCH brings back a
\* connector, save one whose check the DELETE overtook.
StoredIsAcknowledged ==
    tc => \A i \in stored \ (acked \cup raced) :
              \E r \in Requests : pc[r] = "start" /\ target[r] = i

\* The contract's DELETE removes the connector.
DeletedStaysDeleted == stored \cap raced = {}

\* "Signal a BYOD IngestionWorkflow": a workflow under way gets the signal.
TriggerReachesRun == refused = {}

\* GET status tells the current sync status.
StatusFollowsRun == \A i \in stored : runs[i] = "closed" => SyncStatus(i) # "pending"
=============================================================================
