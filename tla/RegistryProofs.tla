--------------------------- MODULE RegistryProofs ---------------------------
(***************************************************************************)
(* Proofs about Registry, for any number of connectors, workspaces and     *)
(* requests.                                                               *)
(***************************************************************************)
EXTENDS Registry, TLAPS

\* A request that has nothing to assign.
LEMMA NothingGiven == <<>> \in Given(Patchable)
<1>1. <<>> \in [{} -> Values]
    OBVIOUS
<1> QED
    BY <1>1 DEF Given

\* What is left to assign stays a part of what PATCH applies.
LEMMA GivenShrinks ==
    ASSUME NEW t \in Given(Patchable), NEW D
    PROVE  Restrict(t, DOMAIN t \ D) \in Given(Patchable)
<1> PICK S \in SUBSET Patchable : t \in [S -> Values]
    BY DEF Given
<1>1. Restrict(t, DOMAIN t \ D) \in [S \ D -> Values]
    BY DEF Restrict
<1> QED
    BY <1>1 DEF Given

\* PATCH applies of a body what is patchable.
LEMMA GivenByBody ==
    ASSUME NEW body \in Bodies
    PROVE  Restrict(body, DOMAIN body \cap Patchable) \in Given(Patchable)
<1> PICK S \in SUBSET Columns : body \in [S -> Values]
    BY BodiesAssumption DEF Given
<1>1. Restrict(body, DOMAIN body \cap Patchable) \in [S \cap Patchable -> Values]
    BY DEF Restrict
<1> QED
    BY <1>1 DEF Given

\* A field still to be assigned is a column, and has a value for it.
LEMMA GivenIsTyped ==
    ASSUME NEW t \in Given(Patchable), NEW f \in DOMAIN t
    PROVE  f \in Columns /\ t[f] \in Values
BY DEF Given, Patchable, Columns

\* POST stores every column.
LEMMA KeptIsTyped ==
    ASSUME NEW body \in Bodies
    PROVE  Kept(body) \in [Columns -> Values]
<1> PICK S \in SUBSET Columns : body \in [S -> Values]
    BY BodiesAssumption DEF Given
<1> QED
    BY ValuesAssumption DEF Kept

Assigns(i, f, v) == object' = [object EXCEPT ![i].columns[f] = v]

\* An assignment changes one column of one connector, never its workspace.
LEMMA AssignColumn ==
    ASSUME NEW i \in Ids, NEW f \in Columns, NEW v \in Values, object \in [Ids -> Connectors],
           Assigns(i, f, v)
    PROVE  /\ object' \in [Ids -> Connectors]
           /\ \A j \in Ids : object'[j].workspace_id = object[j].workspace_id
           /\ \A j \in Ids : j # i => object'[j] = object[j]
           /\ object'[i].columns = [object[i].columns EXCEPT ![f] = v]
<1>1. object[i] \in Connectors
    OBVIOUS
<1>2. /\ object'[i] = [object[i] EXCEPT !.columns = [object[i].columns EXCEPT ![f] = v]]
      /\ \A j \in Ids : j # i => object'[j] = object[j]
      /\ object' = [j \in Ids |-> object'[j]]
    BY DEF Assigns
<1>3. [object[i].columns EXCEPT ![f] = v] \in [Columns -> Values]
    BY <1>1 DEF Connectors
<1>4. object'[i] \in Connectors /\ object'[i].workspace_id = object[i].workspace_id
    BY <1>1, <1>2, <1>3 DEF Connectors
<1> QED
    BY <1>1, <1>2, <1>4 DEF Connectors

LEMMA TypeInit == Init => TypeOK
<1> SUFFICES ASSUME Init PROVE TypeOK
    OBVIOUS
<1>1. object \in [Ids -> Connectors]
    BY ValuesAssumption DEF Init, Blank, Connectors
<1> QED
    BY <1>1, NothingGiven DEF Init, TypeOK

LEMMA TypeStep == TypeOK /\ [Next]_vars => TypeOK'
<1> SUFFICES ASSUME TypeOK, [Next]_vars PROVE TypeOK'
    OBVIOUS
<1> USE NoneAssumption DEF TypeOK, Authorised
<1>1. CASE Restart
    BY <1>1, NothingGiven DEF Restart
<1>2. ASSUME NEW r \in Requests, NEW w \in Workspaces, NEW i \in Ids, NEW body \in Bodies,
             InsertConnector(r, w, i, body)
      PROVE  TypeOK'
  <2>1. \A q \in Requests : pc[q] # "idle" => target[q] # i
    BY <1>2 DEF InsertConnector
  <2>2. [workspace_id |-> w, columns |-> Kept(body)] \in Connectors
    BY KeptIsTyped DEF Connectors
  <2> QED
    BY <1>2, <2>1, <2>2, NothingGiven DEF InsertConnector, Begin, history
<1>3. ASSUME NEW r \in Requests, NEW w \in Workspaces, NEW i \in Ids, NEW body \in Bodies,
             PatchConnector(r, w, i, body)
      PROVE  TypeOK'
  <2>1. object[i].workspace_id = w
    BY <1>3 DEF PatchConnector, StatusCode
  <2> QED
    BY <1>3, <2>1, GivenByBody DEF PatchConnector, Begin, history
<1>4. ASSUME NEW r \in Requests, NEW w \in Workspaces, NEW i \in Ids, DeleteConnector(r, w, i)
      PROVE  TypeOK'
  <2>1. object[i].workspace_id = w
    BY <1>4 DEF DeleteConnector, StatusCode
  <2> QED
    BY <1>4, <2>1, NothingGiven DEF DeleteConnector, Begin, history
<1>5. ASSUME NEW r \in Requests, StartIngestionWorkflow(r) PROVE TypeOK'
    BY <1>5, NothingGiven DEF StartIngestionWorkflow, End
<1>6. ASSUME NEW r \in Requests, StartPanics(r) PROVE TypeOK'
    BY <1>6, NothingGiven DEF StartPanics, End, history
<1>7. ASSUME NEW r \in Requests, Assign(r) PROVE TypeOK'
  <2> PICK f \in DOMAIN todo[r] :
            /\ Assigns(target[r], f, todo[r][f])
            /\ todo' = [todo EXCEPT ![r] = Restrict(@, DOMAIN @ \ {f})]
    BY <1>7 DEF Assign, Assigns
  <2>1. todo' \in [Requests -> Given(Patchable)]
    BY GivenShrinks
  <2>2. f \in Columns /\ todo[r][f] \in Values /\ target[r] \in Ids
    BY <1>7, GivenIsTyped DEF Assign, Assigns
  <2>3. /\ object' \in [Ids -> Connectors]
        /\ \A j \in Ids : object'[j].workspace_id = object[j].workspace_id
    BY <2>2, AssignColumn
  <2> QED
    BY <1>7, <2>1, <2>3 DEF Assign, history
<1>8. ASSUME NEW r \in Requests, CheckUpdate(r) PROVE TypeOK'
    BY <1>8, NothingGiven DEF CheckUpdate, Goto, End, history
<1>9. ASSUME NEW r \in Requests, WriteUpdate(r) PROVE TypeOK'
    BY <1>9, NothingGiven DEF WriteUpdate, End, history
<1>10. ASSUME NEW r \in Requests, Delete(r) PROVE TypeOK'
    BY <1>10, NothingGiven DEF Delete, End
<1>11. ASSUME NEW i \in Ids, Close(i) PROVE TypeOK'
    BY <1>11 DEF Close, requests, history
<1>12. ASSUME NEW i \in Ids, TriggerIngest(i) PROVE TypeOK'
    BY <1>12 DEF TriggerIngest, requests
<1>13. CASE UNCHANGED vars
    BY <1>13 DEF vars, requests, history
<1> QED
    BY <1>1, <1>2, <1>3, <1>4, <1>5, <1>6, <1>7, <1>8, <1>9, <1>10, <1>11, <1>12, <1>13
    DEF Next

-----------------------------------------------------------------------------
\* Every connector the map holds or held has an owner.
StoredHasOwner == \A i \in stored \cup lost \cup raced : object[i].workspace_id # None

\* What an UPDATE past its check will store is stored, or was deleted since.
WritesStored ==
    \A r \in Requests : pc[r] = "write" => target[r] \in stored \cup raced

\* A lost connector is gone, and no request is about it.
LostIsGone == stored \cap lost = {} /\ \A r \in Requests : target[r] \notin lost

StoreInv ==
    /\ StoredHasOwner /\ acked \subseteq stored \cup lost /\ LostIsGone
    /\ WritesStored /\ StoredIsAcknowledged

LEMMA StoreInit == Init => StoreInv
BY DEF Init, StoreInv, StoredHasOwner, LostIsGone, WritesStored, StoredIsAcknowledged

LEMMA StoreStep == TypeOK /\ StoreInv /\ [Next]_vars => StoreInv'
<1> SUFFICES ASSUME TypeOK, StoreInv, [Next]_vars PROVE StoreInv'
    OBVIOUS
<1> USE NoneAssumption
    DEF StoreInv, StoredHasOwner, LostIsGone, WritesStored, StoredIsAcknowledged, TypeOK, Authorised
<1>1. CASE Restart
    BY <1>1 DEF Restart
<1>2. ASSUME NEW r \in Requests, NEW w \in Workspaces, NEW i \in Ids, NEW body \in Bodies,
             InsertConnector(r, w, i, body)
      PROVE  StoreInv'
  <2>1. object'[i].workspace_id = w /\ \A j \in Ids : j # i => object'[j] = object[j]
    BY <1>2 DEF InsertConnector
  <2>2. StoredHasOwner' /\ WritesStored' /\ LostIsGone' /\ (acked \subseteq stored \cup lost)'
    BY <1>2, <2>1 DEF InsertConnector, Begin, history
  <2>3. StoredIsAcknowledged'
    BY <1>2 DEF InsertConnector, Begin, history
  <2> QED
    BY <2>2, <2>3
<1>3. ASSUME NEW r \in Requests, NEW w \in Workspaces, NEW i \in Ids, NEW body \in Bodies,
             PatchConnector(r, w, i, body)
      PROVE  StoreInv'
    BY <1>3 DEF PatchConnector, StatusCode, Begin, history
<1>4. ASSUME NEW r \in Requests, NEW w \in Workspaces, NEW i \in Ids, DeleteConnector(r, w, i)
      PROVE  StoreInv'
    BY <1>4 DEF DeleteConnector, StatusCode, Begin, history
<1>5. ASSUME NEW r \in Requests, StartIngestionWorkflow(r) PROVE StoreInv'
    BY <1>5 DEF StartIngestionWorkflow, End
<1>6. ASSUME NEW r \in Requests, StartPanics(r) PROVE StoreInv'
    BY <1>6 DEF StartPanics, End, history
<1>7. ASSUME NEW r \in Requests, Assign(r) PROVE StoreInv'
  <2> PICK f \in DOMAIN todo[r] :
            Assigns(target[r], f, todo[r][f])
    BY <1>7 DEF Assign, Assigns
  <2>1. \A j \in Ids : object'[j].workspace_id = object[j].workspace_id
    BY <1>7, GivenIsTyped, AssignColumn DEF Assign, Assigns
  <2> QED
    BY <1>7, <2>1 DEF Assign, history
<1>8. ASSUME NEW r \in Requests, CheckUpdate(r) PROVE StoreInv'
    BY <1>8 DEF CheckUpdate, Goto, End, history
<1>9. ASSUME NEW r \in Requests, WriteUpdate(r) PROVE StoreInv'
    BY <1>9 DEF WriteUpdate, End, history
<1>10. ASSUME NEW r \in Requests, Delete(r) PROVE StoreInv'
    BY <1>10 DEF Delete, End, Writing
<1>11. ASSUME NEW i \in Ids, Close(i) PROVE StoreInv'
    BY <1>11 DEF Close, requests, history
<1>12. ASSUME NEW i \in Ids, TriggerIngest(i) PROVE StoreInv'
    BY <1>12 DEF TriggerIngest, requests
<1>13. CASE UNCHANGED vars
    BY <1>13 DEF vars, requests, history
<1> QED
    BY <1>1, <1>2, <1>3, <1>4, <1>5, <1>6, <1>7, <1>8, <1>9, <1>10, <1>11, <1>12, <1>13
    DEF Next

\* Every variable has its type, and a request past its check acts for the
\* workspace of its connector.
THEOREM RegistryTypeCorrect == Spec => []TypeOK
BY TypeInit, TypeStep, PTL DEF Spec

\* Nothing is stored that no client was told of, once its POST has ended and
\* but for a process that started without Temporal or a DELETE that overtook
\* the check of a PATCH.
THEOREM RegistryStoresAcknowledged == Spec => []StoredIsAcknowledged
<1>1. StoreInv => StoredIsAcknowledged
    BY DEF StoreInv
<1> QED
    BY <1>1, TypeInit, TypeStep, StoreInit, StoreStep, PTL DEF Spec

\* A connector that a client was told of is listed for its workspace until a
\* DELETE or the end of the process, however the start of its workflow ended.
THEOREM RegistryListsAcknowledged == Spec => []AcknowledgedIsListed
<1>1. TypeOK /\ StoreInv => AcknowledgedIsListed
  <2> SUFFICES ASSUME TypeOK, StoreInv, NEW i \in acked \ lost
               PROVE  i \in Listed(object[i].workspace_id) /\ object[i].workspace_id \in Workspaces
    BY DEF AcknowledgedIsListed
  <2> QED
    BY DEF TypeOK, StoreInv, StoredHasOwner, Listed, Connectors
<1> QED
    BY <1>1, TypeInit, TypeStep, StoreInit, StoreStep, PTL DEF Spec

-----------------------------------------------------------------------------
\* An object changes with the POST of its id, or in a field that a PATCH for
\* its owner still has to assign.
LEMMA ObjectChanges ==
    ASSUME TypeOK, StoreInv, [Next]_vars, NEW i \in stored, NEW f \in Columns,
           object'[i].columns[f] # object[i].columns[f]
    PROVE  \E r \in Requests :
                /\ target[r] = i /\ ws[r] = object[i].workspace_id
                /\ f \in DOMAIN todo[r] /\ object'[i].columns[f] = todo[r][f]
<1> USE DEF TypeOK
<1>1. ASSUME NEW r \in Requests, NEW w \in Workspaces, NEW j \in Ids, NEW body \in Bodies,
             InsertConnector(r, w, j, body)
      PROVE  FALSE
  <2>1. object[j].workspace_id = None /\ object' = [object EXCEPT ![j] = object'[j]]
    BY <1>1 DEF InsertConnector
  <2> QED
    BY <2>1 DEF StoreInv, StoredHasOwner
<1>2. ASSUME NEW r \in Requests, Assign(r)
      PROVE  target[r] = i /\ ws[r] = object[i].workspace_id
             /\ f \in DOMAIN todo[r] /\ object'[i].columns[f] = todo[r][f]
  <2> PICK g \in DOMAIN todo[r] :
            Assigns(target[r], g, todo[r][g])
    BY <1>2 DEF Assign, Assigns
  <2>1. g \in Columns /\ todo[r][g] \in Values /\ Authorised(r)
    BY <1>2, GivenIsTyped DEF Assign, Assigns
  <2>2. /\ \A j \in Ids : j # target[r] => object'[j] = object[j]
        /\ object'[target[r]].columns = [object[target[r]].columns EXCEPT ![g] = todo[r][g]]
    BY <2>1, AssignColumn DEF Authorised
  <2>3. object[i].columns \in [Columns -> Values]
    BY DEF Connectors
  <2>4. i = target[r] /\ f = g
    BY <2>2, <2>3
  <2> QED
    BY <2>1, <2>2, <2>3, <2>4 DEF Authorised
<1>3. object' = object \/ (\E r \in Requests : Assign(r))
      \/ (\E r \in Requests, w \in Workspaces, j \in Ids, body \in Bodies : InsertConnector(r, w, j, body))
    BY DEF Next, vars, Restart, PatchConnector, DeleteConnector, StartIngestionWorkflow, StartPanics,
           CheckUpdate, WriteUpdate, Delete, Close, TriggerIngest
<1> QED
    BY <1>1, <1>2, <1>3

\* Requests that overlap do not undo each other: a field of a connector takes
\* no value but that of a PATCH for its owner that has the field in its body.
THEOREM RegistryMergesPatches == Spec => PatchesMerge
<1> DEFINE Merges ==
        \A i \in stored, f \in Columns :
            \/ object'[i].columns[f] = object[i].columns[f]
            \/ \E r \in Requests :
                /\ target[r] = i /\ ws[r] = object[i].workspace_id
                /\ f \in DOMAIN todo[r] /\ object'[i].columns[f] = todo[r][f]
<1>1. TypeOK /\ StoreInv /\ [Next]_vars => [Merges]_vars
    BY ObjectChanges
<1> QED
    BY <1>1, TypeInit, TypeStep, StoreInit, StoreStep, PTL DEF Spec, PatchesMerge

-----------------------------------------------------------------------------
\* The table that the map stands for, and the ids given out.
Rows == [i \in (stored \cup lost) \ raced |-> object[i]]
Used == {i \in Ids : object[i].workspace_id # None}

LEMMA NoRows ==
    ASSUME stored = {}, lost = {}
    PROVE  Rows = <<>>
BY DEF Rows

\* What leaves the connectors of the table and their objects alone is no step
\* of the table.
LEMMA TableUnchanged ==
    ASSUME (stored' \cup lost') \ raced' = (stored \cup lost) \ raced, object' = object
    PROVE  Rows' = Rows /\ Used' = Used
BY DEF Rows, Used

LEMMA InsertIsInsert ==
    ASSUME TypeOK, StoreInv, NEW r \in Requests, NEW w \in Workspaces, NEW i \in Ids,
           NEW body \in Bodies, InsertConnector(r, w, i, body)
    PROVE  Kept(body) \in [Columns -> Values] /\ Table!Insert(i, w, Kept(body))
<1> DEFINE row == [workspace_id |-> w, columns |-> Kept(body)]
<1>1. /\ i \notin stored \cup lost \cup raced /\ i \notin Used /\ caller' = w
      /\ stored' = stored \cup {i} /\ lost' = lost /\ raced' = raced
      /\ object' = [object EXCEPT ![i] = row]
    BY DEF InsertConnector, StoreInv, StoredHasOwner, Used
<1>2. /\ object'[i] = row
      /\ \A j \in Ids : j # i => object'[j] = object[j]
    BY <1>1 DEF TypeOK
<1>3. Used' = Used \cup {i}
    BY <1>2, NoneAssumption DEF Used
<1>4. (stored' \cup lost') \ raced' = ((stored \cup lost) \ raced) \cup {i}
    BY <1>1
<1>5. Rows' = [j \in DOMAIN Rows \cup {i} |-> IF j = i THEN row ELSE Rows[j]]
    BY <1>1, <1>2, <1>4 DEF Rows, TypeOK
<1> QED
    BY <1>1, <1>3, <1>5, KeptIsTyped DEF Table!Insert, Rows, Used

LEMMA AssignIsUpdate ==
    ASSUME TypeOK, StoreInv, NEW r \in Requests, Assign(r), NEW i \in (stored \cup lost) \ raced, target[r] = i
    PROVE  \E w \in Workspaces : \E given \in Given(Columns) : Table!Update(w, i, given)
<1> PICK f \in DOMAIN todo[r] : Assigns(i, f, todo[r][f])
    BY DEF Assign, Assigns
<1>1. f \in Columns /\ todo[r][f] \in Values /\ Authorised(r) /\ i \in Ids
    BY GivenIsTyped DEF Assign, TypeOK, Authorised
<1>2. /\ object' \in [Ids -> Connectors]
      /\ \A j \in Ids : object'[j].workspace_id = object[j].workspace_id
      /\ \A j \in Ids : j # i => object'[j] = object[j]
      /\ object'[i].columns = [object[i].columns EXCEPT ![f] = todo[r][f]]
  <2>1. object \in [Ids -> Connectors]
    BY DEF TypeOK
  <2> QED
    BY <1>1, <2>1, AssignColumn
<1>3. Used' = Used /\ stored' = stored /\ lost' = lost /\ raced' = raced /\ caller' = ws[r]
      /\ stored \subseteq Ids /\ lost \subseteq Ids
    BY <1>2 DEF Used, Assign, TypeOK
<1>4. PICK given \in Given(Columns) : given = [g \in {f} |-> todo[r][f]]
  <2>1. [g \in {f} |-> todo[r][f]] \in [{f} -> Values]
    BY <1>1
  <2> QED
    BY <1>1, <2>1 DEF Given
<1>5. object[i] \in Connectors /\ object'[i] \in Connectors
    BY <1>1, <1>2 DEF TypeOK
<1>6. object'[i].columns = [g \in Columns |-> IF g \in DOMAIN given THEN given[g] ELSE object[i].columns[g]]
    BY <1>2, <1>4, <1>5 DEF Connectors
<1>7. object'[i] = [object[i] EXCEPT !.columns =
                      [g \in Columns |-> IF g \in DOMAIN given THEN given[g] ELSE object[i].columns[g]]]
    BY <1>1, <1>2, <1>5, <1>6 DEF Connectors
<1>8. Rows' = [Rows EXCEPT ![i].columns =
                      [g \in Columns |-> IF g \in DOMAIN given THEN given[g] ELSE @[g]]]
  <2> DEFINE row == [object[i] EXCEPT !.columns =
                        [g \in Columns |-> IF g \in DOMAIN given THEN given[g] ELSE object[i].columns[g]]]
  <2>1. Rows[i] = object[i] /\ DOMAIN Rows = (stored \cup lost) \ raced
    BY DEF Rows
  <2>2. Rows' = [j \in (stored \cup lost) \ raced |-> object'[j]]
    BY <1>3 DEF Rows
  <2>3. \A j \in (stored \cup lost) \ raced : object'[j] = IF j = i THEN row ELSE Rows[j]
    BY <1>2, <1>3, <1>7 DEF Rows
  <2>4. Rows' = [Rows EXCEPT ![i] = row]
    <3> HIDE DEF row
    <3> QED
      BY <2>1, <2>2, <2>3 DEF Rows
  <2> QED
    BY <2>1, <2>4
<1>9. i \in DOMAIN Rows /\ Rows[i].workspace_id = ws[r]
    BY <1>1 DEF Rows, Authorised
<1>10. Table!Update(ws[r], i, given)
    BY <1>3, <1>8, <1>9 DEF Table!Update, Table!Owns, Rows, Used
<1>11. ws[r] \in Workspaces
    BY <1>1 DEF Authorised
<1> USE <1>11
<1> WITNESS ws[r] \in Workspaces
<1> WITNESS given \in Given(Columns)
<1> QED
    BY <1>10

LEMMA DeleteIsDelete ==
    ASSUME TypeOK, StoreInv, NEW r \in Requests, Delete(r),
           NEW i \in (stored \cup lost) \ raced, target[r] = i
    PROVE  \E w \in Workspaces : Table!Delete(w, i)
<1>1. Authorised(r) /\ Used' = Used /\ object' = object
      /\ caller' = ws[r]
      /\ (stored' \cup lost') \ raced' = ((stored \cup lost) \ raced) \ {i}
    BY DEF Delete, TypeOK, Used, StoreInv, LostIsGone
<1>2. Rows' = Restrict(Rows, DOMAIN Rows \ {i})
    BY <1>1 DEF Rows, Restrict
<1>3. i \in DOMAIN Rows /\ Rows[i].workspace_id = ws[r]
    BY <1>1 DEF Rows, Authorised
<1>4. Table!Delete(ws[r], i)
    BY <1>1, <1>2, <1>3 DEF Table!Delete, Table!Owns, Table!Restrict, Restrict, Rows, Used
<1>5. ws[r] \in Workspaces
    BY <1>1 DEF Authorised
<1> USE <1>5
<1> WITNESS ws[r] \in Workspaces
<1> QED
    BY <1>4

\* A statement about a connector the table does not have changes no row.
LEMMA NoRowNoChange ==
    ASSUME Rows' = Rows, Used' = Used, NEW i \in Ids, i \notin DOMAIN Rows,
           NEW w \in Workspaces, caller' = w
    PROVE  Table!Delete(w, i)
BY DEF Table!Delete, Table!Owns, Rows, Used

LEMMA TableStep ==
    ASSUME TypeOK, StoreInv, [Next]_vars
    PROVE  (Rows' = Rows /\ Used' = Used /\ caller' = caller) \/ Table!TableNext
<1>2. ASSUME NEW r \in Requests, NEW w \in Workspaces, NEW i \in Ids, NEW body \in Bodies,
             InsertConnector(r, w, i, body)
      PROVE  Table!TableNext
    BY <1>2, InsertIsInsert DEF Table!TableNext
<1>3. ASSUME NEW r \in Requests, Assign(r) PROVE Table!TableNext
  <2>0. target[r] \in Ids /\ ws[r] \in Workspaces /\ caller' = ws[r]
    BY <1>3 DEF Assign, TypeOK, Authorised
  <2>1. CASE target[r] \in (stored \cup lost) \ raced
    BY <1>3, <2>0, <2>1, AssignIsUpdate DEF Table!TableNext, Given
  <2>2. CASE target[r] \notin (stored \cup lost) \ raced
    <3>1. \A j \in Ids : j # target[r] => object'[j] = object[j]
      BY <1>3, GivenIsTyped, AssignColumn DEF Assign, TypeOK, Authorised, Assigns
    <3>2. stored' = stored /\ lost' = lost /\ raced' = raced
      BY <1>3 DEF Assign
    <3>3. \A j \in Ids : object'[j].workspace_id = object[j].workspace_id
      BY <1>3, GivenIsTyped, AssignColumn DEF Assign, TypeOK, Authorised, Assigns
    <3>4. Rows' = Rows /\ Used' = Used /\ target[r] \notin DOMAIN Rows
      BY <2>2, <3>1, <3>2, <3>3 DEF Rows, Used, TypeOK
    <3> QED
      BY <2>0, <3>4, NoRowNoChange DEF Table!TableNext
  <2> QED
    BY <2>1, <2>2
<1>4. ASSUME NEW r \in Requests, Delete(r) PROVE Table!TableNext
  <2>0. target[r] \in Ids /\ ws[r] \in Workspaces /\ caller' = ws[r]
    BY <1>4 DEF Delete, TypeOK, Authorised
  <2>1. CASE target[r] \in (stored \cup lost) \ raced
    BY <1>4, <2>0, <2>1, DeleteIsDelete DEF Table!TableNext
  <2>2. CASE target[r] \notin (stored \cup lost) \ raced
    <3>1. (stored' \cup lost') \ raced' = (stored \cup lost) \ raced /\ object' = object
      BY <1>4, <2>2 DEF Delete, StoreInv, LostIsGone
    <3>2. target[r] \notin DOMAIN Rows
      BY <2>2 DEF Rows
    <3> QED
      BY <2>0, <3>1, <3>2, TableUnchanged, NoRowNoChange DEF Table!TableNext
  <2> QED
    BY <2>1, <2>2
<1>5. ASSUME NEW r \in Requests, WriteUpdate(r)
      PROVE  Rows' = Rows /\ Used' = Used /\ caller' = caller
  <2>1. (stored' \cup lost') \ raced' = (stored \cup lost) \ raced
    BY <1>5 DEF WriteUpdate, StoreInv, WritesStored, history
  <2> QED
    BY <1>5, <2>1, TableUnchanged DEF WriteUpdate, history
<1>6. CASE \/ Restart
           \/ \E r \in Requests, w \in Workspaces, i \in Ids :
              (\E body \in Bodies : PatchConnector(r, w, i, body)) \/ DeleteConnector(r, w, i)
           \/ \E r \in Requests : StartIngestionWorkflow(r) \/ StartPanics(r) \/ CheckUpdate(r)
           \/ \E i \in Ids : Close(i) \/ TriggerIngest(i)
           \/ UNCHANGED vars
  <2>1. stored' \cup lost' = stored \cup lost /\ raced' = raced /\ object' = object /\ caller' = caller
    BY <1>6 DEF Restart, PatchConnector, DeleteConnector, StartIngestionWorkflow, StartPanics,
                CheckUpdate, Close, TriggerIngest, vars, history
  <2> QED
    BY <2>1, TableUnchanged
<1> QED
    BY <1>2, <1>3, <1>4, <1>5, <1>6 DEF Next

\* Whatever requests overlap, a connector is changed and deleted by requests of
\* its own workspace only, field by field, and a deleted one does not come back:
\* the registry implements the table of connectors, but for a connector whose
\* DELETE fell between the check and the write of a PATCH and for the loss of
\* the map with the process.
THEOREM RegistryImplementsTable == Spec => KeepsTable
<1>1. Init => Table!TableInit
  <2> SUFFICES ASSUME Init PROVE Rows = <<>> /\ Used = {} /\ caller = None
    BY DEF Table!TableInit, Rows, Used
  <2> QED
    BY NoRows DEF Init, Blank, Used
<1>2. TypeOK /\ StoreInv /\ [Next]_vars => [Table!TableNext]_<<Rows, Used, caller>>
    BY TableStep
<1> QED
    BY <1>1, <1>2, TypeInit, TypeStep, StoreInit, StoreStep, PTL
    DEF Spec, KeepsTable, Table!TableSpec, Rows, Used
=============================================================================
