--------------------------- MODULE ConnectorTable ---------------------------
(***************************************************************************)
(* What a store of connectors promises, one statement of SQL a step: the   *)
(* Store over the table knowledge_connectors.  Every statement names the   *)
(* workspace it acts for in its WHERE, so that it does nothing to a row of *)
(* another; an UPDATE leaves a column alone that it is not given           *)
(* (COALESCE).  Nothing but a DELETE of its workspace removes a row.       *)
(***************************************************************************)
EXTENDS Functions

CONSTANTS
    Ids,            \* what gen_random_uuid or uuid.New may return
    Workspaces,
    Columns,        \* the columns an owner sets
    Values,
    None            \* no workspace

VARIABLES
    rows,       \* rows[i]: the row whose id is i
    used,       \* ids that were given out
    caller      \* the workspace the last statement named

TableInit == rows = <<>> /\ used = {} /\ caller = None

\* The caller gives each column a value; no id is given out twice.
Insert(i, w, values) ==
    /\ i \notin used
    /\ used' = used \cup {i}
    /\ rows' = [j \in DOMAIN rows \cup {i} |->
                   IF j = i THEN [workspace_id |-> w, columns |-> values] ELSE rows[j]]
    /\ caller' = w

Owns(w, i) == i \in DOMAIN rows /\ rows[i].workspace_id = w

Update(w, i, given) ==
    /\ IF Owns(w, i)
       THEN rows' = [rows EXCEPT ![i].columns =
                        [f \in Columns |-> IF f \in DOMAIN given THEN given[f] ELSE @[f]]]
       ELSE UNCHANGED rows
    /\ caller' = w
    /\ UNCHANGED used

Delete(w, i) ==
    /\ rows' = IF Owns(w, i) THEN Restrict(rows, DOMAIN rows \ {i}) ELSE rows
    /\ caller' = w
    /\ UNCHANGED used

TableNext ==
    \E i \in Ids, w \in Workspaces :
        \/ \E values \in [Columns -> Values] : Insert(i, w, values)
        \/ \E given \in UNION {[S -> Values] : S \in SUBSET Columns} : Update(w, i, given)
        \/ Delete(w, i)

TableSpec == TableInit /\ [][TableNext]_<<rows, used, caller>>
=============================================================================
