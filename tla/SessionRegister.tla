-------------------------- MODULE SessionRegister --------------------------
(***************************************************************************)
(* What Layer 1 promises its callers for one session: the session is one   *)
(* register that a checkpoint replaces as a whole and a fetch reads as a   *)
(* whole; either one restarts its idle clock, and it is lost only when the *)
(* clock runs out.  Nothing a process does in between, and no process that *)
(* dies in between, can be observed.                                       *)
(***************************************************************************)
EXTENDS Naturals

CONSTANTS
    Clients,    \* processes that call checkpoint_session or fetch_recent_session
    Payloads,   \* turn lists that may be checkpointed
    TTL,        \* ticks an idle session lives
    None        \* no session, and the empty list a fetch then returns

VARIABLES
    turns,      \* the turns the session holds
    left,       \* ticks it has left
    got         \* got[c]: what the last fetch of c returned

regVars == <<turns, left, got>>

Init ==
    /\ turns = None
    /\ left = 0
    /\ got = [c \in Clients |-> None]

Checkpoint ==
    /\ turns' \in Payloads
    /\ left' = TTL
    /\ UNCHANGED got

Fetch(c) ==
    /\ got' = [got EXCEPT ![c] = turns]
    /\ left' = IF turns = None THEN 0 ELSE TTL
    /\ UNCHANGED turns

Idle ==
    /\ left > 0
    /\ left' = left - 1
    /\ turns' = IF left = 1 THEN None ELSE turns
    /\ UNCHANGED got

Next ==
    \/ Checkpoint
    \/ Idle
    \/ \E c \in Clients : Fetch(c)

Spec == Init /\ [][Next]_regVars
=============================================================================
