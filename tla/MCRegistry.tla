----------------------------- MODULE MCRegistry -----------------------------
(***************************************************************************)
(* Instance of Registry for TLC: bodies with one field, with both and with *)
(* the one that is not stored.                                             *)
(***************************************************************************)
EXTENDS Registry, TLC

MCBodies == {"display_name" :> 1, "display_name" :> 2 @@ "config" :> 2,
             "config" :> 1 @@ "sync_schedule" :> 1}

Symmetric == Permutations(Requests)
=============================================================================
