--------------------------- MODULE MCEmbedClient ---------------------------
(***************************************************************************)
(* Instance of EmbedClient for TLC: more keys than the cache may hold, and *)
(* enough callers for an owner with two followers beside another request.  *)
(***************************************************************************)
EXTENDS EmbedClient

CONSTANTS c1, c2, c3, c4, k1, k2, k3
=============================================================================
