-------------------------- MODULE MCOrgIngestion --------------------------
(***************************************************************************)
(* Instances of OrgIngestion for TLC.  Content v2 is v1 after an edit: one *)
(* text stays, one goes, one comes.  Content v3 is that of another source; *)
(* it shares no text with v1 and v2.  Content v0 has no chunks.            *)
(***************************************************************************)
EXTENDS OrgIngestion, TLC

CONSTANTS c1, c2, w1, w2, v0, v1, v2, v3, t1, t2, t3, t4, r1, r2

MCReaders == [c \in Connectors |-> IF c = c1 THEN {w1} ELSE {w2}]
MCChunks == [v \in Contents |-> CASE v = v0 -> {}
                                  [] v = v1 -> {t1, t2}
                                  [] v = v2 -> {t2, t3}
                                  [] v = v3 -> {t4}]
MCRank == [t \in Texts |-> CASE t = t1 -> 1 [] t = t2 -> 2 [] t = t3 -> 3 [] t = t4 -> 4]
MCPartly == [c \in Connectors |-> IF c = c1 THEN {v0, v1, v2} ELSE {v2, v3}]
MCApart == [c \in Connectors |-> IF c = c1 THEN {v1, v2} ELSE {v3}]
MCSame == [c \in Connectors |-> {v0, v1, v2}]
=============================================================================
