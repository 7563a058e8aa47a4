----------------------------- MODULE MCConsole -----------------------------
(***************************************************************************)
(* Console with a row in most lists: a datacenter d1 with the switch h1 in *)
(* it, a user u1 and a report r1.                                          *)
(***************************************************************************)
EXTENDS Console

CONSTANTS d1, h1, u1, r1, v1

Homes == [k \in Ids |-> CASE k = d1 -> "datacenter"
                           [] k = h1 -> "hardware"
                           [] k = u1 -> "user"
                           [] k = r1 -> "report"]

SwitchOfDatacenter == [k \in Ids |-> IF k = d1 THEN {h1} \cap Ids ELSE {}]
AllThere == [k \in Ids |-> [kind |-> Homes[k], value |-> v1]]
=============================================================================
